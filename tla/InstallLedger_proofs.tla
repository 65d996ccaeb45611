------------------------ MODULE InstallLedger_proofs ------------------------
(***************************************************************************)
(* Proofs about InstallLedger, for every set of packages, releases and     *)
(* builds.  See the README for the argument.                               *)
(***************************************************************************)
EXTENDS InstallLedger, WellFoundedInduction, TLAPS

-----------------------------------------------------------------------------
(* Lemmas about the helpers                                                *)

\* None is not a release, and what a purge deletes is one.
LEMMA SlotFacts ==
  /\ NoSlot \in Slot
  /\ Filled \subseteq Slot
  /\ \A s \in Slot : s.rel # None => s \in Filled
  /\ Idle \in Op
BY DEF NoSlot, Slot, Filled, Idle, Op, OpKinds, Statuses

\* The builtins of the index can be counted.
LEMMA BuiltinCount == Len(BuiltinSeq) \in Nat
BY LedgerAssumption

\* A ledger write keeps the ledger a function to entries.
LEMMA PutType ==
  ASSUME LedgerTypeOK, NEW i \in Insts, NEW e \in Entry
  PROVE  /\ DOMAIN Put(i, e) = DOMAIN ledger \cup {i}
         /\ DOMAIN Put(i, e) \in SUBSET Insts
         /\ Put(i, e) \in [DOMAIN Put(i, e) -> Entry]
         /\ Put(i, e)[i] = e
         /\ \A j \in DOMAIN ledger : j # i => Put(i, e)[j] = ledger[j]
BY DEF LedgerTypeOK, Put

\* So does the removal of entries.
LEMMA DropType ==
  ASSUME LedgerTypeOK, NEW S
  PROVE  /\ DOMAIN Drop(S) = DOMAIN ledger \ S
         /\ DOMAIN Drop(S) \in SUBSET Insts
         /\ Drop(S) \in [DOMAIN Drop(S) -> Entry]
         /\ \A j \in DOMAIN Drop(S) : Drop(S)[j] = ledger[j]
BY DEF LedgerTypeOK, Drop

\* A non-empty set of installations, or of any numbers, has a least one.
LEMMA LeastNumber ==
  ASSUME NEW S \in SUBSET Nat, S # {}
  PROVE  \E i \in S : \A j \in S : i <= j
<1>1. PICK i \in S : \A j \in S : ~ (<<j, i>> \in OpToRel(<, Nat))
  BY NatLessThanWellFounded, WFMin
<1>2. \A j \in S : ~ (j < i)
  BY <1>1 DEF OpToRel
<1> QED BY <1>2

\* The entry that find() returns is an entry, and the first one.
LEMMA LowestMember ==
  ASSUME NEW S \in SUBSET Insts, S # {}
  PROVE  Lowest(S) \in S /\ \A j \in S : Lowest(S) <= j
<1>1. S \in SUBSET Nat
  BY LedgerAssumption DEF Insts
<1>2. \E i \in S : \A j \in S : i <= j
  BY <1>1, LeastNumber
<1> QED BY <1>2 DEF Lowest

\* The entry that wins in a map by package id is an entry, and the last one.
LEMMA HighestMember ==
  ASSUME NEW S \in SUBSET Insts, S # {}
  PROVE  Highest(S) \in S /\ \A j \in S : j <= Highest(S)
<1> DEFINE T == {MaxInst - j : j \in S}
<1>1. S \in SUBSET Int /\ MaxInst \in Int
  BY LedgerAssumption DEF Insts
<1>2. \A j \in S : MaxInst - j \in Nat
  BY LedgerAssumption DEF Insts
<1>3. T \in SUBSET Nat /\ T # {}
  BY <1>2
<1>4. PICK k \in T : \A l \in T : k <= l
  BY <1>3, LeastNumber
<1>5. PICK i \in S : k = MaxInst - i
  OBVIOUS
<1>6. \A j \in S : MaxInst - i <= MaxInst - j
  BY <1>4, <1>5
<1>7. \A j \in S : j <= i
  <2> TAKE j \in S
  <2>1. i \in Int /\ j \in Int /\ MaxInst - i <= MaxInst - j
    BY <1>6, <1>1
  <2> QED BY <2>1, <1>1
<1> QED BY <1>7 DEF Highest

-----------------------------------------------------------------------------
(* Type correctness                                                        *)

\* The installations of a package are installations.
LEMMA OfPackageType == LedgerTypeOK => \A p : OfPackage(p) \in SUBSET (DOMAIN ledger)
BY DEF OfPackage

\* The entry an install stores is well-typed.
LEMMA NewEntryType ==
  ASSUME LedgerTypeOK, NEW p \in Packages, NEW r \in Releases, NEW o \in Origins,
         NEW prot \in BOOLEAN
  PROVE  NewEntry(p, r, o, prot) \in Entry
<1> DEFINE s == [rel |-> r, st |-> IF o = "Builtin" THEN "Ready" ELSE "Pending"]
           e == ledger[Lowest(OfPackage(p))]
<1>1. s \in Filled /\ s \in Slot /\ NoSlot \in Slot
  BY DEF Filled, Slot, NoSlot, Rels, Statuses
<1>2. CASE OfPackage(p) = {}
  BY <1>1, <1>2 DEF NewEntry, Entry
<1>3. CASE OfPackage(p) # {}
  <2>1. OfPackage(p) \in SUBSET Insts
    BY OfPackageType DEF LedgerTypeOK
  <2>2. e \in Entry
    BY <1>3, <2>1, LowestMember, OfPackageType DEF LedgerTypeOK
  <2>3. e.active \in Slot
    BY <2>2, SlotFacts DEF Entry
  <2>4. NewEntry(p, r, o, prot) = IF o = "Builtin" THEN [e EXCEPT !.active = s, !.previous = e.active]
                                                   ELSE [e EXCEPT !.pending = s]
    BY <1>3 DEF NewEntry
  <2> HIDE DEF s, e
  <2> QED BY <1>1, <2>2, <2>3, <2>4 DEF Entry
<1> QED BY <1>2, <1>3

\* The first step of an install, by a user or by setup.
LEMMA InstallStageType ==
  ASSUME LedgerTypeOK, NEW p \in Packages, NEW r \in Releases, NEW o \in Origins,
         NEW prot \in BOOLEAN, InstallStage(p, r, o, prot), UNCHANGED bootVars
  PROVE  LedgerTypeOK'
<1> DEFINE fresh == OfPackage(p) = {}
           i == IF fresh THEN nextInst ELSE Lowest(OfPackage(p))
<1>1. NewEntry(p, r, o, prot) \in Entry
  BY NewEntryType
<1>2. /\ i \in Insts
      /\ dirs' = dirs \cup {<<i, r>>}
      /\ op' = [Idle EXCEPT !.kind = "install", !.inst = i, !.rel = r,
                            !.entry = {NewEntry(p, r, o, prot)}]
      /\ nextInst' = IF fresh THEN nextInst + 1 ELSE nextInst
      /\ UNCHANGED <<ledger, sources, damaged>>
  BY DEF InstallStage
<1>3. nextInst' \in 1..(MaxInst + 1)
  <2>1. fresh => nextInst \in 1..MaxInst
    BY <1>2 DEF Insts
  <2>2. nextInst \in 1..(MaxInst + 1) /\ MaxInst \in Nat
    BY LedgerAssumption DEF LedgerTypeOK
  <2> QED BY <2>1, <2>2, <1>2
<1> HIDE DEF i, fresh
<1>4. op' \in Op
  BY <1>1, <1>2 DEF Idle, Op, OpKinds, Rels
<1>5. dirs' \in SUBSET (Insts \X Releases)
  BY <1>2 DEF LedgerTypeOK
<1> QED BY <1>2, <1>3, <1>4, <1>5 DEF LedgerTypeOK, bootVars

\* What a slot write leaves to delete is an operation.
LEMMA PurgeAfterType ==
  ASSUME NEW i \in Insts, NEW s \in Slot
  PROVE  PurgeAfter(i, s) \in Op
BY SlotFacts DEF PurgeAfter, Idle, Op, OpKinds, Slot

\* A slot write followed by the deletion of what it dropped.
LEMMA SlotWriteType ==
  ASSUME LedgerTypeOK, NEW i \in Insts, NEW e \in Entry, NEW s \in Slot,
         ledger' = Put(i, e), op' = op \/ op' = PurgeAfter(i, s),
         UNCHANGED <<diskVars, nextInst, bootVars, damaged>>
  PROVE  LedgerTypeOK'
<1>1. /\ DOMAIN ledger' \in SUBSET Insts
      /\ ledger' \in [DOMAIN ledger' -> Entry]
  BY PutType
<1>2. op' \in Op
  BY PurgeAfterType DEF LedgerTypeOK
<1> QED BY <1>1, <1>2 DEF LedgerTypeOK, diskVars, bootVars

\* The steps of the operation that holds the lock.
LEMMA LockHolderType == LedgerTypeOK /\ LockHolder /\ op.inst \in Insts
                          /\ (app = "booting" => todo <= Len(BuiltinSeq)) => LedgerTypeOK'
<1> SUFFICES ASSUME LedgerTypeOK, LockHolder, op.inst \in Insts,
                    app = "booting" => todo <= Len(BuiltinSeq)
             PROVE  LedgerTypeOK'
  OBVIOUS
<1> USE SlotFacts
<1>0. op \in Op /\ op.entry \in SUBSET Entry /\ op.files \in SUBSET Releases
  BY DEF LedgerTypeOK, Op
<1>1. CASE InstallCommit
  <2>1. PICK e \in Entry : ledger' = Put(op.inst, e)
    BY <1>0, <1>1 DEF InstallCommit
  <2>2. todo' \in 1..(Len(BuiltinSeq) + 1)
    BY <1>1, BuiltinCount DEF LedgerTypeOK, InstallCommit
  <2> QED BY <1>1, <2>1, <2>2, PutType DEF LedgerTypeOK, InstallCommit
<1>2. CASE InstallAbort
  BY <1>2 DEF LedgerTypeOK, InstallAbort
<1>3. CASE Purge
  BY <1>3 DEF LedgerTypeOK, Purge, bootVars
<1>4. CASE UninstallAbort
  <2>1. PICK e \in op.entry, kept \in {{}, op.files} :
            /\ dirs' = dirs \cup ({op.inst} \X kept)
            /\ damaged' = PutBack(op.inst, e, kept)
    BY <1>4 DEF UninstallAbort
  <2>2. dirs' \in SUBSET (Insts \X Releases) /\ damaged' \in SUBSET Insts
    BY <1>0, <2>1 DEF LedgerTypeOK, PutBack
  <2> QED BY <1>4, <2>2 DEF LedgerTypeOK, UninstallAbort, bootVars
<1>5. CASE UninstallCommit
  BY <1>0, <1>5, DropType DEF LedgerTypeOK, UninstallCommit, bootVars, diskVars, Op, OpKinds
<1>6. CASE UninstallEmpty
  BY <1>6 DEF LedgerTypeOK, UninstallEmpty, bootVars, diskVars
<1>7. CASE UninstallEmptyFails
  <2>1. PICK e \in op.entry, kept \in SUBSET op.files :
            /\ dirs' = dirs \cup ({op.inst} \X kept)
            /\ ledger' \in {ledger, Put(op.inst, e)}
            /\ damaged' = PutBack(op.inst, e, kept)
    BY <1>7 DEF UninstallEmptyFails
  <2>2. dirs' \in SUBSET (Insts \X Releases) /\ damaged' \in SUBSET Insts
    BY <1>0, <2>1 DEF LedgerTypeOK, PutBack
  <2>3. DOMAIN ledger' \in SUBSET Insts /\ ledger' \in [DOMAIN ledger' -> Entry]
    <3>1. e \in Entry
      BY <1>0
    <3>2. CASE ledger' = ledger
      BY <3>2 DEF LedgerTypeOK
    <3>3. CASE ledger' = Put(op.inst, e)
      BY <3>1, <3>3, PutType
    <3> QED BY <2>1, <3>2, <3>3
  <2> QED BY <1>7, <2>2, <2>3 DEF LedgerTypeOK, UninstallEmptyFails, bootVars
<1>8. CASE DevLoads
  BY <1>8 DEF LedgerTypeOK, DevLoads, bootVars, diskVars
<1>9. CASE DevFailsToLoad
  BY <1>9, DropType DEF LedgerTypeOK, DevFailsToLoad, bootVars, diskVars
<1> QED
  BY <1>1, <1>2, <1>3, <1>4, <1>5, <1>6, <1>7, <1>8, <1>9 DEF LockHolder

\* The commands that begin an operation or write a slot.
LEMMA CommandType ==
  ASSUME LedgerTypeOK, MainThreadCommand \/ InstallFromUrl \/ StatusCommand
  PROVE  LedgerTypeOK'
<1> USE SlotFacts
<1>0. \A i \in DOMAIN ledger : /\ i \in Insts /\ ledger[i] \in Entry
                               /\ ledger[i].active \in Filled
                               /\ ledger[i].active \in Slot
                               /\ ledger[i].pending \in Slot
                               /\ ledger[i].previous \in Slot
  BY DEF LedgerTypeOK, Entry
<1>1. ASSUME NEW p \in CatalogPackages, NEW r \in Releases, NEW o \in {"Local", "Marketplace"},
             Install(p, r, o)
      PROVE  LedgerTypeOK'
  BY <1>1, InstallStageType DEF Install, Packages, Origins
<1>2. ASSUME NEW i \in Insts, DiscardPending(i)
      PROVE  LedgerTypeOK'
  <2> DEFINE e == [ledger[i] EXCEPT !.pending = NoSlot]
  <2>1. e \in Entry
    BY <1>0, <1>2 DEF DiscardPending, Entry
  <2> QED BY <1>0, <1>2, <2>1, SlotWriteType DEF DiscardPending
<1>3. ASSUME NEW i \in Insts, Rollback(i)
      PROVE  LedgerTypeOK'
  <2> DEFINE e == [ledger[i] EXCEPT !.active = ledger[i].previous, !.pending = NoSlot,
                                    !.previous = ledger[i].active]
  <2>1. e \in Entry
    BY <1>0, <1>3 DEF Rollback, Entry
  <2> QED BY <1>0, <1>3, <2>1, SlotWriteType DEF Rollback
<1>4. ASSUME NEW i \in Insts, UninstallMove(i)
      PROVE  LedgerTypeOK'
  <2>1. op' \in Op
    BY <1>0, <1>4 DEF UninstallMove, Idle, Op, OpKinds
  <2> QED BY <1>4, <2>1 DEF UninstallMove, LedgerTypeOK, bootVars
<1>5. ASSUME NEW d \in DevDirs, UnregisterDevDir(d)
      PROVE  LedgerTypeOK'
  BY <1>5, DropType DEF UnregisterDevDir, LedgerTypeOK, bootVars, diskVars
<1>6. ASSUME NEW d \in DevDirs, NEW p \in DevPackages, RegisterDevDir(d, p)
      PROVE  LedgerTypeOK'
  <2>1. DevEntry(d, p) \in Entry
    BY DEF DevEntry, Entry, Packages, Origins, Filled, Rels, Statuses
  <2>2. PICK i \in Insts :
          /\ ledger' = Put(i, DevEntry(d, p))
          /\ op' \in {[Idle EXCEPT !.kind = "devold", !.inst = i],
                      [Idle EXCEPT !.kind = "devnew", !.inst = i]}
          /\ nextInst' = nextInst \/ (nextInst' = nextInst + 1 /\ i = nextInst)
    <3> DEFINE known == DevMatches(d, p) # {}
               i == IF known THEN Lowest(DevMatches(d, p)) ELSE nextInst
    <3> QED BY <1>6 DEF RegisterDevDir
  <2>3. op' \in Op
    BY <2>2 DEF Idle, Op, OpKinds
  <2>4. nextInst' \in 1..(MaxInst + 1)
    BY <2>2, LedgerAssumption DEF LedgerTypeOK, Insts
  <2>5. DOMAIN ledger' \in SUBSET Insts /\ ledger' \in [DOMAIN ledger' -> Entry]
    BY <2>1, <2>2, PutType
  <2> QED BY <1>6, <2>3, <2>4, <2>5 DEF RegisterDevDir, LedgerTypeOK, bootVars, diskVars
<1>7. ASSUME NEW i \in Insts, ActivatePending(i)
      PROVE  LedgerTypeOK'
  <2> DEFINE e == [ledger[i] EXCEPT !.active = [rel |-> ledger[i].pending.rel, st |-> "Ready"],
                                    !.pending = NoSlot, !.previous = ledger[i].active]
  <2>1. [rel |-> ledger[i].pending.rel, st |-> "Ready"] \in Filled
    BY <1>0, <1>7 DEF ActivatePending, Filled, Slot, Statuses
  <2>2. e \in Entry
    BY <1>0, <1>7, <2>1 DEF ActivatePending, Entry
  <2> QED BY <1>0, <1>7, <2>2, SlotWriteType DEF ActivatePending
<1>8. ASSUME NEW i \in Insts, NEW r \in Rels, NEW st \in MarkStatuses,
             MarkDependencyStatus(i, r, st)
      PROVE  LedgerTypeOK'
  <2>1. st \in Statuses
    BY LedgerAssumption DEF Statuses
  <2> DEFINE a == [ledger[i] EXCEPT !.active.st = st]
             b == [ledger[i] EXCEPT !.pending.st = st]
             c == [ledger[i] EXCEPT !.previous.st = st]
  <2>2. i \in DOMAIN ledger /\ ledger[i] \in Entry
    BY <1>0, <1>8 DEF MarkDependencyStatus
  <2>3. a \in Entry /\ b \in Entry /\ c \in Entry
    BY <2>1, <2>2 DEF Entry, Filled, Slot
  <2>4. ledger' = Put(i, a) \/ ledger' = Put(i, b) \/ ledger' = Put(i, c)
    BY <1>8 DEF MarkDependencyStatus
  <2>5. UNCHANGED <<diskVars, op, nextInst, bootVars, damaged>>
    BY <1>8 DEF MarkDependencyStatus
  <2> HIDE DEF a, b, c
  <2> QED BY <2>3, <2>4, <2>5, SlotWriteType
<1> QED
  BY <1>1, <1>2, <1>3, <1>4, <1>5, <1>6, <1>7, <1>8
     DEF MainThreadCommand, InstallFromUrl, StatusCommand

\* The start of the application, its installs included.
LEMMA LifecycleType ==
  ASSUME LedgerTypeOK, Lifecycle
  PROVE  LedgerTypeOK'
<1>1. CASE Boot
  <2>1. todo' \in 1..(Len(BuiltinSeq) + 1) /\ app' \in {"down", "booting", "running"}
    BY <1>1, BuiltinCount DEF Boot
  <2> QED BY <1>1, <2>1 DEF Boot, LedgerTypeOK, diskVars
<1>2. CASE BootRefuses
  BY <1>2 DEF BootRefuses, LedgerTypeOK, diskVars
<1>3. CASE BootSkips
  BY <1>3, BuiltinCount DEF BootSkips, Booting, LedgerTypeOK, diskVars
<1>4. CASE BootInstalls
  <2>1. BuiltinSeq[todo] \in Builtins
    BY <1>4 DEF BootInstalls, Booting, LedgerTypeOK, Builtins
  <2>2. bundle[BuiltinSeq[todo]] \in Releases
    BY <2>1, LedgerAssumption DEF LedgerTypeOK
  <2> QED BY <1>4, <2>1, <2>2, InstallStageType DEF BootInstalls, Packages, Origins
<1>5. CASE BootDone
  BY <1>5 DEF BootDone, LedgerTypeOK, diskVars
<1>6. CASE Quit
  BY <1>6 DEF Quit, LedgerTypeOK, diskVars
<1>7. CASE Crash
  BY <1>7, SlotFacts DEF Crash, LedgerTypeOK, diskVars
<1> QED BY <1>1, <1>2, <1>3, <1>4, <1>5, <1>6, <1>7 DEF Lifecycle

-----------------------------------------------------------------------------
(* The base invariant: types, ids and phases                               *)

BaseInv == LedgerTypeOK /\ FreshIds /\ Phases

\* How an install begins, with the abbreviations of InstallStage resolved.
LEMMA StageBegins ==
  ASSUME LedgerTypeOK, FreshIds, NEW p, NEW r, NEW o, NEW prot, InstallStage(p, r, o, prot)
  PROVE  \E i \in Insts :
           /\ i < nextInst' /\ nextInst <= nextInst'
           /\ IF OfPackage(p) = {} THEN i = nextInst /\ i \notin DOMAIN ledger
              ELSE i = Lowest(OfPackage(p)) /\ i \in DOMAIN ledger /\ ledger[i].pkg = p
           /\ dirs' = dirs \cup {<<i, r>>}
           /\ op' = [kind |-> "install", inst |-> i, rel |-> r,
                     entry |-> {NewEntry(p, r, o, prot)}, files |-> {}]
<1> DEFINE i == IF OfPackage(p) = {} THEN nextInst ELSE Lowest(OfPackage(p))
<1>1. /\ i \in Insts
      /\ dirs' = dirs \cup {<<i, r>>}
      /\ op' = [Idle EXCEPT !.kind = "install", !.inst = i, !.rel = r,
                            !.entry = {NewEntry(p, r, o, prot)}]
      /\ nextInst' = IF OfPackage(p) = {} THEN nextInst + 1 ELSE nextInst
  BY DEF InstallStage
<1>2. nextInst \in Int
  BY LedgerAssumption DEF LedgerTypeOK
<1>3. CASE OfPackage(p) = {}
  <2>1. i = nextInst /\ i \notin DOMAIN ledger
    BY <1>2, <1>3 DEF FreshIds, LedgerTypeOK
  <2>2. i < nextInst' /\ nextInst <= nextInst'
    BY <1>1, <1>2, <1>3
  <2> HIDE DEF i
  <2> QED BY <1>1, <1>3, <2>1, <2>2 DEF Idle
<1>4. CASE OfPackage(p) # {}
  <2>1. i \in OfPackage(p)
    BY <1>4, OfPackageType, LowestMember DEF LedgerTypeOK
  <2>2. i \in DOMAIN ledger /\ ledger[i].pkg = p /\ i < nextInst
    BY <2>1 DEF OfPackage, FreshIds
  <2>3. i = Lowest(OfPackage(p)) /\ i < nextInst' /\ nextInst <= nextInst'
    BY <1>1, <1>2, <1>4, <2>2
  <2> HIDE DEF i
  <2> QED BY <1>1, <1>4, <2>2, <2>3 DEF Idle
<1> QED BY <1>3, <1>4

\* Which entry a registration of a development directory writes.
LEMMA DevBegins ==
  ASSUME LedgerTypeOK, FreshIds, NEW d \in DevDirs, NEW p \in DevPackages, RegisterDevDir(d, p)
  PROVE  \E i \in Insts :
           /\ i < nextInst' /\ nextInst <= nextInst'
           /\ \/ i \in DOMAIN ledger /\ ledger[i].origin = "Dev"
              \/ i \notin DOMAIN ledger
           /\ ledger' = Put(i, DevEntry(d, p))
           /\ op' \in {[Idle EXCEPT !.kind = "devold", !.inst = i],
                       [Idle EXCEPT !.kind = "devnew", !.inst = i]}
<1> DEFINE known == DevMatches(d, p) # {}
           i == IF known THEN Lowest(DevMatches(d, p)) ELSE nextInst
<1>1. /\ i \in Insts
      /\ ledger' = Put(i, DevEntry(d, p))
      /\ op' = [Idle EXCEPT !.kind = IF known THEN "devold" ELSE "devnew", !.inst = i]
      /\ nextInst' = IF known THEN nextInst ELSE nextInst + 1
  BY DEF RegisterDevDir
<1>2. nextInst \in Int
  BY LedgerAssumption DEF LedgerTypeOK
<1>3. CASE DevMatches(d, p) = {}
  <2>1. i = nextInst /\ i \notin DOMAIN ledger
    BY <1>2, <1>3 DEF FreshIds, LedgerTypeOK
  <2>2. i < nextInst' /\ nextInst <= nextInst'
    BY <1>1, <1>2, <1>3
  <2> HIDE DEF i
  <2> QED BY <1>1, <1>3, <2>1, <2>2
<1>4. CASE DevMatches(d, p) # {}
  <2>1. i \in DevMatches(d, p)
    BY <1>4, LowestMember DEF LedgerTypeOK, DevMatches
  <2>2. i \in DOMAIN ledger /\ ledger[i].origin = "Dev" /\ i < nextInst
    BY <2>1 DEF DevMatches, FreshIds
  <2>3. i < nextInst' /\ nextInst <= nextInst'
    BY <1>1, <1>2, <1>4, <2>2
  <2> HIDE DEF i
  <2> QED BY <1>1, <1>4, <2>2, <2>3
<1> QED BY <1>3, <1>4

\* It is nothing, or the deletion of the release of that slot.
LEMMA PurgeAfterOp ==
  ASSUME NEW i, NEW s
  PROVE  \/ PurgeAfter(i, s) = Idle
         \/ PurgeAfter(i, s) = [kind |-> "purge", inst |-> i, rel |-> s.rel,
                                entry |-> {}, files |-> {}]
BY DEF PurgeAfter, Idle

\* A step that works on an id already given out keeps the ids fresh.
LEMMA FreshStep ==
  ASSUME LedgerTypeOK, FreshIds, NEW i \in Insts, i < nextInst', nextInst <= nextInst',
         nextInst' \in Int,
         DOMAIN ledger' \subseteq DOMAIN ledger \cup {i},
         op'.kind # "idle" => op'.inst \in {i, op.inst} /\ (op'.inst = op.inst => op.kind # "idle" \/ op.inst = i)
  PROVE  FreshIds'
<1>1. nextInst \in Int /\ DOMAIN ledger \subseteq Int /\ i \in Int
  BY LedgerAssumption DEF LedgerTypeOK, Insts
<1>2. \A j \in DOMAIN ledger' : j < nextInst'
  BY <1>1 DEF FreshIds
<1>3. op'.kind # "idle" => op'.inst \in Insts /\ op'.inst < nextInst'
  BY <1>1 DEF FreshIds, Insts
<1> QED BY <1>2, <1>3 DEF FreshIds

\* An empty data directory.
LEMMA BaseInit == LedgerInit => BaseInv
<1> SUFFICES ASSUME LedgerInit PROVE BaseInv
  OBVIOUS
<1>1. nextInst \in 1..(MaxInst + 1) /\ todo \in 1..(Len(BuiltinSeq) + 1)
  BY BuiltinCount, LedgerAssumption DEF LedgerInit
<1>2. LedgerTypeOK
  BY <1>1, SlotFacts DEF LedgerInit, LedgerTypeOK
<1> QED BY <1>2 DEF LedgerInit, BaseInv, FreshIds, Phases, Idle

\* Every step keeps the types: one lemma above for each group of actions.
LEMMA BaseType ==
  ASSUME BaseInv, LedgerNext
  PROVE  LedgerTypeOK'
<1>1. LockHolder => op.inst \in Insts /\ (app = "booting" => op.kind = "install")
  BY DEF BaseInv, FreshIds, Phases, LockHolder, InstallCommit, InstallAbort, Purge, UninstallAbort,
         UninstallCommit, UninstallEmpty, UninstallEmptyFails, DevLoads, DevFailsToLoad
<1>2. LockHolder => (app = "booting" => todo <= Len(BuiltinSeq))
  BY <1>1 DEF BaseInv, Phases
<1> QED
  BY <1>1, <1>2, CommandType, LockHolderType, LifecycleType DEF BaseInv, LedgerNext

\* Every step works on an id that has been given out, or gives one out.
LEMMA BaseFresh ==
  ASSUME BaseInv, LedgerNext
  PROVE  FreshIds'
<1> USE DEF BaseInv
<1>0. nextInst \in Int /\ nextInst' \in Int
  BY BaseType, LedgerAssumption DEF LedgerTypeOK
<1>1. ASSUME NEW p, NEW r, NEW o, NEW prot, InstallStage(p, r, o, prot)
      PROVE  FreshIds'
  <2>1. PICK i \in Insts : /\ i < nextInst' /\ nextInst <= nextInst'
                           /\ op'.inst = i
    BY <1>1, StageBegins
  <2> QED BY <1>0, <1>1, <2>1, FreshStep DEF InstallStage
<1>2. ASSUME NEW i \in DOMAIN ledger, NEW e, NEW s, ledger' = Put(i, e),
             op' = op \/ op' = PurgeAfter(i, s), nextInst' = nextInst
      PROVE  FreshIds'
  <2>1. i \in Insts /\ i < nextInst /\ DOMAIN ledger' = DOMAIN ledger \cup {i}
    BY <1>2 DEF LedgerTypeOK, FreshIds, Put
  <2>2. op'.kind # "idle" => op'.inst \in {i, op.inst} /\ (op'.inst = op.inst => op.kind # "idle" \/ op.inst = i)
    BY <1>2, PurgeAfterOp DEF Idle
  <2> QED BY <1>0, <1>2, <2>1, <2>2, FreshStep
<1>3. ASSUME DOMAIN ledger' \subseteq DOMAIN ledger, nextInst' = nextInst,
             op'.kind # "idle" => op.kind # "idle" /\ op'.inst = op.inst
      PROVE  FreshIds'
  BY <1>3 DEF FreshIds
<1>4. CASE InstallFromUrl
  BY <1>1, <1>4 DEF InstallFromUrl, Install
<1>5. CASE StatusCommand
  BY <1>2, <1>5 DEF StatusCommand, ActivatePending, MarkDependencyStatus
<1>6. CASE MainThreadCommand
  <2>1. ASSUME NEW p \in CatalogPackages, NEW r \in Releases, Install(p, r, "Local")
        PROVE  FreshIds'
    BY <1>1, <2>1 DEF Install
  <2>2. ASSUME NEW i \in Insts, DiscardPending(i) \/ Rollback(i)
        PROVE  FreshIds'
    BY <1>2, <2>2 DEF DiscardPending, Rollback
  <2>3. ASSUME NEW i \in Insts, UninstallMove(i)
        PROVE  FreshIds'
    <3>1. i \in DOMAIN ledger /\ op'.inst = i /\ ledger' = ledger /\ nextInst' = nextInst
      BY <2>3 DEF UninstallMove, Idle
    <3> QED BY <3>1 DEF FreshIds
  <2>4. ASSUME NEW d \in DevDirs, UnregisterDevDir(d)
        PROVE  FreshIds'
    BY <1>3, <2>4, DropType DEF UnregisterDevDir
  <2>5. ASSUME NEW d \in DevDirs, NEW p \in DevPackages, RegisterDevDir(d, p)
        PROVE  FreshIds'
    <3>1. PICK i \in Insts : /\ i < nextInst' /\ nextInst <= nextInst'
                             /\ ledger' = Put(i, DevEntry(d, p))
                             /\ op'.inst = i
      BY <2>5, DevBegins DEF Idle
    <3>2. DOMAIN ledger' \subseteq DOMAIN ledger \cup {i}
      BY <3>1 DEF Put
    <3> QED BY <1>0, <3>1, <3>2, FreshStep
  <2> QED BY <1>6, <2>1, <2>2, <2>3, <2>4, <2>5 DEF MainThreadCommand
<1>7. CASE LockHolder
  <2>1. CASE InstallCommit \/ UninstallEmptyFails
    <3>1. op.kind # "idle" /\ op' = Idle /\ nextInst' = nextInst
      BY <2>1 DEF InstallCommit, UninstallEmptyFails
    <3>2. PICK e \in op.entry : ledger' = ledger \/ ledger' = Put(op.inst, e)
      BY <2>1 DEF InstallCommit, UninstallEmptyFails
    <3>3. DOMAIN ledger' \subseteq DOMAIN ledger \cup {op.inst}
      BY <3>2 DEF Put
    <3> QED BY <3>1, <3>3 DEF FreshIds, Idle
  <2>2. CASE InstallAbort \/ Purge \/ UninstallAbort \/ UninstallEmpty \/ DevLoads
    BY <1>3, <2>2 DEF InstallAbort, Purge, UninstallAbort, UninstallEmpty, DevLoads, Idle
  <2>3. CASE UninstallCommit
    <3>1. op' = [op EXCEPT !.kind = "emptying"] /\ op.kind = "uninstall" /\ nextInst' = nextInst
      BY <2>3 DEF UninstallCommit
    <3>2. op'.inst = op.inst
      BY <3>1 DEF LedgerTypeOK, Op
    <3> QED BY <1>3, <2>3, <3>1, <3>2, DropType DEF UninstallCommit
  <2>4. CASE DevFailsToLoad
    BY <1>3, <2>4, DropType DEF DevFailsToLoad, Idle
  <2> QED BY <1>7, <2>1, <2>2, <2>3, <2>4 DEF LockHolder
<1>8. CASE Lifecycle
  <2>1. CASE BootInstalls
    BY <1>1, <2>1 DEF BootInstalls
  <2>2. CASE Boot \/ BootRefuses \/ BootSkips \/ BootDone \/ Quit \/ Crash
    BY <1>3, <2>2 DEF Boot, BootRefuses, BootSkips, BootDone, Quit, Crash, Idle
  <2> QED BY <1>8, <2>1, <2>2 DEF Lifecycle
<1> QED BY <1>4, <1>5, <1>6, <1>7, <1>8 DEF LedgerNext

\* No operation outlives the process, and setup only installs.
LEMMA BasePhases ==
  ASSUME BaseInv, LedgerNext
  PROVE  Phases'
<1> USE DEF BaseInv
<1>1. CASE InstallFromUrl \/ StatusCommand \/ MainThreadCommand
  <2>1. app = "running" /\ app' = app
    BY <1>1 DEF InstallFromUrl, StatusCommand, MainThreadCommand, Serving, bootVars, Install,
      ActivatePending, MarkDependencyStatus, DiscardPending, Rollback, UninstallMove,
      UnregisterDevDir, RegisterDevDir
  <2> QED BY <2>1 DEF Phases
<1>2. CASE LockHolder
  <2>1. CASE InstallCommit \/ InstallAbort \/ Purge \/ UninstallAbort \/ UninstallEmpty
              \/ UninstallEmptyFails \/ DevLoads \/ DevFailsToLoad
    <3>1. op' = Idle
      BY <2>1 DEF InstallCommit, InstallAbort, Purge, UninstallAbort, UninstallEmpty,
        UninstallEmptyFails, DevLoads, DevFailsToLoad
    <3> QED BY <3>1 DEF Phases, Idle
  <2>2. CASE UninstallCommit
    BY <2>2 DEF UninstallCommit, Phases, bootVars
  <2> QED BY <1>2, <2>1, <2>2 DEF LockHolder
<1>3. CASE Lifecycle
  <2>1. CASE BootInstalls
    <3>1. app' = "booting" /\ todo' <= Len(BuiltinSeq)
      BY <2>1 DEF BootInstalls, Booting, bootVars
    <3>2. InstallStage(BuiltinSeq[todo], bundle[BuiltinSeq[todo]], "Builtin", TRUE)
      BY <2>1 DEF BootInstalls
    <3>3. op'.kind = "install"
      BY <3>2 DEF InstallStage, Idle
    <3> QED BY <3>1, <3>3 DEF Phases
  <2>2. CASE Boot \/ BootSkips \/ Crash \/ Quit
    BY <2>2 DEF Boot, BootSkips, Booting, Crash, Quit, Phases, Idle
  <2>3. CASE BootRefuses \/ BootDone
    BY <2>3 DEF BootRefuses, BootDone, Phases
  <2> QED BY <1>3, <2>1, <2>2, <2>3 DEF Lifecycle
<1> QED BY <1>1, <1>2, <1>3 DEF LedgerNext

\* The ledger, the disk and the operation in progress stay well-typed.
THEOREM TypeCorrect == LedgerSpec => []LedgerTypeOK
<1>1. LedgerInit => BaseInv
  BY BaseInit
<1>2. BaseInv /\ [LedgerNext]_ledgerVars => BaseInv'
  <2>1. ASSUME BaseInv, UNCHANGED ledgerVars PROVE BaseInv'
    BY <2>1 DEF BaseInv, LedgerTypeOK, FreshIds, Phases, ledgerVars
  <2> QED BY <2>1, BaseType, BaseFresh, BasePhases DEF BaseInv
<1>3. BaseInv => LedgerTypeOK
  BY DEF BaseInv
<1> QED BY <1>1, <1>2, <1>3, PTL DEF LedgerSpec

-----------------------------------------------------------------------------
(* The inductive invariant                                                 *)

\* What is proved of the next state in the lemmas below, beside BaseInv.
Rest ==
  /\ InstallHolds /\ PurgeHolds /\ UninstallHolds
  /\ ReferencedReleasesOnDisk /\ SlotsDistinct /\ OneInstallationPerPackage

\* The operation changes neither the ledger nor what protects it.
LEMMA IdleAgain ==
  ASSUME op'.kind = "idle"
  PROVE  InstallHolds' /\ PurgeHolds' /\ UninstallHolds'
BY DEF InstallHolds, PurgeHolds, UninstallHolds

\* Directories are only added, and the ledger is as before.
LEMMA DirsGrow ==
  ASSUME Rest, dirs \subseteq dirs', ledger' = ledger, damaged \subseteq damaged'
  PROVE  ReferencedReleasesOnDisk' /\ SlotsDistinct' /\ OneInstallationPerPackage'
BY DEF Rest, ReferencedReleasesOnDisk, SlotsDistinct, OneInstallationPerPackage

\* One directory that no sound entry refers to is deleted.
LEMMA DirDeleted ==
  ASSUME Rest, NEW i, NEW r, dirs \ {<<i, r>>} \subseteq dirs',
         i \in DOMAIN ledger \ damaged => r \notin Refs(ledger[i]),
         ledger' = ledger, damaged' = damaged
  PROVE  ReferencedReleasesOnDisk' /\ SlotsDistinct' /\ OneInstallationPerPackage'
BY DEF Rest, ReferencedReleasesOnDisk, SlotsDistinct, OneInstallationPerPackage

\* A well-typed entry replaces or joins the others.
LEMMA EntryStored ==
  ASSUME LedgerTypeOK, Rest, NEW i \in Insts, NEW e \in Entry, ledger' = Put(i, e),
         dirs \subseteq dirs', damaged \ {i} \subseteq damaged',
         i \notin damaged' =>
           /\ DistinctSlots(e)
           /\ \A r \in Refs(e) \cap Releases : <<i, r>> \in dirs',
         e.origin # "Dev" =>
           \A j \in DOMAIN ledger :
             j # i /\ ledger[j].pkg = e.pkg => ledger[j].origin = "Dev"
  PROVE  ReferencedReleasesOnDisk' /\ SlotsDistinct' /\ OneInstallationPerPackage'
<1>1. /\ DOMAIN ledger' = DOMAIN ledger \cup {i}
      /\ ledger'[i] = e
      /\ \A j \in DOMAIN ledger : j # i => ledger'[j] = ledger[j]
  BY PutType
<1>2. ReferencedReleasesOnDisk'
  BY <1>1 DEF Rest, ReferencedReleasesOnDisk
<1>3. SlotsDistinct'
  BY <1>1 DEF Rest, SlotsDistinct
<1>4. OneInstallationPerPackage'
  BY <1>1 DEF Rest, OneInstallationPerPackage
<1> QED BY <1>2, <1>3, <1>4

\* Entries are removed, and nothing else.
LEMMA EntriesDropped ==
  ASSUME LedgerTypeOK, Rest, NEW S, ledger' = Drop(S), dirs' = dirs, damaged' = damaged
  PROVE  ReferencedReleasesOnDisk' /\ SlotsDistinct' /\ OneInstallationPerPackage'
<1>1. DOMAIN ledger' \subseteq DOMAIN ledger /\ \A j \in DOMAIN ledger' : ledger'[j] = ledger[j]
  BY DropType
<1> QED BY <1>1 DEF Rest, ReferencedReleasesOnDisk, SlotsDistinct, OneInstallationPerPackage

\* The ledger write of an install: what its first step checked still holds.
LEMMA CommitKeeps ==
  ASSUME BaseInv, Rest, InstallCommit
  PROVE  Rest'
<1>1. op.inst \in Insts /\ <<op.inst, op.rel>> \in dirs /\ op.rel \in Releases /\ op.rel # None
  BY LedgerAssumption DEF BaseInv, FreshIds, InstallCommit, Rest, InstallHolds, Rels
<1>2. PICK e \in op.entry : op.entry = {e} /\ (FirstEntry(e) \/ UpdatedEntry(e))
  BY DEF InstallCommit, Rest, InstallHolds
<1>3. e \in Entry /\ ledger' = Put(op.inst, e) /\ dirs' = dirs /\ damaged' = damaged /\ op' = Idle
  BY <1>2 DEF InstallCommit, BaseInv, LedgerTypeOK, Op
<1>4. CASE FirstEntry(e)
  <2>1. /\ DistinctSlots(e)
        /\ \A r \in Refs(e) \cap Releases : <<op.inst, r>> \in dirs'
    BY <1>1, <1>3, <1>4 DEF FirstEntry, DistinctSlots, Refs, NoSlot
  <2>2. \A j \in DOMAIN ledger : ledger[j].pkg # e.pkg
    BY <1>4 DEF FirstEntry, OfPackage
  <2>3. ReferencedReleasesOnDisk' /\ SlotsDistinct' /\ OneInstallationPerPackage'
    BY <1>1, <1>3, <2>1, <2>2, EntryStored DEF BaseInv
  <2> QED BY <1>3, <2>3, IdleAgain DEF Rest, Idle
<1>5. CASE UpdatedEntry(e)
  <2> DEFINE old == ledger[op.inst]
  <2>1. op.inst \in DOMAIN ledger /\ old \in Entry
    BY <1>5 DEF UpdatedEntry, BaseInv, LedgerTypeOK
  <2>2. op.inst \notin damaged =>
          /\ DistinctSlots(old)
          /\ \A r \in Refs(old) \cap Releases : <<op.inst, r>> \in dirs
    BY <2>1 DEF Rest, ReferencedReleasesOnDisk, SlotsDistinct
  <2>3. op.inst \notin damaged => DistinctSlots(e)
    BY <1>1, <1>5, <2>2 DEF UpdatedEntry, DistinctSlots
  <2>4. op.inst \notin damaged => \A r \in Refs(e) \cap Releases : <<op.inst, r>> \in dirs
    BY <1>1, <1>5, <2>2 DEF UpdatedEntry, Refs
  <2>5. e.origin # "Dev" => \A j \in DOMAIN ledger :
          j # op.inst /\ ledger[j].pkg = e.pkg => ledger[j].origin = "Dev"
    BY <1>5, <2>1 DEF UpdatedEntry, Rest, OneInstallationPerPackage
  <2>6. ReferencedReleasesOnDisk' /\ SlotsDistinct' /\ OneInstallationPerPackage'
    BY <1>1, <1>3, <2>3, <2>4, <2>5, EntryStored DEF BaseInv
  <2> QED BY <1>3, <2>6, IdleAgain DEF Rest, Idle
<1> QED BY <1>2, <1>4, <1>5

\* The first step of an install adds a directory that no entry refers to.
LEMMA StageKeeps ==
  ASSUME BaseInv, Rest, NEW p \in Packages, NEW r \in Releases, NEW o \in Origins,
         NEW prot \in BOOLEAN, InstallStage(p, r, o, prot)
  PROVE  Rest'
<1>1. PICK i \in Insts :
        /\ IF OfPackage(p) = {} THEN i = nextInst /\ i \notin DOMAIN ledger
           ELSE i = Lowest(OfPackage(p)) /\ i \in DOMAIN ledger /\ ledger[i].pkg = p
        /\ dirs' = dirs \cup {<<i, r>>}
        /\ op' = [kind |-> "install", inst |-> i, rel |-> r,
                  entry |-> {NewEntry(p, r, o, prot)}, files |-> {}]
  BY StageBegins DEF BaseInv
<1>2. UNCHANGED <<ledger, damaged>> /\ Installable(p, r, o)
  BY DEF InstallStage
<1>3. ReferencedReleasesOnDisk' /\ SlotsDistinct' /\ OneInstallationPerPackage'
  BY <1>1, <1>2, DirsGrow
<1>4. PurgeHolds' /\ UninstallHolds'
  BY <1>1 DEF PurgeHolds, UninstallHolds
<1>5. PICK e \in Entry : e = NewEntry(p, r, o, prot)
  BY NewEntryType DEF BaseInv
<1>6. (FirstEntry(e) \/ UpdatedEntry(e))'
  <2>1. CASE OfPackage(p) = {}
    <3>1. e.pkg = p /\ e.active.rel = r /\ e.pending = NoSlot /\ e.previous = NoSlot
      BY <1>5, <2>1 DEF NewEntry
    <3>2. OfPackage(p)' = {}
      BY <1>2, <2>1 DEF OfPackage
    <3> QED BY <1>1, <1>2, <2>1, <3>1, <3>2 DEF FirstEntry
  <2>2. CASE OfPackage(p) # {}
    <3>0. PICK old \in Entry : old = ledger[i]
      BY <1>1, <2>2 DEF BaseInv, LedgerTypeOK
    <3> DEFINE s == [rel |-> r, st |-> IF o = "Builtin" THEN "Ready" ELSE "Pending"]
    <3>1. i = Lowest(OfPackage(p)) /\ i \in DOMAIN ledger
      BY <1>1, <2>2
    <3>2. e = IF o = "Builtin" THEN [old EXCEPT !.active = s, !.previous = old.active]
                               ELSE [old EXCEPT !.pending = s]
      BY <1>5, <2>2, <3>0, <3>1 DEF NewEntry
    <3>3. /\ r \notin {old.active.rel, old.pending.rel} /\ <<i, r>> \notin dirs
          /\ o # "Builtin" => old.pending.rel = None
      BY <1>2, <2>2, <3>0, <3>1 DEF Installable
    <3>4. i \notin damaged => r # old.previous.rel
      BY <3>0, <3>1, <3>3, LedgerAssumption DEF Rest, ReferencedReleasesOnDisk, Refs, Rels
    <3>5. /\ e.pkg = old.pkg /\ e.origin = old.origin /\ e.prot = old.prot
          /\ \/ e.active.rel = r /\ e.pending = old.pending /\ e.previous = old.active
             \/ /\ old.pending.rel = None
                /\ e.active = old.active /\ e.pending.rel = r /\ e.previous = old.previous
      BY <3>1, <3>2, <3>3 DEF Entry
    <3> QED BY <1>1, <1>2, <3>0, <3>1, <3>3, <3>4, <3>5 DEF UpdatedEntry
  <2> QED BY <2>1, <2>2
<1>7. InstallHolds'
  <2>1. op'.kind = "install" /\ op'.rel = r /\ op'.inst = i /\ op'.entry = {e}
    BY <1>1, <1>5
  <2> QED BY <1>1, <1>6, <2>1 DEF InstallHolds
<1> QED BY <1>3, <1>4, <1>7 DEF Rest

\* Activation, discard, rollback and the dependency status: the entry keeps
\* its package, refers to no new release, and what it no longer refers to is
\* all that is going to be deleted.
LEMMA SlotWriteKeeps ==
  ASSUME BaseInv, Rest, NEW i \in DOMAIN ledger, NEW e \in Entry, NEW s \in Slot,
         ledger' = Put(i, e), dirs' = dirs, damaged' = damaged,
         op = Idle, op' = op \/ op' = PurgeAfter(i, s),
         e.pkg = ledger[i].pkg, e.origin = ledger[i].origin,
         Refs(e) \subseteq Refs(ledger[i]),
         i \notin damaged => DistinctSlots(e) /\ (op' = op \/ s.rel \notin Refs(e))
  PROVE  Rest'
<1>0. i \in Insts /\ ledger[i] \in Entry
  BY DEF BaseInv, LedgerTypeOK
<1>1. i \notin damaged => \A r \in Refs(e) \cap Releases : <<i, r>> \in dirs
  BY DEF Rest, ReferencedReleasesOnDisk
<1>2. e.origin # "Dev" => \A j \in DOMAIN ledger :
        j # i /\ ledger[j].pkg = e.pkg => ledger[j].origin = "Dev"
  BY DEF Rest, OneInstallationPerPackage
<1>3. ReferencedReleasesOnDisk' /\ SlotsDistinct' /\ OneInstallationPerPackage'
  BY <1>0, <1>1, <1>2, EntryStored DEF BaseInv
<1>4. ledger'[i] = e
  BY <1>0, PutType DEF BaseInv
<1>5. InstallHolds' /\ PurgeHolds' /\ UninstallHolds'
  <2>1. CASE op' = Idle
    BY <2>1, IdleAgain DEF Idle
  <2>2. CASE op' = [kind |-> "purge", inst |-> i, rel |-> s.rel, entry |-> {}, files |-> {}]
    <3>1. op' # op
      BY <2>2 DEF Idle
    <3> QED BY <1>4, <2>2, <3>1 DEF InstallHolds, PurgeHolds, UninstallHolds
  <2> QED BY <2>1, <2>2, PurgeAfterOp
<1> QED BY <1>3, <1>5 DEF Rest

\* Activation, discard, rollback and the statuses, each with its slot write.
LEMMA SlotCommandKeeps ==
  ASSUME BaseInv, Rest, NEW i \in Insts,
         \/ ActivatePending(i) \/ DiscardPending(i) \/ Rollback(i)
         \/ \E r \in Rels, st \in MarkStatuses : MarkDependencyStatus(i, r, st)
  PROVE  Rest'
<1>0. i \in DOMAIN ledger /\ op = Idle
  BY DEF ActivatePending, DiscardPending, Rollback, MarkDependencyStatus, Serving
<1> DEFINE old == ledger[i]
<1>1. /\ old \in Entry
      /\ old.active \in Filled /\ old.active \in Slot
      /\ old.pending \in Slot /\ old.previous \in Slot
      /\ old.active.rel # None
      /\ NoSlot \in Slot /\ NoSlot.rel = None
  BY <1>0, SlotFacts, LedgerAssumption DEF BaseInv, LedgerTypeOK, Entry, Filled, NoSlot
<1>2. i \notin damaged => DistinctSlots(old)
  BY <1>0 DEF Rest, SlotsDistinct
<1>3. CASE ActivatePending(i)
  <2> DEFINE e == [old EXCEPT !.active = [rel |-> old.pending.rel, st |-> "Ready"],
                              !.pending = NoSlot, !.previous = old.active]
  <2>0. old.pending.rel # None
    BY <1>3 DEF ActivatePending
  <2>1. [rel |-> old.pending.rel, st |-> "Ready"] \in Filled
    BY <1>1, <2>0 DEF Filled, Slot, Statuses
  <2>2. /\ e \in Entry /\ e.pkg = old.pkg /\ e.origin = old.origin
        /\ e.active.rel = old.pending.rel /\ e.pending = NoSlot /\ e.previous = old.active
    BY <1>1, <2>1 DEF Entry
  <2>3. ledger' = Put(i, e) /\ op' = PurgeAfter(i, old.previous) /\ dirs' = dirs /\ damaged' = damaged
    BY <1>3 DEF ActivatePending, diskVars
  <2> HIDE DEF e
  <2>4. Refs(e) \subseteq Refs(old)
    BY <1>1, <2>2 DEF Refs
  <2>5. i \notin damaged => DistinctSlots(e)
    BY <1>1, <1>2, <2>0, <2>2 DEF DistinctSlots
  <2>6. i \notin damaged => op' = op \/ old.previous.rel \notin Refs(e)
    BY <1>0, <1>1, <1>2, <2>2, <2>3 DEF DistinctSlots, Refs, PurgeAfter
  <2> QED BY <1>0, <1>1, <2>2, <2>3, <2>4, <2>5, <2>6, SlotWriteKeeps
<1>4. CASE DiscardPending(i)
  <2> DEFINE e == [old EXCEPT !.pending = NoSlot]
  <2>2. /\ e \in Entry /\ e.pkg = old.pkg /\ e.origin = old.origin
        /\ e.active = old.active /\ e.pending = NoSlot /\ e.previous = old.previous
    BY <1>1 DEF Entry
  <2>3. ledger' = Put(i, e) /\ op' = PurgeAfter(i, old.pending) /\ dirs' = dirs /\ damaged' = damaged
    BY <1>4 DEF DiscardPending, diskVars
  <2> HIDE DEF e
  <2>4. Refs(e) \subseteq Refs(old)
    BY <1>1, <2>2 DEF Refs
  <2>5. i \notin damaged => DistinctSlots(e)
    BY <1>1, <1>2, <2>2 DEF DistinctSlots
  <2>6. i \notin damaged => op' = op \/ old.pending.rel \notin Refs(e)
    BY <1>0, <1>1, <1>2, <2>2, <2>3 DEF DistinctSlots, Refs, PurgeAfter
  <2> QED BY <1>0, <1>1, <2>2, <2>3, <2>4, <2>5, <2>6, SlotWriteKeeps
<1>5. CASE Rollback(i)
  <2> DEFINE e == [old EXCEPT !.active = old.previous, !.pending = NoSlot,
                              !.previous = old.active]
  <2>0. old.previous \in Filled
    BY <1>1, <1>5, SlotFacts DEF Rollback
  <2>2. /\ e \in Entry /\ e.pkg = old.pkg /\ e.origin = old.origin
        /\ e.active = old.previous /\ e.pending = NoSlot /\ e.previous = old.active
    BY <1>1, <2>0 DEF Entry
  <2>3. ledger' = Put(i, e) /\ op' = PurgeAfter(i, old.pending) /\ dirs' = dirs /\ damaged' = damaged
    BY <1>5 DEF Rollback, diskVars
  <2>7. old.previous.rel # None
    BY <1>5 DEF Rollback
  <2> HIDE DEF e
  <2>4. Refs(e) \subseteq Refs(old)
    BY <1>1, <2>2 DEF Refs
  <2>5. i \notin damaged => DistinctSlots(e)
    BY <1>1, <1>2, <2>2, <2>7 DEF DistinctSlots
  <2>6. i \notin damaged => op' = op \/ old.pending.rel \notin Refs(e)
    BY <1>0, <1>1, <1>2, <2>2, <2>3 DEF DistinctSlots, Refs, PurgeAfter
  <2> QED BY <1>0, <1>1, <2>2, <2>3, <2>4, <2>5, <2>6, SlotWriteKeeps
<1>6. ASSUME NEW r \in Rels, NEW st \in MarkStatuses, MarkDependencyStatus(i, r, st)
      PROVE  Rest'
  <2>1. st \in Statuses
    BY LedgerAssumption DEF Statuses
  <2>2. PICK e \in {[old EXCEPT !.active.st = st], [old EXCEPT !.pending.st = st],
                    [old EXCEPT !.previous.st = st]} : ledger' = Put(i, e)
    BY <1>6 DEF MarkDependencyStatus
  <2>3. /\ e \in Entry /\ e.pkg = old.pkg /\ e.origin = old.origin
        /\ e.active.rel = old.active.rel /\ e.pending.rel = old.pending.rel
        /\ e.previous.rel = old.previous.rel
    BY <1>1, <2>1, <2>2 DEF Entry, Filled, Slot
  <2>4. dirs' = dirs /\ damaged' = damaged /\ op' = op
    BY <1>6 DEF MarkDependencyStatus, diskVars
  <2>5. Refs(e) = Refs(old) /\ (DistinctSlots(e) <=> DistinctSlots(old))
    BY <2>3 DEF Refs, DistinctSlots
  <2> QED BY <1>0, <1>1, <1>2, <2>2, <2>3, <2>4, <2>5, SlotWriteKeeps
<1> QED BY <1>3, <1>4, <1>5, <1>6

\* Uninstall, from the move to the trash to the end.
LEMMA UninstallKeeps ==
  ASSUME BaseInv, Rest,
         \/ \E i \in Insts : UninstallMove(i)
         \/ UninstallAbort \/ UninstallCommit \/ UninstallEmpty \/ UninstallEmptyFails
  PROVE  Rest'
<1>1. ASSUME NEW i \in Insts, UninstallMove(i)
      PROVE  Rest'
  <2>1. i \in DOMAIN ledger /\ ledger' = ledger /\ dirs' = {d \in dirs : d[1] # i}
        /\ damaged' = damaged \cup {i}
    BY <1>1 DEF UninstallMove
  <2>2. op'.kind = "uninstall" /\ op'.inst = i /\ op'.entry = {ledger[i]}
    BY <1>1 DEF UninstallMove, Idle
  <2>3. ReferencedReleasesOnDisk' /\ SlotsDistinct' /\ OneInstallationPerPackage'
    BY <2>1 DEF Rest, ReferencedReleasesOnDisk, SlotsDistinct, OneInstallationPerPackage
  <2>4. InstallHolds' /\ PurgeHolds' /\ UninstallHolds'
    BY <2>1, <2>2 DEF InstallHolds, PurgeHolds, UninstallHolds
  <2> QED BY <2>3, <2>4 DEF Rest
<1>2. CASE UninstallAbort
  <2>1. PICK kept \in SUBSET op.files :
          /\ dirs' = dirs \cup ({op.inst} \X kept)
          /\ damaged' = PutBack(op.inst, ledger[op.inst], kept)
    BY <1>2 DEF UninstallAbort, Rest, UninstallHolds
  <2>2. op.inst \in DOMAIN ledger /\ ledger' = ledger /\ op' = Idle
    BY <1>2 DEF UninstallAbort, Rest, UninstallHolds
  <2>3. \A j \in DOMAIN ledger \ damaged' : j \in DOMAIN ledger \ damaged
                                           \/ (j = op.inst /\ Intact(ledger[j], kept))
    BY <2>1 DEF PutBack
  <2>4. ReferencedReleasesOnDisk' /\ SlotsDistinct' /\ OneInstallationPerPackage'
    BY <2>1, <2>2, <2>3
    DEF Rest, ReferencedReleasesOnDisk, SlotsDistinct, OneInstallationPerPackage, Intact
  <2> QED BY <2>2, <2>4, IdleAgain DEF Rest, Idle
<1>3. CASE UninstallCommit
  <2>1. /\ op.inst \in DOMAIN ledger \cap damaged /\ op.entry = {ledger[op.inst]}
        /\ op.kind = "uninstall"
        /\ ledger' = Drop({op.inst}) /\ dirs' = dirs /\ damaged' = damaged
        /\ op' = [op EXCEPT !.kind = "emptying"]
    BY <1>3 DEF UninstallCommit, Rest, UninstallHolds, diskVars
  <2>2. op'.kind = "emptying" /\ op'.inst = op.inst /\ op'.entry = op.entry
    BY <2>1 DEF BaseInv, LedgerTypeOK, Op
  <2>3. \A j \in DOMAIN ledger' : /\ j \in DOMAIN ledger /\ j # op.inst
                                 /\ ledger'[j] = ledger[j]
    BY <2>1 DEF Drop
  <2>4. op.inst \notin DOMAIN ledger'
    BY <2>3
  <2>5. \A j \in DOMAIN ledger' : ledger'[j].pkg = ledger[op.inst].pkg =>
            ledger'[j].origin = "Dev" \/ ledger[op.inst].origin = "Dev"
    BY <2>1, <2>3, ZenonT(60) DEF Rest, OneInstallationPerPackage
  <2>6. InstallHolds' /\ PurgeHolds'
    BY <2>2 DEF InstallHolds, PurgeHolds
  <2>7. UninstallHolds'
    <3>1. op.inst \in damaged' \ DOMAIN ledger'
      BY <2>1, <2>4
    <3> QED BY <2>1, <2>2, <2>5, <3>1 DEF UninstallHolds
  <2> QED BY <2>1, <2>6, <2>7, EntriesDropped DEF Rest, BaseInv
<1>4. CASE UninstallEmpty
  BY <1>4, DirsGrow, IdleAgain DEF UninstallEmpty, Rest, Idle, diskVars
<1>5. CASE UninstallEmptyFails
  <2>1. PICK e \in op.entry, kept \in SUBSET op.files :
          /\ dirs' = dirs \cup ({op.inst} \X kept)
          /\ ledger' \in {ledger, Put(op.inst, e)}
          /\ damaged' = PutBack(op.inst, e, kept)
    BY <1>5 DEF UninstallEmptyFails
  <2>2. /\ op.kind = "emptying" /\ op' = Idle /\ op.inst \in Insts /\ op.inst \in damaged
        /\ op.inst \notin DOMAIN ledger
        /\ e \in Entry
        /\ \A j \in DOMAIN ledger : ledger[j].pkg = e.pkg => ledger[j].origin = "Dev" \/ e.origin = "Dev"
    BY <1>5, <2>1 DEF UninstallEmptyFails, Rest, UninstallHolds, BaseInv, FreshIds, LedgerTypeOK, Op
  <2>3. CASE ledger' = ledger
    <3>1. \A j \in DOMAIN ledger : j \in damaged => j \in damaged'
      BY <2>1, <2>2 DEF PutBack
    <3>2. ReferencedReleasesOnDisk' /\ SlotsDistinct' /\ OneInstallationPerPackage'
      BY <2>1, <2>3, <3>1 DEF Rest, ReferencedReleasesOnDisk, SlotsDistinct, OneInstallationPerPackage
    <3> QED BY <2>2, <3>2, IdleAgain DEF Rest, Idle
  <2>4. CASE ledger' = Put(op.inst, e)
    <3>1. damaged \ {op.inst} \subseteq damaged' /\ dirs \subseteq dirs'
      BY <2>1 DEF PutBack
    <3>2. CASE Intact(e, kept)
      <4>1. DistinctSlots(e) /\ \A r \in Refs(e) \cap Releases : <<op.inst, r>> \in dirs'
        BY <2>1, <3>2 DEF Intact
      <4> QED BY <2>2, <2>4, <3>1, <4>1, EntryStored, IdleAgain DEF BaseInv, Rest, Idle
    <3>3. CASE ~Intact(e, kept)
      <4>1. op.inst \in damaged'
        BY <2>1, <2>2, <3>3 DEF PutBack
      <4> QED BY <2>2, <2>4, <3>1, <4>1, EntryStored, IdleAgain DEF BaseInv, Rest, Idle
    <3> QED BY <3>2, <3>3
  <2> QED BY <2>1, <2>3, <2>4
<1> QED BY <1>1, <1>2, <1>3, <1>4, <1>5

\* Development directories.
LEMMA DevKeeps ==
  ASSUME BaseInv, Rest,
         \/ \E d \in DevDirs : UnregisterDevDir(d) \/ \E p \in DevPackages : RegisterDevDir(d, p)
         \/ DevLoads \/ DevFailsToLoad
  PROVE  Rest'
<1>1. ASSUME NEW d \in DevDirs, NEW p \in DevPackages, RegisterDevDir(d, p)
      PROVE  Rest'
  <2>1. PICK i \in Insts : /\ ledger' = Put(i, DevEntry(d, p))
                           /\ op' \in {[Idle EXCEPT !.kind = "devold", !.inst = i],
                                       [Idle EXCEPT !.kind = "devnew", !.inst = i]}
    BY <1>1, DevBegins DEF BaseInv
  <2>2. dirs' = dirs /\ damaged' = damaged
    BY <1>1 DEF RegisterDevDir, diskVars
  <2>3. /\ DevEntry(d, p) \in Entry /\ DevEntry(d, p).origin = "Dev"
        /\ DistinctSlots(DevEntry(d, p))
        /\ Refs(DevEntry(d, p)) \cap Releases = {}
    BY LedgerAssumption DEF DevEntry, Entry, Packages, Origins, Filled, Rels, Statuses, Slot,
         NoSlot, DistinctSlots, Refs
  <2>4. ReferencedReleasesOnDisk' /\ SlotsDistinct' /\ OneInstallationPerPackage'
    BY <2>1, <2>2, <2>3, EntryStored DEF BaseInv
  <2>5. InstallHolds' /\ PurgeHolds' /\ UninstallHolds'
    BY <2>1 DEF InstallHolds, PurgeHolds, UninstallHolds, Idle
  <2> QED BY <2>4, <2>5 DEF Rest
<1>2. ASSUME NEW d \in DevDirs, UnregisterDevDir(d)
      PROVE  Rest'
  BY <1>2, EntriesDropped, IdleAgain DEF UnregisterDevDir, Serving, diskVars, Rest, BaseInv, Idle
<1>3. CASE DevLoads
  BY <1>3, DirsGrow, IdleAgain DEF DevLoads, diskVars, Rest, Idle
<1>4. CASE DevFailsToLoad
  <2>1. op' = Idle /\ dirs' = dirs /\ damaged' = damaged
        /\ (ledger' = ledger \/ ledger' = Drop({op.inst}))
    BY <1>4 DEF DevFailsToLoad, diskVars
  <2>2. ReferencedReleasesOnDisk' /\ SlotsDistinct' /\ OneInstallationPerPackage'
    BY <2>1, DirsGrow, EntriesDropped DEF BaseInv
  <2> QED BY <2>1, <2>2, IdleAgain DEF Rest, Idle
<1> QED BY <1>1, <1>2, <1>3, <1>4

\* Deletions: a release directory that no slot needs.
LEMMA DeletionKeeps ==
  ASSUME BaseInv, Rest, InstallAbort \/ Purge
  PROVE  Rest'
<1>1. /\ op' = Idle /\ ledger' = ledger /\ damaged' = damaged
      /\ dirs \ {<<op.inst, op.rel>>} \subseteq dirs'
  BY DEF InstallAbort, Purge
<1>2. CASE InstallAbort
  <2>1. op.rel \in Releases /\ op.rel # None
    BY <1>2, LedgerAssumption DEF InstallAbort, Rest, InstallHolds, Rels
  <2>2. PICK e \in op.entry : FirstEntry(e) \/ UpdatedEntry(e)
    BY <1>2 DEF InstallAbort, Rest, InstallHolds
  <2>3. op.inst \in DOMAIN ledger \ damaged => op.rel \notin Refs(ledger[op.inst])
    BY <2>2 DEF FirstEntry, UpdatedEntry, Refs
  <2> QED BY <1>1, <2>3, DirDeleted, IdleAgain DEF Rest, Idle
<1>3. CASE Purge
  <2>1. op.inst \in DOMAIN ledger \ damaged => op.rel \notin Refs(ledger[op.inst])
    BY <1>3 DEF Purge, Rest, PurgeHolds
  <2> QED BY <1>1, <2>1, DirDeleted, IdleAgain DEF Rest, Idle
<1> QED BY <1>2, <1>3

\* Setup, the end of the application and a crash in any operation.
LEMMA LifecycleKeeps ==
  ASSUME BaseInv, Rest, Lifecycle
  PROVE  Rest'
<1>1. CASE BootInstalls
  <2>1. BuiltinSeq[todo] \in Builtins
    BY <1>1 DEF BootInstalls, Booting, BaseInv, LedgerTypeOK, Builtins
  <2>2. bundle[BuiltinSeq[todo]] \in Releases
    BY <2>1, LedgerAssumption DEF BaseInv, LedgerTypeOK
  <2> QED BY <1>1, <2>1, <2>2, StageKeeps DEF BootInstalls, Packages, Origins
<1>2. CASE Boot \/ BootRefuses \/ BootSkips \/ BootDone \/ Quit
  <2>1. ledger' = ledger /\ dirs' = dirs /\ damaged' = damaged /\ op' = op
    BY <1>2 DEF Boot, BootRefuses, BootSkips, BootDone, Quit, diskVars
  <2> QED BY <2>1 DEF Rest, InstallHolds, FirstEntry, UpdatedEntry, OfPackage, PurgeHolds, UninstallHolds,
             ReferencedReleasesOnDisk, SlotsDistinct, OneInstallationPerPackage
<1>3. CASE Crash
  BY <1>3, DirsGrow, IdleAgain DEF Crash, diskVars, Rest, Idle
<1> QED BY <1>1, <1>2, <1>3 DEF Lifecycle

\* The invariant holds of an empty data directory.
LEMMA InvInit == LedgerInit => LedgerInv
BY BaseInit DEF LedgerInit, LedgerInv, BaseInv, InstallHolds, PurgeHolds, UninstallHolds,
     ReferencedReleasesOnDisk, SlotsDistinct, OneInstallationPerPackage, Idle

\* Every step keeps what the lock protects: one lemma above for each group.
LEMMA RestStep ==
  ASSUME BaseInv, Rest, LedgerNext
  PROVE  Rest'
<1>1. CASE InstallFromUrl
  BY <1>1, StageKeeps DEF InstallFromUrl, Install, Packages, Origins
<1>2. CASE MainThreadCommand
  <2>1. CASE \E p \in CatalogPackages, r \in Releases : Install(p, r, "Local")
    BY <2>1, StageKeeps DEF Install, Packages, Origins
  <2>2. CASE \E i \in Insts : DiscardPending(i) \/ Rollback(i)
    BY <2>2, SlotCommandKeeps
  <2>3. CASE \E i \in Insts : UninstallMove(i)
    BY <2>3, UninstallKeeps
  <2>4. CASE \E d \in DevDirs : UnregisterDevDir(d) \/ \E p \in DevPackages : RegisterDevDir(d, p)
    BY <2>4, DevKeeps
  <2> QED BY <1>2, <2>1, <2>2, <2>3, <2>4 DEF MainThreadCommand
<1>3. CASE LockHolder
  BY <1>3, CommitKeeps, DeletionKeeps, UninstallKeeps, DevKeeps DEF LockHolder
<1>4. CASE Lifecycle
  BY <1>4, LifecycleKeeps
<1>5. CASE StatusCommand
  BY <1>5, SlotCommandKeeps DEF StatusCommand
<1> QED BY <1>1, <1>2, <1>3, <1>4, <1>5 DEF LedgerNext

\* The invariant is inductive.
LEMMA InvStep == LedgerInv /\ [LedgerNext]_ledgerVars => LedgerInv'
<1> SUFFICES ASSUME LedgerInv, [LedgerNext]_ledgerVars PROVE LedgerInv'
  OBVIOUS
<1>1. CASE UNCHANGED ledgerVars
  BY <1>1 DEF ledgerVars, LedgerInv, LedgerTypeOK, FreshIds, Phases, InstallHolds, FirstEntry,
       UpdatedEntry, OfPackage, PurgeHolds, UninstallHolds, ReferencedReleasesOnDisk,
       SlotsDistinct, OneInstallationPerPackage
<1>2. CASE LedgerNext
  <2>1. BaseInv /\ Rest
    BY DEF LedgerInv, BaseInv, Rest
  <2>2. BaseInv' /\ Rest'
    BY <1>2, <2>1, BaseType, BaseFresh, BasePhases, RestStep DEF BaseInv
  <2> QED BY <2>2 DEF LedgerInv, BaseInv, Rest
<1> QED BY <1>1, <1>2

\* What the lock protects, in every state of every ledger: ids are given out
\* once, an operation finds the entry it checked, what is deleted is in no
\* slot, and what an uninstall can put back has no successor.
THEOREM InvCorrect == LedgerSpec => []LedgerInv
BY InvInit, InvStep, PTL DEF LedgerSpec

\* No deletion and no crash takes a release away that a slot refers to, in
\* any number of installations and packages: what an operation deletes was
\* taken out of the ledger first, and its check still holds when it writes.
THEOREM ReferencedReleasesSafe == LedgerSpec => []ReferencedReleasesOnDisk
<1>1. LedgerInv => ReferencedReleasesOnDisk
  BY DEF LedgerInv
<1> QED BY <1>1, InvCorrect, PTL

\* The slots of an installation never hold one release twice.
THEOREM SlotsStayDistinct == LedgerSpec => []SlotsDistinct
<1>1. LedgerInv => SlotsDistinct
  BY DEF LedgerInv
<1> QED BY <1>1, InvCorrect, PTL

\* A package is never installed twice.
THEOREM PackagesInstalledOnce == LedgerSpec => []OneInstallationPerPackage
<1>1. LedgerInv => OneInstallationPerPackage
  BY DEF LedgerInv
<1> QED BY <1>1, InvCorrect, PTL

-----------------------------------------------------------------------------
(* The start of the application accounts for the builtins                  *)

\* What an install by setup is about to store: the protected entry of the
\* builtin with its bundled release, or a Dev entry before that one.
ArrivesFor(e, b) ==
  /\ e.pkg = b /\ e.active.rel = bundle[b] /\ op.rel = bundle[b]
  /\ \/ e.origin = "Builtin" /\ e.prot
     \/ /\ e.origin = "Dev"
        /\ \E h \in OfPackage(b) : op.inst < h /\ ledger[h].origin = "Builtin" /\ ledger[h].prot

\* Setup has accounted for the builtins it has gone through.
BootInv ==
  app = "booting" =>
    /\ \A k \in 1..(todo - 1) : Accounted(BuiltinSeq[k])
    /\ op.kind = "install" => \E e \in op.entry : ArrivesFor(e, BuiltinSeq[todo])

\* A ledger write for another package changes nothing for a builtin.
LEMMA AccountedKept ==
  ASSUME LedgerTypeOK, NEW b, Accounted(b), dirs \subseteq dirs', bundle' = bundle,
         \/ ledger' = ledger
         \/ \E i \in Insts, e \in Entry :
              /\ ledger' = Put(i, e)
              /\ i \in DOMAIN ledger => ledger[i].pkg # b
  PROVE  Accounted(b)'
<1>1. \A j \in OfPackage(b) : j \in OfPackage(b)' /\ ledger'[j] = ledger[j]
  <2>1. CASE ledger' = ledger
    BY <2>1 DEF OfPackage
  <2>2. ASSUME NEW i \in Insts, NEW e \in Entry, ledger' = Put(i, e),
               i \in DOMAIN ledger => ledger[i].pkg # b
        PROVE  \A j \in OfPackage(b) : j \in OfPackage(b)' /\ ledger'[j] = ledger[j]
    <3>1. /\ DOMAIN ledger' = DOMAIN ledger \cup {i}
          /\ \A j \in DOMAIN ledger : j # i => ledger'[j] = ledger[j]
      BY <2>2, PutType
    <3> QED BY <2>2, <3>1 DEF OfPackage
  <2> QED BY <2>1, <2>2
<1>2. \A j \in OfPackage(b) : Carries(j, b) => Carries(j, b)'
  BY <1>1 DEF Carries
<1> QED BY <1>1, <1>2 DEF Accounted

\* A builtin that setup skips is there already.
LEMMA SkippedIsAccounted ==
  ASSUME LedgerTypeOK, NEW b, SameRelease(b), ~BuiltinRefused(b)
  PROVE  Accounted(b)
<1> DEFINE i == Highest(OfPackage(b))
<1>1. i \in OfPackage(b)
  BY OfPackageType, HighestMember DEF SameRelease, LedgerTypeOK
<1>2. ledger[i].origin = "Builtin" /\ ledger[i].prot /\ Carries(i, b)
  BY DEF SameRelease, BuiltinRefused, BootEntry, Carries
<1> QED BY <1>1, <1>2 DEF Accounted

\* What setup begins to install will account for the builtin.
LEMMA StagedWillAccount ==
  ASSUME LedgerInv, NEW b \in Builtins, ~BuiltinRefused(b), UNCHANGED bootVars,
         InstallStage(b, bundle[b], "Builtin", TRUE)
  PROVE  \E e \in op'.entry : ArrivesFor(e, b)'
<1> DEFINE r == bundle[b]
           e == NewEntry(b, r, "Builtin", TRUE)
           h == Highest(OfPackage(b))
           l == Lowest(OfPackage(b))
<1>0. LedgerTypeOK /\ FreshIds /\ bundle' = bundle /\ ledger' = ledger
  BY DEF LedgerInv, bootVars, InstallStage
<1>1. op'.entry = {e} /\ op'.rel = r /\ (OfPackage(b) # {} => op'.inst = l)
  <2> HIDE DEF e, l
  <2>1. op' = [Idle EXCEPT !.kind = "install", !.rel = r, !.entry = {e},
                           !.inst = IF OfPackage(b) = {} THEN nextInst ELSE l]
    BY DEF InstallStage, e, l
  <2> HIDE DEF r
  <2> QED BY <2>1 DEF Idle
<1>2. CASE OfPackage(b) = {}
  <2>1. e.pkg = b /\ e.active.rel = r /\ e.origin = "Builtin" /\ e.prot
    BY <1>2 DEF NewEntry
  <2> HIDE DEF e
  <2> QED BY <1>0, <1>1, <2>1 DEF ArrivesFor
<1>3. CASE OfPackage(b) # {}
  <2>1. /\ l \in OfPackage(b) /\ h \in OfPackage(b) /\ l <= h
        /\ l \in Int /\ h \in Int
    BY <1>0, <1>3, OfPackageType, LowestMember, HighestMember, LedgerAssumption,
       SMTT(30) DEF LedgerTypeOK, Insts
  <2>2. ledger[l] \in Entry /\ ledger[l].pkg = b /\ ledger[h].pkg = b
    BY <1>0, <2>1 DEF LedgerTypeOK, OfPackage
  <2>3. ledger[h].origin = "Builtin" /\ ledger[h].prot
    BY <1>3 DEF BuiltinRefused, BootEntry
  <2>4. e = [ledger[l] EXCEPT !.active = [rel |-> r, st |-> "Ready"], !.previous = ledger[l].active]
    BY <1>3 DEF NewEntry
  <2>5. /\ e.pkg = b /\ e.active.rel = r
        /\ e.origin = ledger[l].origin /\ e.prot = ledger[l].prot
    <3> HIDE DEF e, r, l
    <3> QED BY <2>2, <2>4 DEF Entry
  <2>6. l = h \/ (l < h /\ ledger[l].origin = "Dev")
    BY <2>1, <2>2, <2>3 DEF LedgerInv, OneInstallationPerPackage, OfPackage
  <2>7. OfPackage(b)' = OfPackage(b)
    BY <1>0 DEF OfPackage
  <2> HIDE DEF e, h, l, r
  <2> QED BY <1>0, <1>1, <1>3, <2>1, <2>3, <2>5, <2>6, <2>7 DEF ArrivesFor, r
<1> QED BY <1>2, <1>3

\* The ledger write of setup accounts for the builtin, and keeps the others.
LEMMA CommitAccounts ==
  ASSUME LedgerInv, BootInv, app = "booting", InstallCommit
  PROVE  \A k \in 1..(todo' - 1) : Accounted(BuiltinSeq[k])'
<1> PICK b : b = BuiltinSeq[todo]
  OBVIOUS
<1>0. /\ LedgerTypeOK /\ op.inst \in Insts /\ op.rel \in Releases /\ <<op.inst, op.rel>> \in dirs
      /\ todo \in 1..Len(BuiltinSeq) /\ todo' = todo + 1
      /\ UNCHANGED <<dirs, bundle>>
  BY BuiltinCount DEF LedgerInv, FreshIds, Phases, InstallHolds, InstallCommit, LedgerTypeOK
<1>1. PICK e \in op.entry : ArrivesFor(e, b) /\ (FirstEntry(e) \/ UpdatedEntry(e))
  BY DEF BootInv, InstallCommit, LedgerInv, InstallHolds
<1>2. e \in Entry /\ ledger' = Put(op.inst, e)
  BY <1>1 DEF InstallCommit, LedgerInv, InstallHolds, LedgerTypeOK, Op
<1>3. op.inst \in DOMAIN ledger => ledger[op.inst].pkg = b
  BY <1>1 DEF FirstEntry, UpdatedEntry, ArrivesFor
<1>4. ASSUME NEW k \in 1..(todo - 1) PROVE Accounted(BuiltinSeq[k])'
  <2>1. BuiltinSeq[k] # b
    BY <1>0, LedgerAssumption
  <2>2. Accounted(BuiltinSeq[k])
    BY DEF BootInv
  <2> QED BY <1>0, <1>2, <1>3, <2>1, <2>2, AccountedKept
<1>5. Accounted(b)'
  <2> PICK i : i = op.inst
    OBVIOUS
  <2>1. /\ i \in DOMAIN ledger' /\ ledger'[i] = e
        /\ \A j \in DOMAIN ledger : j # i => j \in DOMAIN ledger' /\ ledger'[j] = ledger[j]
    <3>1. /\ DOMAIN ledger' = DOMAIN ledger \cup {op.inst}
          /\ ledger'[op.inst] = e
          /\ \A j \in DOMAIN ledger : j # op.inst => ledger'[j] = ledger[j]
      BY <1>0, <1>2, PutType, ZenonT(40)
    <3> QED BY <3>1
  <2>2. i \in OfPackage(b)' /\ Carries(i, b)'
    BY <1>0, <1>1, <2>1 DEF OfPackage, Carries, ArrivesFor
  <2>3. CASE e.origin = "Builtin" /\ e.prot
    BY <2>1, <2>2, <2>3 DEF Accounted
  <2>4. CASE e.origin = "Dev" /\ \E h \in OfPackage(b) :
               op.inst < h /\ ledger[h].origin = "Builtin" /\ ledger[h].prot
    <3>1. PICK h \in OfPackage(b) : op.inst < h /\ ledger[h].origin = "Builtin" /\ ledger[h].prot
      BY <2>4
    <3>2. h # i
      BY <1>0, <3>1 DEF Insts
    <3>3. h \in OfPackage(b)' /\ ledger'[h].origin = "Builtin" /\ ledger'[h].prot
      BY <2>1, <3>1, <3>2 DEF OfPackage
    <3> QED BY <2>1, <2>2, <2>4, <3>1, <3>3 DEF Accounted
  <2> QED BY <1>1, <2>3, <2>4 DEF ArrivesFor
<1>6. todo' - 1 = todo /\ todo \in Int
  BY <1>0
<1>7. ASSUME NEW k \in 1..(todo' - 1) PROVE Accounted(BuiltinSeq[k])'
  <2>1. k = todo \/ k \in 1..(todo - 1)
    BY <1>6
  <2> QED BY <1>4, <1>5, <2>1
<1> QED BY <1>7

\* Setup goes through the builtins one by one.
LEMMA BootInvStep == LedgerInv /\ BootInv /\ [LedgerNext]_ledgerVars => BootInv'
<1> SUFFICES ASSUME LedgerInv, BootInv, [LedgerNext]_ledgerVars, app' = "booting"
             PROVE  BootInv'
  BY DEF BootInv
<1>0. LedgerTypeOK /\ Phases /\ todo \in Int
  BY BuiltinCount DEF LedgerInv, LedgerTypeOK
<1>1. CASE UNCHANGED ledgerVars
  BY <1>1 DEF BootInv, Accounted, ArrivesFor, Carries, OfPackage, ledgerVars
<1>2. CASE MainThreadCommand \/ InstallFromUrl \/ StatusCommand
  BY <1>2 DEF MainThreadCommand, InstallFromUrl, StatusCommand, Install, DiscardPending, Rollback,
    UninstallMove, UnregisterDevDir, RegisterDevDir, ActivatePending, MarkDependencyStatus,
    Serving, bootVars
<1>3. CASE LockHolder
  <2>1. app = "booting" /\ op.kind \in {"idle", "install"}
    BY <1>0, <1>3 DEF LockHolder, InstallCommit, InstallAbort, Purge, UninstallAbort,
      UninstallCommit, UninstallEmpty, UninstallEmptyFails, DevLoads, DevFailsToLoad, bootVars,
      Phases
  <2>2. InstallCommit
    BY <1>3, <2>1 DEF LockHolder, InstallAbort, Purge, UninstallAbort, UninstallCommit,
      UninstallEmpty, UninstallEmptyFails, DevLoads, DevFailsToLoad
  <2>3. op'.kind = "idle"
    BY <2>2 DEF InstallCommit, Idle
  <2> QED BY <2>1, <2>2, <2>3, CommitAccounts DEF BootInv
<1>4. CASE Boot
  BY <1>0, <1>4 DEF Boot, BootInv, Phases
<1>5. CASE BootSkips
  <2>1. /\ app = "booting" /\ todo' = todo + 1 /\ op' = op /\ op.kind = "idle"
        /\ UNCHANGED <<ledger, dirs, bundle>>
    BY <1>5 DEF BootSkips, Booting, diskVars, Idle
  <2>2. Accounted(BuiltinSeq[todo])
    BY <1>0, <1>5, SkippedIsAccounted DEF BootSkips
  <2>3. ASSUME NEW k \in 1..(todo' - 1) PROVE Accounted(BuiltinSeq[k])'
    <3>1. k = todo \/ k \in 1..(todo - 1)
      BY <1>0, <2>1
    <3>2. Accounted(BuiltinSeq[k])
      BY <2>1, <2>2, <3>1 DEF BootInv
    <3> QED BY <1>0, <2>1, <3>2, AccountedKept
  <2> QED BY <2>1, <2>3 DEF BootInv
<1>6. CASE BootInstalls
  <2> PICK b : b = BuiltinSeq[todo]
    OBVIOUS
  <2>1. b \in Builtins
    BY <1>0, <1>6 DEF BootInstalls, Booting, LedgerTypeOK, Builtins
  <2>2. app = "booting" /\ todo' = todo /\ ledger' = ledger /\ bundle' = bundle
        /\ dirs \subseteq dirs'
    BY <1>6 DEF BootInstalls, Booting, InstallStage, bootVars
  <2>3. \E e \in op'.entry : ArrivesFor(e, b)'
    BY <1>6, <2>1, StagedWillAccount DEF BootInstalls
  <2>4. \A k \in 1..(todo - 1) : Accounted(BuiltinSeq[k])'
    BY <1>0, <2>2, AccountedKept DEF BootInv
  <2> QED BY <2>2, <2>3, <2>4 DEF BootInv
<1>7. CASE BootRefuses \/ BootDone \/ Quit \/ Crash
  BY <1>7 DEF BootRefuses, BootDone, Quit, Crash
<1> QED BY <1>1, <1>2, <1>3, <1>4, <1>5, <1>6, <1>7 DEF LedgerNext, Lifecycle

\* A start-up without error accounts for every builtin of the build, for any
\* index of builtins and any builds: the release the build bundles is active
\* or pending, and on disk, in the protected entry or in a Dev entry of the
\* package that comes before it.
THEOREM BootAccounted == LedgerSpec => BootAccountsForBuiltins
<1> DEFINE Step == app = "booting" /\ app' = "running" /\ ~bootErr'
                     => \A b \in Builtins : Accounted(b)'
<1>1. LedgerInit => BootInv
  BY DEF LedgerInit, BootInv
<1>2. LedgerInv /\ BootInv /\ [LedgerNext]_ledgerVars => [Step]_ledgerVars
  <2> SUFFICES ASSUME LedgerInv, BootInv, LedgerNext, app = "booting", app' = "running", ~bootErr',
                      NEW b \in Builtins
               PROVE  Accounted(b)'
    OBVIOUS
  <2>1. BootDone
    <3>1. ~Serving
      BY DEF Serving
    <3>2. ~ (MainThreadCommand \/ InstallFromUrl \/ StatusCommand)
      BY <3>1 DEF MainThreadCommand, InstallFromUrl, StatusCommand, Install, DiscardPending,
        Rollback, UninstallMove, UnregisterDevDir, RegisterDevDir, ActivatePending,
        MarkDependencyStatus
    <3>3. ~LockHolder
      BY DEF LockHolder, InstallCommit, InstallAbort, Purge, UninstallAbort, UninstallCommit,
        UninstallEmpty, UninstallEmptyFails, DevLoads, DevFailsToLoad, bootVars
    <3> QED BY <3>2, <3>3 DEF LedgerNext, Lifecycle, Boot, BootRefuses, BootSkips, BootInstalls,
                              bootVars, Quit, Crash
  <2>2. todo = Len(BuiltinSeq) + 1 /\ UNCHANGED <<ledger, dirs, bundle>>
    BY <2>1 DEF BootDone, diskVars
  <2>3. PICK k \in 1..Len(BuiltinSeq) : b = BuiltinSeq[k]
    BY DEF Builtins
  <2>4. Accounted(b)
    BY <2>2, <2>3, BuiltinCount DEF BootInv
  <2> QED BY <2>2, <2>4, AccountedKept DEF LedgerInv
<1> QED BY <1>1, <1>2, BootInvStep, InvCorrect, PTL DEF LedgerSpec, BootAccountsForBuiltins
=============================================================================
