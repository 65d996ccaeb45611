---------------------------- MODULE InstallLedger ----------------------------
(***************************************************************************)
(* The installation ledger of the desktop host (PluginPackageManager):     *)
(* the file installations-v1.json, the release directories it points at    *)
(* and the developers' source directories it borrows.                      *)
(*                                                                         *)
(* Every operation that writes the ledger holds one mutex (file_lock), but *)
(* between its effects - rename a directory, write the ledger, delete a    *)
(* directory - the application can die and a call that takes no lock can   *)
(* look.  So an operation is a first step that checks, plus one step per   *)
(* later durable effect; the variable op is the operation holding the lock *)
(* and what it still has to do.                                            *)
(*                                                                         *)
(* A release is identified by its release id; its path follows from it:    *)
(* installed/<installation>/releases/<id>/package for a packaged release,  *)
(* the developer's own directory for a "dev-<hash>" release.  A release    *)
(* directory stands for the package and for its runtime environment, which *)
(* are deleted together.                                                   *)
(***************************************************************************)
EXTENDS Integers, Sequences

CONSTANTS
  CatalogPackages,  \* package ids a user can install from a file or a URL
  DevPackages,      \* package ids a developer registers a directory under
  BuiltinSeq,       \* package ids compiled into the binary, in index order
  Releases,         \* ids of packaged releases
  ProcessReleases,  \* those whose manifest says nodejs or python
  DevDirs,          \* developers' source directories
  Bundles,          \* application builds: which release of each builtin
  MarkStatuses,     \* the dependency statuses callers report
  MaxInst,          \* bound: installations created in one behaviour
  CanCrash,         \* whether the application may die at any point
  None

Builtins == {BuiltinSeq[k] : k \in 1..Len(BuiltinSeq)}
Packages == CatalogPackages \cup DevPackages \cup Builtins
Rels     == Releases \cup DevDirs
Insts    == 1..MaxInst
Statuses == {"Pending", "Preparing", "Ready", "Failed"}
Origins  == {"Builtin", "Local", "Marketplace", "Dev"}

ASSUME LedgerAssumption ==
  /\ MaxInst \in Nat
  /\ CanCrash \in BOOLEAN
  /\ BuiltinSeq \in Seq(Packages)
  /\ \A j, k \in 1..Len(BuiltinSeq) : BuiltinSeq[j] = BuiltinSeq[k] => j = k
  /\ Bundles \subseteq [Builtins -> Releases] /\ Bundles # {}
  /\ ProcessReleases \subseteq Releases
  /\ MarkStatuses \subseteq {"Preparing", "Ready", "Failed"}
  /\ Releases \cap DevDirs = {}
  /\ None \notin Rels

-----------------------------------------------------------------------------
(* Data                                                                    *)

\* A slot of an entry: a release and its dependency status, or nothing.
Slot    == [rel : Rels \cup {None}, st : Statuses]
NoSlot  == [rel |-> None, st |-> "Pending"]
Filled  == [rel : Rels, st : Statuses]

Entry == [pkg : Packages, origin : Origins, prot : BOOLEAN,
          active : Filled, pending : Slot, previous : Slot]

\* The releases an entry refers to.
Refs(e) == {e.active.rel, e.pending.rel, e.previous.rel} \ {None}

OpKinds == {"idle", "install", "purge", "uninstall", "emptying", "devnew", "devold"}

\* inst, rel: what the operation is about.  entry: the entry its next ledger
\* write stores (install) or restores (uninstall), at most one.
\* files: the release directories waiting in the trash.
Op   == [kind : OpKinds, inst : Insts \cup {0}, rel : Rels \cup {None},
         entry : SUBSET Entry, files : SUBSET Releases]
Idle == [kind |-> "idle", inst |-> 0, rel |-> None, entry |-> {}, files |-> {}]

VARIABLES
  ledger,    \* installations-v1.json: installation id -> entry
  dirs,      \* release directories on disk, <<installation, release>>
  sources,   \* developers' source directories on disk
  op,        \* the operation holding file_lock
  nextInst,  \* the next fresh installation id
  app,       \* "down", "booting" (setup, before commands run) or "running"
  bundle,    \* the builtin releases of the running build
  todo,      \* index of the next builtin that setup registers
  bootErr,   \* register_builtins returned Err (setup only logs it)
  damaged    \* history: installations an uninstall moved away and did not
             \* put back whole

diskVars == <<dirs, sources>>
bootVars == <<app, bundle, todo, bootErr>>
ledgerVars == <<ledger, dirs, sources, op, nextInst, app, bundle, todo, bootErr, damaged>>

LedgerTypeOK ==
  /\ DOMAIN ledger \in SUBSET Insts
  /\ ledger \in [DOMAIN ledger -> Entry]
  /\ dirs \in SUBSET (Insts \X Releases)
  /\ sources \in SUBSET DevDirs
  /\ op \in Op
  /\ nextInst \in 1..(MaxInst + 1)
  /\ app \in {"down", "booting", "running"}
  /\ bundle \in Bundles
  /\ todo \in 1..(Len(BuiltinSeq) + 1)
  /\ bootErr \in BOOLEAN
  /\ damaged \in SUBSET Insts

LedgerInit ==
  /\ ledger = [i \in {} |-> {}]
  /\ dirs = {}
  /\ sources = DevDirs
  /\ op = Idle
  /\ nextInst = 1
  /\ app = "down"
  /\ bundle \in Bundles
  /\ todo = 1
  /\ bootErr = FALSE
  /\ damaged = {}

-----------------------------------------------------------------------------
(* Helpers                                                                 *)

\* One ledger write: entry i stored (pushed or replaced), or removed.
Put(i, e) == [j \in DOMAIN ledger \cup {i} |-> IF j = i THEN e ELSE ledger[j]]
Drop(S)   == [j \in DOMAIN ledger \ S |-> ledger[j]]

\* Entries are pushed at the end and fresh ids grow, so the order of the
\* list in the file is the order of the ids.
OfPackage(p) == {i \in DOMAIN ledger : ledger[i].pkg = p}
Lowest(S)    == CHOOSE i \in S : \A j \in S : i <= j
Highest(S)   == CHOOSE i \in S : \A j \in S : j <= i

\* Nothing holds the lock and commands are being served.
Serving == op = Idle /\ app = "running"

\* What a slot write leaves to delete once the ledger is on disk.
PurgeAfter(i, s) ==
  IF s.rel = None THEN Idle ELSE [Idle EXCEPT !.kind = "purge", !.inst = i, !.rel = s.rel]

\* An entry whose releases differ and are all among the directories S.
DistinctSlots(e) ==
  /\ e.active.rel # e.pending.rel /\ e.active.rel # e.previous.rel
  /\ e.pending.rel = e.previous.rel => e.pending.rel = None
Intact(e, S) == DistinctSlots(e) /\ Refs(e) \cap Releases \subseteq S

PutBack(i, e, S) == IF Intact(e, S) THEN damaged \ {i} ELSE damaged

-----------------------------------------------------------------------------
(* Install: check, move the extracted package into place, write the ledger *)

\* Mutant: an existing release directory is overwritten.
InstallableOverwrites(p, r, o) ==
  /\ o = "Local" => r \notin ProcessReleases
  /\ OfPackage(p) # {} =>
       LET e == ledger[Lowest(OfPackage(p))] IN
         /\ e.pending.rel # None => o = "Builtin"
         /\ r \notin {e.active.rel, e.pending.rel}

\* Mutant: a new update replaces one that still waits.
InstallableOverPending(p, r, o) ==
  /\ o = "Local" => r \notin ProcessReleases
  /\ OfPackage(p) # {} =>
       LET i == Lowest(OfPackage(p)) IN
         /\ r \notin {ledger[i].active.rel, ledger[i].pending.rel}
         /\ <<i, r>> \notin dirs

\* The runtime policy for local imports, the rules for an existing entry of
\* the package, and the refusal to overwrite a release directory.
Installable(p, r, o) ==
  /\ o = "Local" => r \notin ProcessReleases
  /\ OfPackage(p) # {} =>
       LET i == Lowest(OfPackage(p))  e == ledger[i] IN
         /\ e.pending.rel # None => o = "Builtin"
         /\ r \notin {e.active.rel, e.pending.rel}
         /\ <<i, r>> \notin dirs

\* The entry the ledger write will store.  A builtin replaces the active
\* release; any other release waits in pending.  Origin and protection of an
\* existing entry stay.
NewEntry(p, r, o, prot) ==
  LET s == [rel |-> r, st |-> IF o = "Builtin" THEN "Ready" ELSE "Pending"] IN
  IF OfPackage(p) = {}
    THEN [pkg |-> p, origin |-> o, prot |-> prot, active |-> s,
          pending |-> NoSlot, previous |-> NoSlot]
    ELSE LET e == ledger[Lowest(OfPackage(p))] IN
         IF o = "Builtin" THEN [e EXCEPT !.active = s, !.previous = e.active]
                          ELSE [e EXCEPT !.pending = s]

\* Mutant: the installation of the package is not looked up.
InstallStageAnew(p, r, o, prot) ==
  /\ Installable(p, r, o)
  /\ nextInst \in Insts
  /\ dirs' = dirs \cup {<<nextInst, r>>}
  /\ op' = [Idle EXCEPT !.kind = "install", !.inst = nextInst, !.rel = r,
                        !.entry = {NewEntry(p, r, o, prot)}]
  /\ nextInst' = nextInst + 1
  /\ UNCHANGED <<ledger, sources, damaged>>

InstallStage(p, r, o, prot) ==
  /\ Installable(p, r, o)
  /\ LET fresh == OfPackage(p) = {}
         i == IF fresh THEN nextInst ELSE Lowest(OfPackage(p))
     IN /\ i \in Insts
        /\ dirs' = dirs \cup {<<i, r>>}
        /\ op' = [Idle EXCEPT !.kind = "install", !.inst = i, !.rel = r,
                              !.entry = {NewEntry(p, r, o, prot)}]
        /\ nextInst' = IF fresh THEN nextInst + 1 ELSE nextInst
  /\ UNCHANGED <<ledger, sources, damaged>>

Install(p, r, o) ==
  /\ Serving
  /\ InstallStage(p, r, o, FALSE)
  /\ UNCHANGED bootVars

InstallCommit ==
  /\ op.kind = "install"
  /\ \E e \in op.entry : ledger' = Put(op.inst, e)
  /\ op' = Idle
  /\ todo' = IF app = "booting" THEN todo + 1 ELSE todo
  /\ UNCHANGED <<dirs, sources, nextInst, app, bundle, bootErr, damaged>>

\* Copying to the cache or writing the ledger failed: the directory is
\* deleted, as far as the file system lets it, and the call returns Err.
InstallAbort ==
  /\ op.kind = "install"
  /\ dirs' \in {dirs, dirs \ {<<op.inst, op.rel>>}}
  /\ op' = Idle
  /\ bootErr' = (bootErr \/ app = "booting")
  /\ app' = IF app = "booting" THEN "running" ELSE app
  /\ UNCHANGED <<ledger, sources, nextInst, bundle, todo, damaged>>

-----------------------------------------------------------------------------
(* Changes of slot                                                         *)

MarkDependencyStatus(i, r, st) ==
  /\ Serving
  /\ i \in DOMAIN ledger
  /\ LET e == ledger[i] IN
       \/ /\ e.active.rel = r
          /\ ledger' = Put(i, [e EXCEPT !.active.st = st])
       \/ /\ e.active.rel # r /\ e.pending.rel = r
          /\ ledger' = Put(i, [e EXCEPT !.pending.st = st])
       \/ /\ e.active.rel # r /\ e.pending.rel # r /\ e.previous.rel = r
          /\ ledger' = Put(i, [e EXCEPT !.previous.st = st])
  /\ UNCHANGED <<diskVars, op, nextInst, bootVars, damaged>>

\* Mutant: deletes the release that was active, not the one before it.
ActivatePendingPurgesActive(i) ==
  /\ Serving
  /\ i \in DOMAIN ledger
  /\ LET e == ledger[i] IN
       /\ e.pending.rel # None
       /\ ledger' = Put(i, [e EXCEPT !.active = [rel |-> e.pending.rel, st |-> "Ready"],
                                     !.pending = NoSlot, !.previous = e.active])
       /\ op' = PurgeAfter(i, e.active)
  /\ UNCHANGED <<diskVars, nextInst, bootVars, damaged>>

ActivatePending(i) ==
  /\ Serving
  /\ i \in DOMAIN ledger
  /\ LET e == ledger[i] IN
       /\ e.pending.rel # None
       /\ ledger' = Put(i, [e EXCEPT !.active = [rel |-> e.pending.rel, st |-> "Ready"],
                                     !.pending = NoSlot, !.previous = e.active])
       /\ op' = PurgeAfter(i, e.previous)
  /\ UNCHANGED <<diskVars, nextInst, bootVars, damaged>>

DiscardPending(i) ==
  /\ Serving
  /\ i \in DOMAIN ledger
  /\ LET e == ledger[i] IN
       /\ e.pending.rel # None
       /\ ledger' = Put(i, [e EXCEPT !.pending = NoSlot])
       /\ op' = PurgeAfter(i, e.pending)
  /\ UNCHANGED <<diskVars, nextInst, bootVars, damaged>>

\* Mutant: the release that was active is not kept.
RollbackForgets(i) ==
  /\ Serving
  /\ i \in DOMAIN ledger
  /\ LET e == ledger[i] IN
       /\ e.previous.rel # None
       /\ ledger' = Put(i, [e EXCEPT !.active = e.previous, !.pending = NoSlot,
                                     !.previous = NoSlot])
       /\ op' = PurgeAfter(i, e.pending)
  /\ UNCHANGED <<diskVars, nextInst, bootVars, damaged>>

\* Mutant: does not ask whether there is a release to go back to.
RollbackUnchecked(i) ==
  /\ Serving
  /\ i \in DOMAIN ledger
  /\ LET e == ledger[i] IN
       /\ ledger' = Put(i, [e EXCEPT !.active = e.previous, !.pending = NoSlot,
                                     !.previous = e.active])
       /\ op' = PurgeAfter(i, e.pending)
  /\ UNCHANGED <<diskVars, nextInst, bootVars, damaged>>

Rollback(i) ==
  /\ Serving
  /\ i \in DOMAIN ledger
  /\ LET e == ledger[i] IN
       /\ e.previous.rel # None
       /\ ledger' = Put(i, [e EXCEPT !.active = e.previous, !.pending = NoSlot,
                                     !.previous = e.active])
       /\ op' = PurgeAfter(i, e.pending)
  /\ UNCHANGED <<diskVars, nextInst, bootVars, damaged>>

\* Deletes the directory ABOVE the package path, ignoring failures: for a
\* packaged release that is releases/<id>, for a dev release it is the
\* directory the developer keeps the source directory in.
Purge ==
  /\ op.kind = "purge"
  /\ dirs' \in {dirs, dirs \ {<<op.inst, op.rel>>}}
  /\ sources' \in {sources, sources \ {op.rel}}
  /\ op' = Idle
  /\ UNCHANGED <<ledger, nextInst, bootVars, damaged>>

-----------------------------------------------------------------------------
(* Uninstall: move the root to the trash, write the ledger, empty the trash *)

UninstallMove(i) ==
  /\ Serving
  /\ i \in DOMAIN ledger
  /\ ~ledger[i].prot
  /\ dirs' = {d \in dirs : d[1] # i}
  /\ op' = [Idle EXCEPT !.kind = "uninstall", !.inst = i, !.entry = {ledger[i]},
                        !.files = {r \in Releases : <<i, r>> \in dirs}]
  /\ damaged' = damaged \cup {i}
  /\ UNCHANGED <<ledger, sources, nextInst, bootVars>>

\* The environment could not be deleted or the ledger not written: the root
\* goes back where it was, if that can be done, and stays in the trash if not.
UninstallAbort ==
  /\ op.kind = "uninstall"
  /\ \E e \in op.entry, kept \in {{}, op.files} :
       /\ dirs' = dirs \cup ({op.inst} \X kept)
       /\ damaged' = PutBack(op.inst, e, kept)
  /\ op' = Idle
  /\ UNCHANGED <<ledger, sources, nextInst, bootVars>>

UninstallCommit ==
  /\ op.kind = "uninstall"
  /\ ledger' = Drop({op.inst})
  /\ op' = [op EXCEPT !.kind = "emptying"]
  /\ UNCHANGED <<diskVars, nextInst, bootVars, damaged>>

UninstallEmpty ==
  /\ op.kind = "emptying"
  /\ op' = Idle
  /\ UNCHANGED <<ledger, diskVars, nextInst, bootVars, damaged>>

\* Deleting the trash stopped half way: what is left of it goes back and the
\* old ledger is written again (a failure of that write is ignored).
UninstallEmptyFails ==
  /\ op.kind = "emptying"
  /\ \E e \in op.entry, kept \in SUBSET op.files :
       /\ dirs' = dirs \cup ({op.inst} \X kept)
       /\ ledger' \in {ledger, Put(op.inst, e)}
       /\ damaged' = PutBack(op.inst, e, kept)
  /\ op' = Idle
  /\ UNCHANGED <<sources, nextInst, bootVars>>

-----------------------------------------------------------------------------
(* Development installations: the source directory itself is the release   *)

\* The first Dev entry of this directory or of this package.
DevMatches(d, p) ==
  {i \in DOMAIN ledger : ledger[i].origin = "Dev"
                         /\ (ledger[i].active.rel = d \/ ledger[i].pkg = p)}

DevEntry(d, p) ==
  [pkg |-> p, origin |-> "Dev", prot |-> FALSE, active |-> [rel |-> d, st |-> "Ready"],
   pending |-> NoSlot, previous |-> NoSlot]

RegisterDevDir(d, p) ==
  /\ Serving
  /\ d \in sources
  /\ LET known == DevMatches(d, p) # {}
         i == IF known THEN Lowest(DevMatches(d, p)) ELSE nextInst
     IN /\ i \in Insts
        /\ ledger' = Put(i, DevEntry(d, p))
        /\ op' = [Idle EXCEPT !.kind = IF known THEN "devold" ELSE "devnew", !.inst = i]
        /\ nextInst' = IF known THEN nextInst ELSE nextInst + 1
  /\ UNCHANGED <<diskVars, bootVars, damaged>>

\* The directory loads.
DevLoads ==
  /\ op.kind \in {"devnew", "devold"}
  /\ op' = Idle
  /\ UNCHANGED <<ledger, diskVars, nextInst, bootVars, damaged>>

\* The entry file is missing or not readable: a new entry is taken out of the
\* ledger again; of an overwritten one only the timestamp is reset.
DevFailsToLoad ==
  /\ op.kind \in {"devnew", "devold"}
  /\ ledger' = IF op.kind = "devnew" THEN Drop({op.inst}) ELSE ledger
  /\ op' = Idle
  /\ UNCHANGED <<diskVars, nextInst, bootVars, damaged>>

UnregisterDevDir(d) ==
  /\ Serving
  /\ d \in sources
  /\ ledger' = Drop({i \in DOMAIN ledger : ledger[i].origin = "Dev" /\ ledger[i].active.rel = d})
  /\ UNCHANGED <<diskVars, op, nextInst, bootVars, damaged>>

-----------------------------------------------------------------------------
(* Start of the application, and its end                                   *)

\* The next start may run another build.
Boot ==
  /\ app = "down"
  /\ app' = "booting"
  /\ bundle' \in Bundles
  /\ todo' = 1
  /\ bootErr' = FALSE
  /\ UNCHANGED <<ledger, diskVars, op, nextInst, damaged>>

\* The entry register_builtins compares with: it collects the ledger into a
\* map by package id, so the last entry of a package wins.
BootEntry(b) == ledger[Highest(OfPackage(b))]

\* Mutant: the previous release counts as well.
SameReleaseOrPrevious(b) ==
  /\ OfPackage(b) # {}
  /\ bundle[b] \in Refs(BootEntry(b))

SameRelease(b) ==
  /\ OfPackage(b) # {}
  /\ bundle[b] \in {BootEntry(b).active.rel, BootEntry(b).pending.rel}

\* The package id is taken by something that is not a protected builtin, the
\* recorded directory is gone, or the installer refuses.
BuiltinRefused(b) ==
  \/ /\ OfPackage(b) # {}
     /\ BootEntry(b).origin # "Builtin" \/ ~BootEntry(b).prot
  \/ SameRelease(b) /\ <<Highest(OfPackage(b)), bundle[b]>> \notin dirs
  \/ ~SameRelease(b) /\ ~Installable(b, bundle[b], "Builtin")

Booting == app = "booting" /\ op = Idle /\ todo <= Len(BuiltinSeq)

\* An error ends the whole loop; setup logs it and goes on.
BootRefuses ==
  /\ Booting
  /\ BuiltinRefused(BuiltinSeq[todo])
  /\ app' = "running"
  /\ bootErr' = TRUE
  /\ UNCHANGED <<ledger, diskVars, op, nextInst, bundle, todo, damaged>>

BootSkips ==
  /\ Booting
  /\ ~BuiltinRefused(BuiltinSeq[todo])
  /\ SameRelease(BuiltinSeq[todo])
  /\ todo' = todo + 1
  /\ UNCHANGED <<ledger, diskVars, op, nextInst, app, bundle, bootErr, damaged>>

BootInstalls ==
  /\ Booting
  /\ LET b == BuiltinSeq[todo] IN
       /\ ~BuiltinRefused(b)
       /\ ~SameRelease(b)
       /\ InstallStage(b, bundle[b], "Builtin", TRUE)
  /\ UNCHANGED bootVars

BootDone ==
  /\ app = "booting" /\ op = Idle /\ todo = Len(BuiltinSeq) + 1
  /\ app' = "running"
  /\ UNCHANGED <<ledger, diskVars, op, nextInst, bundle, todo, bootErr, damaged>>

\* The user quits between operations.
Quit ==
  /\ app = "running" /\ op = Idle
  /\ app' = "down"
  /\ UNCHANGED <<ledger, diskVars, op, nextInst, bundle, todo, bootErr, damaged>>

\* The process dies: an operation stops where it is.  What it had in the
\* trash stays there; nothing looks into the staging directory again.
Crash ==
  /\ CanCrash
  /\ app # "down"
  /\ app' = "down"
  /\ op' = Idle
  /\ UNCHANGED <<ledger, diskVars, nextInst, bundle, todo, bootErr, damaged>>

-----------------------------------------------------------------------------
(* Commands that run on the main thread, one after the other               *)
MainThreadCommand ==
  \/ \E p \in CatalogPackages, r \in Releases : Install(p, r, "Local")
  \/ \E i \in Insts : DiscardPending(i) \/ Rollback(i) \/ UninstallMove(i)
  \/ \E d \in DevDirs : UnregisterDevDir(d) \/ \E p \in DevPackages : RegisterDevDir(d, p)

\* install_plugin_from_url is async: it can come between the steps of others.
InstallFromUrl ==
  \E p \in CatalogPackages, r \in Releases : Install(p, r, "Marketplace")

LockHolder ==
  \/ InstallCommit \/ InstallAbort \/ Purge
  \/ UninstallAbort \/ UninstallCommit \/ UninstallEmpty \/ UninstallEmptyFails
  \/ DevLoads \/ DevFailsToLoad

Lifecycle ==
  \/ Boot \/ BootRefuses \/ BootSkips \/ BootInstalls \/ BootDone \/ Quit \/ Crash

\* What start_installed_plugin and activate_pending_client_plugin do to the
\* ledger; PluginStart says when.
StatusCommand ==
  \E i \in Insts :
    \/ ActivatePending(i)
    \/ \E r \in Rels, st \in MarkStatuses : MarkDependencyStatus(i, r, st)

LedgerNext ==
  MainThreadCommand \/ InstallFromUrl \/ LockHolder \/ Lifecycle \/ StatusCommand

LedgerSpec == LedgerInit /\ [][LedgerNext]_ledgerVars

-----------------------------------------------------------------------------
(* Properties                                                              *)

\* The releases of the entries, and the uninstall that can still fail.
SlotsOf(e) == [active |-> e.active.rel, pending |-> e.pending.rel, previous |-> e.previous.rel]

Abstract == INSTANCE ReleaseSlots WITH
  Installations <- Insts,
  AllReleases   <- Rels,
  slots         <- [i \in DOMAIN ledger |-> SlotsOf(ledger[i])],
  leaving       <- IF op.kind = "emptying" THEN {<<op.inst, SlotsOf(e)>> : e \in op.entry} ELSE {}

\* The ledger implements ReleaseSlots: although an operation checks, works on
\* disk and writes the ledger in separate steps, anywhere between which the
\* process can die, its effect on the releases of an installation is one
\* legal change of slots or none.
ImplementsReleaseSlots == Abstract!SlotSpec

\* Every packaged release a ledger entry refers to - active, pending or
\* previous - is on disk, in every state a reader can see and after any
\* crash, unless an uninstall of that installation was interrupted.  It is
\* what start, preview, rollback and the inventory rely on, and what the
\* deletions of activate, discard and rollback could break.
ReferencedReleasesOnDisk ==
  \A i \in DOMAIN ledger \ damaged :
    \A r \in Refs(ledger[i]) \cap Releases : <<i, r>> \in dirs

\* The slots of an entry hold different releases (same exemption): the status
\* of a release is looked up by id, active before pending before previous, so
\* two slots with one id would hand a status to the wrong one.
SlotsDistinct == \A i \in DOMAIN ledger \ damaged : DistinctSlots(ledger[i])

\* A package is installed once: apart from Dev entries no two entries have
\* the same package id (resolve_action_binding takes the first it finds and
\* executor_inventory fails on a duplicate).
OneInstallationPerPackage ==
  \A i, j \in DOMAIN ledger :
    /\ ledger[i].pkg = ledger[j].pkg
    /\ ledger[i].origin # "Dev" /\ ledger[j].origin # "Dev"
    => i = j

\* No update loses the way back: whenever the active release of an entry
\* that is not a Dev entry changes, the release it replaces becomes previous.
FallbackKept ==
  [][\A i \in DOMAIN ledger \cap DOMAIN ledger' :
       /\ ledger[i].origin # "Dev"
       /\ ledger'[i].active.rel # ledger[i].active.rel
       => ledger'[i].previous.rel = ledger[i].active.rel]_ledgerVars

\* The entry has the bundled release of a builtin active or pending, and the
\* directory is there.
Carries(i, b) ==
  bundle[b] \in {ledger[i].active.rel, ledger[i].pending.rel} /\ <<i, bundle[b]>> \in dirs

\* The protected entry of a builtin carries its bundled release, or a Dev
\* entry of the package does that comes before it in the ledger: the
\* installer updates the first entry of a package, whatever its origin.
Accounted(b) ==
  \E i \in OfPackage(b) :
    /\ ledger[i].origin = "Builtin" /\ ledger[i].prot
    /\ \/ Carries(i, b)
       \/ \E j \in OfPackage(b) : j < i /\ ledger[j].origin = "Dev" /\ Carries(j, b)

\* A start-up that reports no error accounts for every builtin of the build -
\* whatever crashes, rollbacks, builds and development directories came
\* before.
BootAccountsForBuiltins ==
  [][app = "booting" /\ app' = "running" /\ ~bootErr' =>
       \A b \in Builtins : Accounted(b)']_ledgerVars

\* The host never deletes a developer's source directory.
SourcesUntouched == sources = DevDirs

-----------------------------------------------------------------------------
(* Why the invariants hold: what the lock protects.  Nobody else writes the *)
(* ledger between the check of an operation and its last effect, so what    *)
(* the check found is still true then.                                      *)

\* Ids are given out once; an operation works on one of them.
FreshIds ==
  /\ \A i \in DOMAIN ledger : i < nextInst
  /\ op.kind # "idle" => op.inst \in Insts /\ op.inst < nextInst

\* No operation outlives the process; setup only installs.
Phases ==
  /\ app = "down" => op.kind = "idle"
  /\ app = "booting" => op.kind \in {"idle", "install"}
  /\ app = "booting" /\ op.kind = "install" => todo <= Len(BuiltinSeq)

\* The entry about to be stored is the first of its package, or the present
\* one with the new release in pending or on top of the active one.
FirstEntry(e) ==
  /\ op.inst \notin DOMAIN ledger
  /\ OfPackage(e.pkg) = {}
  /\ e.active.rel = op.rel /\ e.pending = NoSlot /\ e.previous = NoSlot

UpdatedEntry(e) ==
  /\ op.inst \in DOMAIN ledger
  /\ LET old == ledger[op.inst] IN
       /\ e.pkg = old.pkg /\ e.origin = old.origin /\ e.prot = old.prot
       /\ op.rel \notin {old.active.rel, old.pending.rel}
       /\ op.inst \notin damaged => op.rel # old.previous.rel
       /\ \/ e.active.rel = op.rel /\ e.pending = old.pending /\ e.previous = old.active
          \/ /\ old.pending.rel = None
             /\ e.active = old.active /\ e.pending.rel = op.rel /\ e.previous = old.previous

InstallHolds ==
  op.kind = "install" =>
    /\ op.rel \in Releases /\ <<op.inst, op.rel>> \in dirs
    /\ \E e \in op.entry : op.entry = {e} /\ (FirstEntry(e) \/ UpdatedEntry(e))

\* What is about to be deleted is in no slot any more.
PurgeHolds ==
  op.kind = "purge" /\ op.inst \in DOMAIN ledger \ damaged =>
    op.rel \notin Refs(ledger[op.inst])

\* What can be put back is the entry that was taken out, and nobody took the
\* place of the package meanwhile.
UninstallHolds ==
  /\ op.kind = "uninstall" =>
       /\ op.inst \in DOMAIN ledger \cap damaged
       /\ op.entry = {ledger[op.inst]}
  /\ op.kind = "emptying" =>
       /\ op.inst \in damaged \ DOMAIN ledger
       /\ \E e \in op.entry :
            /\ op.entry = {e}
            /\ \A j \in DOMAIN ledger :
                 ledger[j].pkg = e.pkg => ledger[j].origin = "Dev" \/ e.origin = "Dev"

LedgerInv ==
  /\ LedgerTypeOK /\ FreshIds /\ Phases
  /\ InstallHolds /\ PurgeHolds /\ UninstallHolds
  /\ ReferencedReleasesOnDisk /\ SlotsDistinct /\ OneInstallationPerPackage

=============================================================================
