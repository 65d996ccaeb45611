---------------------------- MODULE LegacyMigration ----------------------------
(***************************************************************************)
(* The migration of the old layout, at each start and before anything else *)
(* touches the ledgers: every directory with a manifest that the journal   *)
(* does not know becomes a draft or an installation.  Each of its effects  *)
(* can fail and is then taken back, which can fail, too; and the           *)
(* application can end between two of them.                                *)
(***************************************************************************)
EXTENDS Naturals

CONSTANTS
  Dirs,      \* names of directories of the old layout
  Drafty,    \* those whose manifest says draft
  PluginIds, \* packages of the others: local:<manifest id>
  IdOf,      \* directory -> its package
  Newer,     \* a release the user has of a package already
  DataFiles, \* names of files in a data directory
  FilesOf,   \* directory, or Newer -> those that are in its data directory
  MaxStarts  \* bound: starts of the application

ASSUME MigrationAssumption ==
  /\ Drafty \subseteq Dirs
  /\ IdOf \in [Dirs -> PluginIds]
  /\ Newer \notin Dirs /\ 0 \notin Dirs \cup {Newer}
  /\ FilesOf \in [Dirs \cup {Newer} -> SUBSET DataFiles]
  /\ MaxStarts \in Nat

VARIABLES
  place,     \* where the directory is: "old", "draft", "staged" or "gone"
  listed,    \* drafts in the ledger of drafts
  active,    \* package -> what is installed: a directory, Newer or 0
  pending,   \* package -> a directory waiting to be activated, or 0
  data,      \* the one data directory of a package: file -> whose it is, or 0
  done,      \* the journal: directories that are migrated
  failed,    \* the journal: directories that could not be
  now,       \* the directory that is being migrated, and how far
  left,      \* directories this start still has to look at
  starts,    \* how often the application was started
  botched,   \* history: something could not be taken back, or the end came in between
  removed,   \* history: the user uninstalled it, or it shared such an installation
  overlaid   \* history: <<owner, package, file>> that another file of the name replaced

migrationVars == <<place, listed, active, pending, data, done, failed, now, left, starts, botched, removed, overlaid>>
instVars == <<active, pending, data>>

Resting == [at |-> "rest", dir |-> 0]
Slots   == Dirs \cup {Newer, 0}
Stages  == {"look", "moved", "listed", "staged", "installed", "copied", "success", "failure"}

MigrationTypeOK ==
  /\ place \in [Dirs -> {"old", "draft", "staged", "gone"}]
  /\ listed \subseteq Drafty
  /\ active \in [PluginIds -> Slots] /\ pending \in [PluginIds -> Dirs \cup {0}]
  /\ \A p \in PluginIds : pending[p] # 0 => active[p] # 0 /\ active[p] # pending[p]
  /\ data \in [PluginIds -> [DataFiles -> Slots]]
  /\ done \subseteq Dirs /\ failed \subseteq Dirs /\ done \cap failed = {}
  /\ now = Resting \/ now \in [at : Stages, dir : Dirs]
  /\ left \subseteq Dirs /\ starts \in 0 .. MaxStarts
  /\ botched \subseteq Dirs /\ removed \subseteq Dirs
  /\ overlaid \subseteq (Dirs \cup {Newer}) \X PluginIds \X DataFiles

MigrationInit ==
  /\ place = [n \in Dirs |-> "old"]
  /\ listed = {}
  /\ active \in [PluginIds -> {Newer, 0}]
  /\ pending = [p \in PluginIds |-> 0]
  /\ data = [p \in PluginIds |-> [f \in DataFiles |->
                IF active[p] = Newer /\ f \in FilesOf[Newer] THEN Newer ELSE 0]]
  /\ done = {} /\ failed = {}
  /\ now = Resting /\ left = {} /\ starts = 0
  /\ botched = {} /\ removed = {} /\ overlaid = {}

Installed(n) == active[IdOf[n]] = n \/ pending[IdOf[n]] = n

-----------------------------------------------------------------------------
(* migrate_legacy_layout                                                   *)

Candidates == {n \in Dirs \ done : place[n] = "old"}

AppStarts ==
  /\ now = Resting /\ left = {} /\ starts < MaxStarts
  /\ starts' = starts + 1 /\ left' = Candidates
  /\ UNCHANGED <<place, listed, instVars, done, failed, now, botched, removed, overlaid>>

Take(n) ==
  /\ now = Resting /\ n \in left
  /\ now' = [at |-> "look", dir |-> n]
  /\ left' = left \ {n}
  /\ UNCHANGED <<place, listed, instVars, done, failed, starts, botched, removed, overlaid>>

\* The stage of the directory that is being migrated.
In(n, stage) == now = [at |-> stage, dir |-> n]
GoTo(n, stage) == now' = [at |-> stage, dir |-> n]
BotchedIf(n, bad) == botched' = IF bad THEN botched \cup {n} ELSE botched


Note(n) ==
  /\ In(n, "success") \/ In(n, "failure")
  /\ IF In(n, "success") THEN done' = done \cup {n} /\ failed' = failed \ {n}
                         ELSE failed' = failed \cup {n} /\ UNCHANGED done
  /\ now' = Resting
  /\ UNCHANGED <<place, listed, instVars, left, starts, botched, removed, overlaid>>

\* The journal cannot be written: this start migrates nothing more.
NoteFails(n) ==
  /\ In(n, "success") \/ In(n, "failure")
  /\ now' = Resting /\ left' = {}
  /\ UNCHANGED <<place, listed, instVars, done, failed, starts, botched, removed, overlaid>>

\* The manifest cannot be read, the directory not be packed, moved or staged.
Refused(n) ==
  /\ In(n, "look") /\ GoTo(n, "failure")
  /\ UNCHANGED <<place, listed, instVars, done, failed, left, starts, botched, removed, overlaid>>

-----------------------------------------------------------------------------
(* migrate_one_legacy_directory: a draft                                   *)

MoveDraft(n) ==
  /\ In(n, "look") /\ n \in Drafty
  /\ place' = [place EXCEPT ![n] = "draft"] /\ GoTo(n, "moved")
  /\ UNCHANGED <<listed, instVars, done, failed, left, starts, botched, removed, overlaid>>

ListDraft(n) ==
  /\ In(n, "moved")
  /\ listed' = listed \cup {n} /\ GoTo(n, "listed")
  /\ UNCHANGED <<place, instVars, done, failed, left, starts, botched, removed, overlaid>>

ListDraftFails(n) ==
  /\ In(n, "moved") /\ GoTo(n, "failure")
  /\ \E back \in BOOLEAN :
       /\ place' = IF back THEN [place EXCEPT ![n] = "old"] ELSE place
       /\ BotchedIf(n, ~ back)
  /\ UNCHANGED <<listed, instVars, done, failed, left, starts, removed, overlaid>>

CleanDraft(n) ==
  /\ In(n, "listed") /\ GoTo(n, "success")
  /\ UNCHANGED <<place, listed, instVars, done, failed, left, starts, botched, removed, overlaid>>

\* Mutant: the directory goes back, its entry stays.
CleanDraftFailsOnly(n) ==
  /\ In(n, "listed") /\ GoTo(n, "failure")
  /\ place' = [place EXCEPT ![n] = "old"]
  /\ UNCHANGED <<listed, instVars, done, failed, left, starts, botched, removed, overlaid>>

CleanDraftFails(n) ==
  /\ In(n, "listed") /\ GoTo(n, "failure")
  /\ \E unlist, back \in BOOLEAN :
       /\ listed' = IF unlist THEN listed \ {n} ELSE listed
       /\ place' = IF back THEN [place EXCEPT ![n] = "old"] ELSE place
       /\ BotchedIf(n, ~ (unlist /\ back))
  /\ UNCHANGED <<instVars, done, failed, left, starts, removed, overlaid>>

-----------------------------------------------------------------------------
(* migrate_one_legacy_directory: an installation                           *)

StageOld(n) ==
  /\ In(n, "look") /\ n \notin Drafty
  /\ place' = [place EXCEPT ![n] = "staged"] /\ GoTo(n, "staged")
  /\ UNCHANGED <<listed, instVars, done, failed, left, starts, botched, removed, overlaid>>

\* Installed anew, or as the update of what is installed.
InstallOld(n) ==
  LET p == IdOf[n] IN
  /\ In(n, "staged") /\ GoTo(n, "installed")
  /\ pending[p] = 0 /\ active[p] # n
  /\ IF active[p] = 0 THEN active' = [active EXCEPT ![p] = n] /\ UNCHANGED pending
                      ELSE pending' = [pending EXCEPT ![p] = n] /\ UNCHANGED active
  /\ UNCHANGED <<place, listed, data, done, failed, left, starts, botched, removed, overlaid>>

InstallOldFails(n) ==
  /\ In(n, "staged") /\ GoTo(n, "failure")
  /\ \E back \in BOOLEAN :
       /\ place' = IF back THEN [place EXCEPT ![n] = "old"] ELSE place
       /\ BotchedIf(n, ~ back)
  /\ UNCHANGED <<listed, instVars, done, failed, left, starts, removed, overlaid>>

\* copy_directory_contents: a file of the same name, of whichever release of
\* the package, is replaced.
Copy(n, files) ==
  LET p == IdOf[n] IN
  /\ data' = [data EXCEPT ![p] = [f \in DataFiles |-> IF f \in files THEN n ELSE @[f]]]
  /\ overlaid' = overlaid \cup {<<data[p][f], p, f>> : f \in {g \in files : data[p][g] \notin {0, n}}}

CopyData(n) ==
  /\ In(n, "installed") /\ GoTo(n, "copied")
  /\ Copy(n, FilesOf[n])
  /\ UNCHANGED <<place, listed, active, pending, done, failed, left, starts, botched, removed>>

\* The installation goes as a whole, with what it was an update of.
UserUninstalls(p) ==
  /\ active' = [active EXCEPT ![p] = 0] /\ pending' = [pending EXCEPT ![p] = 0]
  /\ data' = [data EXCEPT ![p] = [f \in DataFiles |-> 0]]

\* Mutant: the installation stays.
CopyDataFailsOnly(n) ==
  /\ In(n, "installed") /\ GoTo(n, "failure")
  /\ place' = [place EXCEPT ![n] = "old"]
  /\ UNCHANGED <<instVars, listed, done, failed, left, starts, botched, removed, overlaid>>

\* Some of the files may have been copied.
CopyDataFails(n) ==
  /\ In(n, "installed") /\ GoTo(n, "failure")
  /\ \E off, back \in BOOLEAN :
       /\ IF off THEN UserUninstalls(IdOf[n]) /\ UNCHANGED overlaid
                 ELSE (\E files \in SUBSET FilesOf[n] : Copy(n, files)) /\ UNCHANGED <<active, pending>>
       /\ place' = IF back THEN [place EXCEPT ![n] = "old"] ELSE place
       /\ BotchedIf(n, ~ (off /\ back))
       /\ removed' = IF off THEN removed \cup {m \in Dirs \ {n} : Installed(m) /\ IdOf[m] = IdOf[n]}
                     ELSE removed
  /\ UNCHANGED <<listed, done, failed, left, starts>>

\* Mutant: the old files go before the data was copied.
DropOldFirst(n) ==
  /\ In(n, "installed") \/ In(n, "copied")
  /\ GoTo(n, "success")
  /\ place' = [place EXCEPT ![n] = "gone"]
  /\ UNCHANGED <<listed, instVars, done, failed, left, starts, botched, removed, overlaid>>

\* A directory that cannot be deleted is left where it is.
DropOld(n) ==
  /\ In(n, "copied") /\ GoTo(n, "success")
  /\ \E purged \in BOOLEAN : place' = IF purged THEN [place EXCEPT ![n] = "gone"] ELSE place
  /\ UNCHANGED <<listed, instVars, done, failed, left, starts, botched, removed, overlaid>>

-----------------------------------------------------------------------------
(* Around it                                                               *)

EndsEarly ==
  /\ now # Resting
  /\ botched' = botched \cup {now.dir}
  /\ now' = Resting /\ left' = {}
  /\ IF now.at = "installed"
       THEN (\E files \in SUBSET FilesOf[now.dir] : Copy(now.dir, files)) /\ UNCHANGED <<active, pending>>
       ELSE UNCHANGED <<instVars, overlaid>>
  /\ UNCHANGED <<place, listed, done, failed, starts, removed>>

\* Between two starts the user activates, uninstalls and deletes.
UserActs ==
  /\ now = Resting /\ left = {} /\ starts > 0
  /\ \/ \E p \in PluginIds :
          \/ /\ pending[p] # 0
             /\ active' = [active EXCEPT ![p] = pending[p]] /\ pending' = [pending EXCEPT ![p] = 0]
             /\ removed' = removed \cup ({active[p]} \cap Dirs)
             /\ UNCHANGED <<data, listed, place>>
          \/ /\ active[p] # 0
             /\ removed' = removed \cup {n \in Dirs : Installed(n) /\ IdOf[n] = p}
             /\ UserUninstalls(p) /\ UNCHANGED <<listed, place>>
     \/ \E n \in listed :
          /\ listed' = listed \ {n} /\ removed' = removed \cup {n}
          /\ place' = [place EXCEPT ![n] = IF @ = "draft" THEN "gone" ELSE @]
          /\ UNCHANGED instVars
  /\ UNCHANGED <<done, failed, now, left, starts, botched, overlaid>>

MigrationNext ==
  \/ AppStarts \/ EndsEarly \/ UserActs
  \/ \E n \in Dirs :
       \/ Take(n) \/ Refused(n) \/ Note(n) \/ NoteFails(n)
       \/ MoveDraft(n) \/ ListDraft(n) \/ ListDraftFails(n) \/ CleanDraft(n) \/ CleanDraftFails(n)
       \/ StageOld(n) \/ InstallOld(n) \/ InstallOldFails(n)
       \/ CopyData(n) \/ CopyDataFails(n) \/ DropOld(n)

MigrationSpec == MigrationInit /\ [][MigrationNext]_migrationVars

-----------------------------------------------------------------------------
(* Properties                                                              *)

\* A directory of the old layout is either where it was, and then nothing knows
\* of it, so that the next start takes it and finds nothing in its way; or it
\* has become a draft with its files, or an installation with its data:
\* whatever fails on the way, and over any number of starts.  Excepted are what
\* could not be taken back, an end of the application in between, what the user
\* removed, and a release that shared its installation with one whose data
\* could not be copied.  A file of the data is there unless one of its name was
\* copied over it from another directory of the same manifest id: all releases
\* of a package share one data directory, and the copy does not look.
DataKept(n, p) ==
  \A f \in FilesOf[n] : data[p][f] = n \/ <<n, p, f>> \in overlaid

NothingLost ==
  /\ \A n \in Dirs \ (botched \cup removed) :
       now.dir # n =>
         \/ place[n] = "old" /\ n \notin listed \cup done /\ ~ Installed(n)
         \/ n \in listed /\ place[n] = "draft"
         \/ Installed(n) /\ DataKept(n, IdOf[n])
  /\ \A p \in PluginIds : active[p] = Newer => DataKept(Newer, p)
=============================================================================
