------------------------------ MODULE MCLedgers ------------------------------
(***************************************************************************)
(* Small instances of what the package manager keeps on disk: the ledgers  *)
(* of installations and of drafts, the old layout whose migration fills    *)
(* both before anything else uses them, the artifacts releases come in,    *)
(* and the lists of installations the window keeps.  A behaviour is about  *)
(* one of the five; the others stay as they begin.                         *)
(***************************************************************************)
EXTENDS MCInstallLedger, DraftWorkspaces, LegacyMigration, PluginArtifacts, PagePreferences

CONSTANTS n1, n2, n3, pk

\* All directories have the manifest of one plugin.
OnePlugin == [d \in {n1, n2, n3} |-> pk]

\* The data of n2 has a file of the name of n1's, and one of the name of Newer's.
SomeData == [d \in Dirs \cup {Newer} |->
               CASE d = n1 -> {"kv"} [] d = n2 -> {"kv", "log"} [] d = Newer -> {"log"} [] OTHER -> {}]

VARIABLE focus

allLedgerVars == <<focus, ledgerVars, draftVars, migrationVars, artifactVars, preferenceVars>>

AllLedgersInit ==
  /\ focus \in {"installations", "drafts", "layout", "artifact", "lists"}
  /\ LedgerInit /\ DraftInit /\ MigrationInit /\ ArtifactInit /\ PreferencesInit
  /\ focus # "layout" => active = [p \in PluginIds |-> 0]
  /\ focus # "artifact" => work = <<>> /\ says = "unusable" /\ ~ caseless
  /\ focus # "lists" => list = "pins" /\ installed = {} /\ stored = <<>>

AllLedgersNext ==
  \/ /\ focus = "installations" /\ LedgerNext
     /\ UNCHANGED <<focus, draftVars, migrationVars, artifactVars, preferenceVars>>
  \/ /\ focus = "drafts" /\ DraftNext
     /\ UNCHANGED <<focus, ledgerVars, migrationVars, artifactVars, preferenceVars>>
  \/ /\ focus = "layout" /\ MigrationNext
     /\ UNCHANGED <<focus, ledgerVars, draftVars, artifactVars, preferenceVars>>
  \/ /\ focus = "artifact" /\ ArtifactNext
     /\ UNCHANGED <<focus, ledgerVars, draftVars, migrationVars, preferenceVars>>
  \/ /\ focus = "lists" /\ PreferencesNext
     /\ UNCHANGED <<focus, ledgerVars, draftVars, migrationVars, artifactVars>>

AllLedgersSpec == AllLedgersInit /\ [][AllLedgersNext]_allLedgerVars

\* The state of each part keeps to its type.
AllLedgersTypeOK ==
  LedgerTypeOK /\ DraftTypeOK /\ MigrationTypeOK /\ ArtifactTypeOK /\ PreferencesTypeOK
=============================================================================
