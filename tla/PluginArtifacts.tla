---------------------------- MODULE PluginArtifacts ----------------------------
(***************************************************************************)
(* The artifact of a plugin, .qplugin v4: package_workspace makes one of a *)
(* directory, inspect_artifact accepts or refuses one of any origin, and   *)
(* extract_artifact unpacks it into a new directory.  Here one artifact    *)
(* goes all the way, on a machine whose file system may ignore case, and   *)
(* what was extracted may be packed again.                                 *)
(*                                                                         *)
(* A name stands for the names of its kind.  Sizes are a class: within all *)
(* limits, over that of README.md only, over that of any file.  The limit  *)
(* on all bytes together is left out: it works as that on the number.      *)
(***************************************************************************)
EXTENDS Sublists, SequencesExt

CONSTANTS
  MaxFiles,   \* MAX_FILES
  MaxChanges  \* bound: changes of the directory while it is packed

ASSUME ArtifactAssumption == MaxFiles \in Nat /\ MaxChanges \in Nat

VARIABLES
  work,     \* the directory: file -> size
  says,     \* its manifest: unusable, or which file is the entry
  step,     \* what is under way
  waiting,  \* files still to be packed or extracted, with the sizes found
  art,      \* entries of the artifact, in their order
  origin,   \* who made it, and what happened to it
  caseless, \* whether the file system it is extracted on ignores case
  unpacked, \* what was extracted: place -> entry
  outcome,  \* what the last call returned
  changes,  \* how often the directory was changed while it was packed
  past      \* history: the artifact before, whether the disk failed, whether
            \* a destination could not be removed

workVars == <<work, says>>
artifactVars == <<workVars, step, waiting, art, origin, caseless, unpacked, outcome, changes, past>>

Meta     == "_meta.json"
Manifest == "manifest.json"
Readme   == "README.md"
\* In the order of a sort.  A directory that is left out, two files that differ
\* in case only, a file whose name is that of a directory but for its case, two
\* directories that differ in case only, and a file as it is read where these
\* two are one.
Sources  == <<"Lib/x", "Lib/y", "README.md", "Src", "data/x", "lib/y", "main.py", "readme.md", "src/a">>
\* The last one is no name a directory gives, but archives of other tools may.
Names    == ToSet(Sources) \cup {Meta, Manifest, "src//a"}
Sizes    == {"fits", "long", "huge"}

Lower(name) ==
  CASE name = "README.md" -> "readme.md" [] name = "Src" -> "src"
    [] name = "Lib/x" -> "lib/x" [] name = "Lib/y" -> "lib/y" [] OTHER -> name
\* Where an entry goes.
Normal(name) == IF name = "src//a" THEN "src/a" ELSE name
Place(name)  == IF caseless THEN Lower(Normal(name)) ELSE Normal(name)
\* The directory of a place and a file of that name.
InTheWay(place, other) == {place, other} = {"src", "src/a"}

\* should_exclude
Excluded(name) == name = "data/x"

ZipEntry(name, size) == [name |-> name, size |-> size, says |-> "", sound |-> TRUE]
ManifestEntry     == [ZipEntry(Manifest, "fits") EXCEPT !.says = says]
NamesOf(a)        == {e.name : e \in ToSet(a)}

\* What a directory may hold.  To have fewer of them, both of the directories
\* that differ in case only, or neither.
Directories ==
  {d \in UNION {[s -> Sizes] : s \in SUBSET (Names \ {"src//a", "Lib/y"})} :
     /\ "Lib/x" \in DOMAIN d <=> "lib/y" \in DOMAIN d
     /\ \A x \in DOMAIN d : d[x] # "fits" => x \in {"README.md", "src/a"}}

\* Two directories of an artifact that are one where case is ignored.
Merged(a) == caseless /\ {"Lib/x", "lib/y"} \subseteq NamesOf(a)

ArtifactTypeOK ==
  /\ DOMAIN work \subseteq Names /\ \A x \in DOMAIN work : work[x] \in Sizes
  /\ says \in {"unusable", "main.py", "data/x", "src/a"}
  /\ step \in {"idle", "packing", "made", "stopped", "arrived", "extracting", "done"}
  /\ ToSet(waiting) \subseteq Names
  /\ \A e \in ToSet(art) : e.name \in Names /\ e.size \in Sizes /\ e.sound \in BOOLEAN
  /\ origin \in {"none", "packed", "damaged", "foreign"}
  /\ caseless \in BOOLEAN
  /\ \A x \in DOMAIN unpacked : unpacked[x] \in ToSet(art)
  /\ DOMAIN unpacked # {} => step = "extracting" \/ outcome = "ok" \/ past.left
  /\ outcome \in {"none", "ok", "refused", "failed"}
  /\ changes \in 0 .. MaxChanges

ArtifactInit ==
  /\ work \in Directories /\ says \in {"unusable", "main.py", "data/x", "src/a"}
  /\ step = "idle" /\ waiting = <<>> /\ art = <<>> /\ origin = "none"
  /\ caseless \in BOOLEAN
  /\ unpacked = <<>> /\ outcome = "none" /\ changes = 0
  /\ past = [first |-> <<>>, faulty |-> FALSE, left |-> FALSE]

-----------------------------------------------------------------------------
(* inspect_artifact                                                        *)

\* Mutant: names are compared as they are.
AcceptedByCase(a) ==
  /\ Len(a) \in 1 .. MaxFiles
  /\ \A e \in ToSet(a) :
       ~ Excluded(e.name) /\ e.sound /\ e.size # "huge" /\ (e.name = Readme => e.size # "long")
  /\ \A i, j \in DOMAIN a : a[i].name = a[j].name => i = j
  /\ Meta \in NamesOf(a)
  /\ \E e \in ToSet(a) : e.name = Manifest /\ e.says # "unusable" /\ e.says \in NamesOf(a)

Accepted(a) ==
  /\ Len(a) \in 1 .. MaxFiles
  /\ \A e \in ToSet(a) :
       ~ Excluded(e.name) /\ e.sound /\ e.size # "huge" /\ (e.name = Readme => e.size # "long")
  /\ \A i, j \in DOMAIN a : Lower(a[i].name) = Lower(a[j].name) => i = j
  /\ Meta \in NamesOf(a)
  /\ \E e \in ToSet(a) : e.name = Manifest /\ e.says # "unusable" /\ e.says \in NamesOf(a)

-----------------------------------------------------------------------------
(* package_workspace                                                       *)

\* collect_workspace_source_files; what the packing itself
\* writes is left out.  Mutant: an old _meta.json is taken, too.
SourceFilesAll ==
  Those(<<Meta>> \o Sources, {x \in DOMAIN work : ~ Excluded(x)})
SourceFiles == Those(Sources, {x \in DOMAIN work : ~ Excluded(x)})

StartPacking ==
  /\ step = "idle"
  /\ IF \/ Manifest \notin DOMAIN work \/ says = "unusable"
        \/ \E x \in ToSet(SourceFiles) : work[x] = "huge"
        \/ Len(SourceFiles) + 2 > MaxFiles
       THEN /\ outcome' = "refused" /\ step' = "stopped"
            /\ UNCHANGED <<waiting, art, origin>>
       ELSE /\ art' = <<ZipEntry(Meta, "fits"), ManifestEntry>> /\ waiting' = SourceFiles
            /\ step' = "packing" /\ origin' = "packed" /\ outcome' = "none"
  /\ UNCHANGED <<workVars, caseless, unpacked, changes, past>>

\* The developer goes on working.
ChangeDirectory ==
  /\ step = "packing" /\ changes < MaxChanges /\ past.first = <<>>
  /\ changes' = changes + 1
  /\ \E x \in ToSet(waiting) :
       \/ work' = [y \in DOMAIN work \ {x} |-> work[y]]
       \/ \E size \in Sizes \ {work[x]} : work' = [work EXCEPT ![x] = size]
  /\ UNCHANGED <<says, step, waiting, art, origin, caseless, unpacked, outcome, past>>

\* A file that is gone ends it; what is written so far stays.
PackFile ==
  /\ step = "packing" /\ waiting # <<>>
  /\ IF Head(waiting) \in DOMAIN work
       THEN /\ art' = Append(art, ZipEntry(Head(waiting), work[Head(waiting)]))
            /\ waiting' = Tail(waiting) /\ UNCHANGED <<step, outcome>>
       ELSE step' = "stopped" /\ outcome' = "failed" /\ UNCHANGED <<waiting, art>>
  /\ UNCHANGED <<workVars, origin, caseless, unpacked, changes, past>>

\* Mutant: without the inspection of what was made.
FinishUnread ==
  /\ step = "packing" /\ waiting = <<>>
  /\ outcome' = "ok" /\ step' = "made"
  /\ UNCHANGED <<workVars, waiting, art, origin, caseless, unpacked, changes, past>>

Finish ==
  /\ step = "packing" /\ waiting = <<>>
  /\ IF Accepted(art) THEN outcome' = "ok" /\ step' = "made"
                      ELSE outcome' = "refused" /\ step' = "stopped"
  /\ UNCHANGED <<workVars, waiting, art, origin, caseless, unpacked, changes, past>>

-----------------------------------------------------------------------------
(* On its way: as it is, with an entry damaged, or another tool's archive  *)

Damaged(a) == {[a EXCEPT ![i].sound = FALSE] : i \in DOMAIN a}

Arrive ==
  \/ /\ step = "made" /\ step' = "arrived"
     /\ \/ UNCHANGED <<art, origin>>
        \/ art' \in Damaged(art) /\ origin' = "damaged"
     /\ UNCHANGED <<workVars, waiting, caseless, unpacked, outcome, changes, past>>
  \/ /\ step = "idle" /\ past.first = <<>> /\ DOMAIN work = {}
     /\ step' = "arrived" /\ origin' = "foreign"
     /\ \E x, y, z \in Names \ {Manifest}, size \in Sizes :
          art' = <<ZipEntry(x, "fits"), ManifestEntry, ZipEntry(y, "fits"), ZipEntry(z, size)>>
     /\ UNCHANGED <<workVars, waiting, caseless, unpacked, outcome, changes, past>>

-----------------------------------------------------------------------------
(* extract_artifact                                                        *)

StartExtraction ==
  /\ step = "arrived"
  /\ IF Accepted(art)
       THEN step' = "extracting" /\ waiting' = [i \in DOMAIN art |-> art[i].name] /\ outcome' = "none"
       ELSE step' = "done" /\ outcome' = "refused" /\ UNCHANGED waiting
  /\ UNCHANGED <<workVars, art, origin, caseless, unpacked, changes, past>>

\* The destination is removed, as far as that can be done.
GiveUp(broken) ==
  /\ outcome' = "failed" /\ step' = "done"
  /\ \E left \in BOOLEAN :
       /\ unpacked' = IF left THEN unpacked ELSE <<>>
       /\ past' = [past EXCEPT !.faulty = @ \/ broken, !.left = left]

Current == art[Len(art) - Len(waiting) + 1]

ExtractFile ==
  /\ step = "extracting" /\ waiting # <<>>
  /\ LET place == Place(Current.name) IN
     IF \E other \in DOMAIN unpacked : InTheWay(place, other)
       THEN GiveUp(FALSE) /\ UNCHANGED waiting
       ELSE /\ unpacked' = [x \in DOMAIN unpacked \cup {place} |-> IF x = place THEN Current ELSE unpacked[x]]
            /\ waiting' = Tail(waiting) /\ UNCHANGED <<step, outcome, past>>
  /\ UNCHANGED <<workVars, art, origin, caseless, changes>>

DiskFails ==
  /\ step = "extracting" /\ waiting # <<>>
  /\ GiveUp(TRUE)
  /\ UNCHANGED <<workVars, waiting, art, origin, caseless, changes>>

EndExtraction ==
  /\ step = "extracting" /\ waiting = <<>>
  /\ outcome' = "ok" /\ step' = "done"
  /\ UNCHANGED <<workVars, waiting, art, origin, caseless, unpacked, changes, past>>

\* How the name of an extracted file is read: a directory has the spelling in
\* which it was made, by the first of its files.
ReadBack(name) == IF name = "lib/y" /\ Merged(art) THEN "Lib/y" ELSE name

\* What was extracted is a directory, and packed as it is.
PackAgain ==
  /\ step = "done" /\ outcome = "ok" /\ origin = "packed" /\ past.first = <<>>
  /\ work' = [x \in {ReadBack(unpacked[p].name) : p \in DOMAIN unpacked} |->
                (CHOOSE e \in ToSet(art) : ReadBack(e.name) = x).size]
  /\ \E e \in ToSet(art) : e.name = Manifest /\ says' = e.says
  /\ past' = [past EXCEPT !.first = art]
  /\ step' = "idle" /\ art' = <<>> /\ unpacked' = <<>> /\ outcome' = "none"
  /\ UNCHANGED <<waiting, origin, caseless, changes>>

ArtifactNext ==
  \/ StartPacking \/ ChangeDirectory \/ PackFile \/ Finish
  \/ Arrive \/ StartExtraction \/ ExtractFile \/ DiskFails \/ EndExtraction \/ PackAgain

ArtifactSpec == ArtifactInit /\ [][ArtifactNext]_artifactVars

-----------------------------------------------------------------------------
(* Properties                                                              *)

\* An extraction gives every file that was inspected, undamaged and with
\* nothing overlaid by another, or it gives nothing: on file systems that
\* ignore case, when two entries are in each other's way, and when the disk
\* fails half way.  Two spellings of one path, which no directory gives, are
\* taken for two files.
WholeOrNothing ==
  step = "done" =>
    IF outcome = "ok"
      THEN \A i \in DOMAIN art :
             /\ art[i].sound
             /\ \/ Place(art[i].name) \in DOMAIN unpacked /\ unpacked[Place(art[i].name)] = art[i]
                \/ \E j \in DOMAIN art \ {i} : Normal(art[i].name) = Normal(art[j].name)
      ELSE unpacked = <<>> \/ past.left

\* What was packed with success is accepted wherever it arrives whole, and can
\* be extracted, although the directory changed while it was read.  Only a
\* file and a directory whose names differ in case alone are packed and, on a
\* file system that ignores case, not extracted.
PackedIsInstallable ==
  step = "done" /\ origin = "packed" =>
    outcome = "ok" \/ past.faulty \/ (caseless /\ {"Src", "src/a"} \subseteq NamesOf(art))

\* The extracted directory can be packed again and gives the same artifact, so
\* that an imported and unchanged release has the hash it was published with.
\* Only two directories whose names differ in case alone, which are accepted,
\* are one on a file system that ignores case, and their files renamed.
RepackIsSame ==
  past.first # <<>> /\ ~ Merged(past.first) =>
    step # "stopped" /\ (step = "made" => art = past.first)
=============================================================================
