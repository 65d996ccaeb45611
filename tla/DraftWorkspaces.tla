---------------------------- MODULE DraftWorkspaces ----------------------------
(***************************************************************************)
(* Draft workspaces: a second ledger beside that of the installations, one *)
(* directory for each draft, and the publication of a draft.  Creation and *)
(* deletion hold the lock over several effects; a publication packs the    *)
(* directory into one fixed file of the draft, checks, uploads for up to   *)
(* half an hour and then takes the lock to record what it published.       *)
(*                                                                         *)
(* Contents of a draft and versions are numbers; a hash is the content.    *)
(***************************************************************************)
EXTENDS Naturals

CONSTANTS
  Drafts,      \* workspace ids, each given to one draft
  Publishers,  \* publications that may be under way together
  MaxText,     \* bound on the contents of a draft
  MaxVersion   \* bound on versions

ASSUME DraftAssumption == MaxText \in Nat \ {0} /\ MaxVersion \in Nat \ {0}

VARIABLES
  entry,     \* the ledger: whether the draft is in it, what it last published
  tree,      \* its directory, and what is in it
  lock,      \* the creation or deletion that holds file_lock
  packed,    \* workspace-<id>.qplugin: the content and version in it
  pub,       \* each publication: step, draft, what it packed, what was answered
  platform,  \* releases the platform took
  torn,      \* history: drafts whose creation or deletion was cut short or not taken back
  raced      \* history: drafts packed again while a publication was under way

draftVars == <<entry, tree, lock, packed, pub, platform, torn, raced>>

\* What a deletion leaves that fails half way is a content, too.
Leftover == MaxText + 1
Contents == 1 .. Leftover
Versions == 1 .. MaxVersion

NoPublication    == [at |-> "idle", draft |-> 0, text |-> 0, version |-> 0]
Free    == [op |-> "none", draft |-> 0]
NoEntry == [in |-> FALSE, text |-> 0, version |-> 0]
Release == [draft : Drafts, text : Contents, version : Versions]

DraftTypeOK ==
  /\ entry \in [Drafts -> [in : BOOLEAN, text : {0} \cup Contents, version : {0} \cup Versions]]
  /\ \A d \in Drafts : (entry[d].text = 0 <=> entry[d].version = 0)
  /\ tree \in [Drafts -> [at : {"new", "there", "trash", "lost", "gone"},
                          text : {0} \cup Contents, version : {0} \cup Versions]]
  /\ lock = Free \/ lock \in [op : {"create", "move", "purge"}, draft : Drafts]
  /\ packed \in [Drafts -> [text : {0} \cup Contents, version : {0} \cup Versions]]
  /\ \A p \in Publishers :
       pub[p] = NoPublication \/ pub[p] \in [at : {"packed", "checked", "sent"}, draft : Drafts,
                                    text : Contents, version : Versions]
  /\ platform \subseteq Release
  /\ torn \subseteq Drafts /\ raced \subseteq Drafts

DraftInit ==
  /\ entry = [d \in Drafts |-> NoEntry]
  /\ tree = [d \in Drafts |-> [at |-> "new", text |-> 0, version |-> 0]]
  /\ lock = Free
  /\ packed = [d \in Drafts |-> [text |-> 0, version |-> 0]]
  /\ pub = [p \in Publishers |-> NoPublication]
  /\ platform = {} /\ torn = {} /\ raced = {}

pubVars == <<packed, pub, platform, raced>>

-----------------------------------------------------------------------------
(* create_workspace, import_workspace, copy_installation_to_workspace      *)

MakeTree(d) ==
  /\ lock = Free /\ tree[d].at = "new"
  /\ tree' = [tree EXCEPT ![d] = [at |-> "there", text |-> 1, version |-> 1]]
  /\ lock' = [op |-> "create", draft |-> d]
  /\ UNCHANGED <<entry, pubVars, torn>>

RecordDraft(d) ==
  /\ lock = [op |-> "create", draft |-> d]
  /\ entry' = [entry EXCEPT ![d].in = TRUE]
  /\ lock' = Free
  /\ UNCHANGED <<tree, pubVars, torn>>

\* A file or the ledger cannot be written: the directory is removed, or stays.
CreateDraftFails(d) ==
  /\ lock = [op |-> "create", draft |-> d]
  /\ tree' \in {tree, [tree EXCEPT ![d].at = "gone"]}
  /\ lock' = Free
  /\ UNCHANGED <<entry, pubVars, torn>>

-----------------------------------------------------------------------------
(* delete_workspace.  Each call has a trash directory of its own: what an   *)
(* earlier one left in its trash is lost to every later one.               *)

MoveToTrash(d) ==
  /\ lock = Free /\ entry[d].in
  /\ tree' = [tree EXCEPT ![d].at = IF @ = "there" THEN "trash" ELSE @]
  /\ lock' = [op |-> "move", draft |-> d]
  /\ UNCHANGED <<entry, pubVars, torn>>

Unrecord(d) ==
  /\ lock = [op |-> "move", draft |-> d]
  /\ entry' = [entry EXCEPT ![d].in = FALSE]
  /\ lock' = [op |-> "purge", draft |-> d]
  /\ UNCHANGED <<tree, pubVars, torn>>

\* Mutant: the directory is not put back.
UnrecordFailsOnly(d) ==
  /\ lock = [op |-> "move", draft |-> d]
  /\ lock' = Free
  /\ UNCHANGED <<entry, tree, pubVars, torn>>

\* The directory goes back; a failure of that is ignored.
MoveBack(d, text) ==
  \/ /\ tree' = [tree EXCEPT ![d].at = "there", ![d].text = text]
     /\ UNCHANGED torn
  \/ /\ tree' = [tree EXCEPT ![d].at = "lost", ![d].text = text]
     /\ torn' = torn \cup {d}

UnrecordFails(d) ==
  /\ lock = [op |-> "move", draft |-> d]
  /\ IF tree[d].at = "trash" THEN MoveBack(d, tree[d].text) ELSE UNCHANGED <<tree, torn>>
  /\ lock' = Free
  /\ UNCHANGED <<entry, pubVars>>

EmptyTrash(d) ==
  /\ lock = [op |-> "purge", draft |-> d]
  /\ tree' = [tree EXCEPT ![d].at = IF @ = "trash" THEN "gone" ELSE @]
  /\ lock' = Free
  /\ UNCHANGED <<entry, pubVars, torn>>

\* What is left goes back, and so does the old ledger if it can be written.
EmptyTrashFails(d) ==
  /\ lock = [op |-> "purge", draft |-> d] /\ tree[d].at = "trash"
  /\ MoveBack(d, Leftover)
  /\ \E back \in BOOLEAN : entry' = [entry EXCEPT ![d].in = back]
  /\ lock' = Free
  /\ UNCHANGED pubVars

-----------------------------------------------------------------------------
(* The developer works in the directory, at any time                       *)

EditTree(d) ==
  /\ tree[d].at = "there" /\ tree[d].text < MaxText
  /\ \E v \in Versions : tree' = [tree EXCEPT ![d].text = @ + 1, ![d].version = v]
  /\ UNCHANGED <<entry, lock, pubVars, torn>>

-----------------------------------------------------------------------------
(* publish_draft_workspace                                                 *)

PubEnds(p) == pub' = [pub EXCEPT ![p] = NoPublication]

\* pack_workspace writes over the file another publication may be about to
\* send, also when the inspection of what it wrote then refuses it.
PackDraft(p, d) ==
  /\ pub[p] = NoPublication
  /\ entry[d].in /\ tree[d].at = "there"
  /\ LET now == [text |-> tree[d].text, version |-> tree[d].version] IN
       /\ packed' = [packed EXCEPT ![d] = now]
       /\ pub' \in {pub, [pub EXCEPT ![p] = [at |-> "packed", draft |-> d,
                                              text |-> now.text, version |-> now.version]]}
  /\ raced' = IF \E q \in Publishers : pub[q].draft = d THEN raced \cup {d} ELSE raced
  /\ UNCHANGED <<entry, tree, lock, platform, torn>>

\* Something new, under a higher version.
Publishable(d, text, version) ==
  entry[d].in /\ text # entry[d].text /\ version > entry[d].version

CheckDraft(p) ==
  /\ pub[p].at = "packed"
  /\ IF Publishable(pub[p].draft, pub[p].text, pub[p].version)
       THEN pub' = [pub EXCEPT ![p].at = "checked"]
       ELSE PubEnds(p)
  /\ UNCHANGED <<entry, tree, lock, packed, platform, torn, raced>>

\* The platform takes what is in the file, and answers with its version; or
\* it refuses, or its answer is lost.
Upload(p) ==
  /\ pub[p].at = "checked"
  /\ LET file == packed[pub[p].draft]
         release == [draft |-> pub[p].draft, text |-> file.text, version |-> file.version]
     IN  \/ platform' = platform \cup {release}
            /\ pub' = [pub EXCEPT ![p].at = "sent", ![p].version = file.version]
         \/ platform' = platform \cup {release} /\ PubEnds(p)
         \/ PubEnds(p) /\ UNCHANGED platform
  /\ UNCHANGED <<entry, tree, lock, packed, torn, raced>>

\* Mutants: without looking at the ledger again; the content of now.
MarkUnchecked(p) ==
  /\ pub[p].at = "sent" /\ lock = Free
  /\ LET d == pub[p].draft IN
       entry' = IF entry[d].in
                  THEN [entry EXCEPT ![d].text = pub[p].text, ![d].version = pub[p].version]
                  ELSE entry
  /\ PubEnds(p)
  /\ UNCHANGED <<tree, lock, packed, platform, torn, raced>>
MarkContentOfNow(p) ==
  /\ pub[p].at = "sent" /\ lock = Free
  /\ LET d == pub[p].draft IN
       entry' = IF Publishable(d, tree[d].text, pub[p].version)
                  THEN [entry EXCEPT ![d].text = tree[d].text, ![d].version = pub[p].version]
                  ELSE entry
  /\ PubEnds(p)
  /\ UNCHANGED <<tree, lock, packed, platform, torn, raced>>

\* mark_workspace_published looks again; the ledger may not be writable.
MarkPublished(p) ==
  /\ pub[p].at = "sent" /\ lock = Free
  /\ LET d == pub[p].draft IN
       entry' \in {entry} \cup
                  IF Publishable(d, pub[p].text, pub[p].version)
                    THEN {[entry EXCEPT ![d].text = pub[p].text, ![d].version = pub[p].version]}
                    ELSE {}
  /\ PubEnds(p)
  /\ UNCHANGED <<tree, lock, packed, platform, torn, raced>>

-----------------------------------------------------------------------------
\* The application ends and starts again.
CrashDrafts ==
  /\ lock # Free \/ \E p \in Publishers : pub[p] # NoPublication
  /\ torn' = IF lock = Free THEN torn ELSE torn \cup {lock.draft}
  /\ lock' = Free
  /\ tree' = [d \in Drafts |-> [tree[d] EXCEPT !.at = IF @ = "trash" THEN "lost" ELSE @]]
  /\ pub' = [p \in Publishers |-> NoPublication]
  /\ UNCHANGED <<entry, packed, platform, raced>>

DraftNext ==
  \/ \E d \in Drafts :
       \/ MakeTree(d) \/ RecordDraft(d) \/ CreateDraftFails(d)
       \/ MoveToTrash(d) \/ Unrecord(d) \/ UnrecordFails(d) \/ EmptyTrash(d) \/ EmptyTrashFails(d)
       \/ EditTree(d)
  \/ \E p \in Publishers :
       \/ CheckDraft(p) \/ Upload(p) \/ MarkPublished(p)
       \/ \E d \in Drafts : PackDraft(p, d)
  \/ CrashDrafts

DraftSpec == DraftInit /\ [][DraftNext]_draftVars

-----------------------------------------------------------------------------
(* Properties                                                              *)

\* A draft in the ledger has its directory, also after a deletion that failed
\* at any of its effects.  Where the application ended in the middle of a
\* deletion, or the move back failed, which delete_workspace ignores, its files
\* are in the trash of that deletion; nothing else can part the two.
DraftsHaveTrees ==
  lock = Free =>
    \A d \in Drafts : entry[d].in =>
      tree[d].at = "there" \/ (d \in torn /\ tree[d].at = "lost")

\* What the ledger calls published was published, content and version
\* together, whatever was edited and whatever else was published in the half
\* hour between packing and recording.  Two publications of one draft at a
\* time share the packed file, and may record what the other one sent.
RecordedWasPublished ==
  \A d \in Drafts \ raced :
    entry[d].text # 0 => [draft |-> d, text |-> entry[d].text, version |-> entry[d].version] \in platform

\* The published version of a draft only rises, each time with a new content,
\* also when publications overlap and answers come in any order.
VersionsRise ==
  [][\A d \in Drafts :
       entry'[d].version # entry[d].version \/ entry'[d].text # entry[d].text =>
         entry'[d].version > entry[d].version /\ entry'[d].text # entry[d].text]_draftVars
=============================================================================
