---------------------------- MODULE Ledgers_proofs ----------------------------
(***************************************************************************)
(* Proofs about the other ledgers of the package manager: that of the      *)
(* drafts, and the migration of the old layout that fills both; and about  *)
(* the artifacts the releases come in.                                     *)
(***************************************************************************)
EXTENDS MCLedgers, InstallLedger_proofs, SequenceTheorems

-----------------------------------------------------------------------------
(* Draft workspaces: the strengthening                                     *)

\* The step and content of a publication, and what holds of a directory once
\* it was made.
DraftShape ==
  /\ DraftTypeOK
  /\ pub \in [Publishers -> [at : {"idle", "packed", "checked", "sent"}, draft : Drafts \cup {0},
                             text : {0} \cup Contents, version : {0} \cup Versions]]
  /\ \A d \in Drafts : tree[d].at # "new" => tree[d].text \in Contents /\ tree[d].version \in Versions
  /\ lock.op = "create" => tree[lock.draft].at # "new"
  /\ \A p \in Publishers : pub[p] # NoPublication =>
       packed[pub[p].draft].text \in Contents /\ packed[pub[p].draft].version \in Versions

\* Where the directory of a draft is, at each effect of the operation that
\* holds the lock for it, and when none does.
Astray(d) == d \in torn /\ tree[d].at = "lost"
TreeFollowsLock ==
  \A d \in Drafts :
    /\ lock.draft # d \/ lock = Free => (entry[d].in => tree[d].at = "there" \/ Astray(d))
    /\ lock = [op |-> "create", draft |-> d] => ~ entry[d].in /\ tree[d].at = "there"
    /\ lock = [op |-> "move", draft |-> d]   => entry[d].in /\ (tree[d].at = "trash" \/ Astray(d))
    /\ lock = [op |-> "purge", draft |-> d]  => ~ entry[d].in /\ (tree[d].at = "trash" \/ Astray(d))

\* One publication of a draft at a time finds in the file what it packed, and
\* has sent what it is about to record.
PublicationKeepsFile ==
  \A d \in Drafts \ raced, p \in Publishers :
    pub[p] # NoPublication /\ pub[p].draft = d =>
      /\ pub[p].at \in {"packed", "checked"} =>
           packed[d] = [text |-> pub[p].text, version |-> pub[p].version]
      /\ pub[p].at = "sent" =>
           [draft |-> d, text |-> pub[p].text, version |-> pub[p].version] \in platform
      /\ \A q \in Publishers : pub[q] # NoPublication /\ pub[q].draft = d => q = p

DraftInv == DraftShape /\ TreeFollowsLock /\ RecordedWasPublished /\ PublicationKeepsFile

\* One creation, deletion or edit of a draft.
TreeStep ==
  \E d \in Drafts :
    \/ MakeTree(d) \/ RecordDraft(d) \/ CreateDraftFails(d)
    \/ MoveToTrash(d) \/ Unrecord(d) \/ UnrecordFails(d) \/ EmptyTrash(d) \/ EmptyTrashFails(d)
    \/ EditTree(d)

\* One step of a publication.
PublicationStep ==
  \E p \in Publishers :
    \/ CheckDraft(p) \/ Upload(p) \/ MarkPublished(p)
    \/ \E d \in Drafts : PackDraft(p, d)

\* A state of the drafts is of one of the shapes its variables may have.
LEMMA DraftShapeAtStart == DraftInit => DraftInv
BY DraftAssumption
   DEF DraftInit, DraftInv, DraftShape, DraftTypeOK, TreeFollowsLock, RecordedWasPublished,
       PublicationKeepsFile, NoEntry, Free, NoPublication, Contents, Versions, Leftover

\* What the directories and the ledger of the drafts are made of.
Texts    == {0} \cup Contents
Numbers  == {0} \cup Versions
TreeRec  == [at : {"new", "there", "trash", "lost", "gone"}, text : Texts, version : Numbers]
EntryRec == [in : BOOLEAN, text : Texts, version : Numbers]

LEMMA DraftTypes ==
  DraftShape =>
    /\ entry \in [Drafts -> EntryRec] /\ tree \in [Drafts -> TreeRec]
    /\ packed \in [Drafts -> [text : Texts, version : Numbers]]
BY DEF DraftShape, DraftTypeOK, Texts, Numbers, TreeRec, EntryRec

\* What an edit writes, and what a deletion leaves, is a content.
LEMMA ContentsGrow ==
  /\ 1 \in Contents /\ 1 \in Versions /\ Leftover \in Contents
  /\ 0 \notin Contents /\ 0 \notin Versions
  /\ \A t \in Contents : t < MaxText => t + 1 \in Contents
BY DraftAssumption DEF Contents, Versions, Leftover

\* Creating, deleting and editing keep the ledger, the directory and the lock
\* to their types, and leave every publication alone.
LEMMA TreeKeepsShape ==
  ASSUME DraftShape, TreeStep
  PROVE  DraftShape'
<1>. USE ContentsGrow
<1>1. PICK d \in Drafts :
        \/ MakeTree(d) \/ RecordDraft(d) \/ CreateDraftFails(d)
        \/ MoveToTrash(d) \/ Unrecord(d) \/ UnrecordFails(d) \/ EmptyTrash(d) \/ EmptyTrashFails(d)
        \/ EditTree(d)
  BY DEF TreeStep
<1>2. UNCHANGED <<packed, pub, platform, raced>> /\ torn' \subseteq Drafts
  BY <1>1 DEF MakeTree, RecordDraft, CreateDraftFails, MoveToTrash, Unrecord, UnrecordFails,
              EmptyTrash, EmptyTrashFails, EditTree, MoveBack, pubVars, DraftShape, DraftTypeOK
<1>t. /\ entry \in [Drafts -> EntryRec] /\ entry[d] \in EntryRec
      /\ tree \in [Drafts -> TreeRec] /\ tree[d] \in TreeRec
  BY DraftTypes
<1>3. lock' = Free \/ lock' \in [op : {"create", "move", "purge"}, draft : Drafts]
  BY <1>1 DEF DraftShape, DraftTypeOK, MakeTree, RecordDraft, CreateDraftFails, MoveToTrash,
              Unrecord, UnrecordFails, EmptyTrash, EmptyTrashFails, EditTree
<1>4. /\ entry' \in [Drafts -> EntryRec]
      /\ \A e \in Drafts : entry'[e].text = entry[e].text /\ entry'[e].version = entry[e].version
  <2>1. entry' = entry \/ \E back \in BOOLEAN : entry' = [entry EXCEPT ![d].in = back]
    BY <1>1 DEF MakeTree, RecordDraft, CreateDraftFails, MoveToTrash, Unrecord, UnrecordFails,
                EmptyTrash, EmptyTrashFails, EditTree
  <2>2. ASSUME NEW back \in BOOLEAN
        PROVE  /\ [entry[d] EXCEPT !.in = back] \in EntryRec
               /\ [entry[d] EXCEPT !.in = back].text = entry[d].text
               /\ [entry[d] EXCEPT !.in = back].version = entry[d].version
    BY <1>t DEF EntryRec
  <2>. QED BY <2>1, <2>2, <1>t
<1>5. /\ tree' = [tree EXCEPT ![d] = tree'[d]] /\ tree'[d] \in TreeRec
      /\ tree'[d].at # "new" => tree'[d].text \in Contents /\ tree'[d].version \in Versions
      /\ lock'.op = "create" => lock' = lock \/ (lock'.draft = d /\ tree'[d].at # "new")
      /\ tree[d].at # "new" => tree'[d].at # "new"
  <2>t. tree[d].at # "new" => tree[d].text \in Contents /\ tree[d].version \in Versions
    BY DEF DraftShape
  <2>1. CASE MakeTree(d)
    BY <2>1, <1>t DEF MakeTree, TreeRec, Texts, Numbers
  <2>2. CASE RecordDraft(d) \/ Unrecord(d)
    BY <2>2, <1>t, <2>t DEF RecordDraft, Unrecord, Free
  <2>3. CASE CreateDraftFails(d)
    BY <2>3, <1>t, <2>t DEF CreateDraftFails, Free, TreeRec, DraftShape
  <2>4. CASE MoveToTrash(d) \/ EmptyTrash(d)
    BY <2>4, <1>t, <2>t DEF MoveToTrash, EmptyTrash, Free, TreeRec
  <2>5. CASE UnrecordFails(d) \/ EmptyTrashFails(d)
    BY <2>5, <1>t, <2>t DEF UnrecordFails, EmptyTrashFails, MoveBack, Free, TreeRec, Texts, Numbers
  <2>6. CASE EditTree(d)
    BY <2>6, <1>t, <2>t, ZenonT(60) DEF EditTree, TreeRec, Texts, Numbers
  <2>. QED BY <1>1, <2>1, <2>2, <2>3, <2>4, <2>5, <2>6
<1>6. \A e \in Drafts : tree'[e] \in TreeRec /\ (tree[e].at # "new" => tree'[e].at # "new")
                        /\ (tree'[e].at # "new" => tree'[e].text \in Contents /\ tree'[e].version \in Versions)
  BY <1>5, <1>t DEF DraftShape
<1>7. tree' \in [Drafts -> TreeRec]
  BY <1>5, <1>6, <1>t
<1>8. lock'.op = "create" => tree'[lock'.draft].at # "new"
  BY <1>3, <1>5, <1>6 DEF DraftShape, DraftTypeOK, Free
<1>9. DraftTypeOK'
  BY <1>2, <1>3, <1>4, <1>7 DEF DraftShape, DraftTypeOK, TreeRec, EntryRec, Texts, Numbers
<1>. QED BY <1>2, <1>6, <1>8, <1>9 DEF DraftShape

\* A publication packs, checks, sends and records contents and versions, and
\* leaves directories and lock alone.
LEMMA PublicationKeepsShape ==
  ASSUME DraftShape, PublicationStep
  PROVE  DraftShape' /\ UNCHANGED <<tree, lock, torn>>
         /\ \A d \in Drafts : entry'[d].in = entry[d].in
<1>. USE ContentsGrow
<1>1. PICK p \in Publishers :
        \/ CheckDraft(p) \/ Upload(p) \/ MarkPublished(p)
        \/ \E d \in Drafts : PackDraft(p, d)
  BY DEF PublicationStep
<1>2. UNCHANGED <<tree, lock, torn>>
  BY <1>1 DEF CheckDraft, Upload, MarkPublished, PackDraft
<1>t. /\ entry \in [Drafts -> EntryRec] /\ packed \in [Drafts -> [text : Texts, version : Numbers]]
      /\ tree \in [Drafts -> TreeRec]
      /\ pub[p] # NoPublication =>
           /\ pub[p] \in [at : {"packed", "checked", "sent"}, draft : Drafts,
                          text : Contents, version : Versions]
           /\ packed[pub[p].draft].text \in Contents /\ packed[pub[p].draft].version \in Versions
      /\ pub \in [Publishers -> [at : {"idle", "packed", "checked", "sent"}, draft : Drafts \cup {0},
                                 text : Texts, version : Numbers]]
  BY DraftTypes DEF DraftShape, DraftTypeOK, Texts, Numbers
<1>n. NoPublication \in [at : {"idle", "packed", "checked", "sent"}, draft : Drafts \cup {0},
                         text : Texts, version : Numbers]
  BY DEF NoPublication, Texts, Numbers
<1>3. /\ pub' = [pub EXCEPT ![p] = pub'[p]]
      /\ pub'[p] = NoPublication
         \/ pub'[p] \in [at : {"packed", "checked", "sent"}, draft : Drafts,
                         text : Contents, version : Versions]
      /\ pub[p] # NoPublication => pub'[p] = NoPublication \/ pub'[p].draft = pub[p].draft
  <2>1. CASE CheckDraft(p)
    BY <2>1, <1>t DEF CheckDraft, PubEnds, NoPublication
  <2>2. CASE Upload(p)
    BY <2>2, <1>t DEF Upload, PubEnds, NoPublication
  <2>3. CASE MarkPublished(p)
    BY <2>3, <1>t DEF MarkPublished, PubEnds, NoPublication
  <2>4. ASSUME NEW d \in Drafts, PackDraft(p, d)
        PROVE  <1>3!1 /\ <1>3!2 /\ <1>3!3
    BY <2>4, <1>t DEF PackDraft, DraftShape
  <2>. QED BY <1>1, <2>1, <2>2, <2>3, <2>4
<1>4. pub' \in [Publishers -> [at : {"idle", "packed", "checked", "sent"}, draft : Drafts \cup {0},
                               text : Texts, version : Numbers]]
  BY <1>3, <1>t, <1>n DEF Texts, Numbers
<1>5. /\ packed' \in [Drafts -> [text : Texts, version : Numbers]]
      /\ \A q \in Publishers : pub'[q] # NoPublication =>
           packed'[pub'[q].draft].text \in Contents /\ packed'[pub'[q].draft].version \in Versions
  <2>1. CASE CheckDraft(p) \/ Upload(p) \/ MarkPublished(p)
    <3>1. packed' = packed /\ pub[p] # NoPublication
      BY <2>1 DEF CheckDraft, Upload, MarkPublished, NoPublication
    <3>. QED BY <3>1, <1>3, <1>t DEF DraftShape
  <2>2. ASSUME NEW d \in Drafts, PackDraft(p, d)
        PROVE  <1>5!1 /\ <1>5!2
    <3>1. packed' = [packed EXCEPT ![d] = [text |-> tree[d].text, version |-> tree[d].version]]
      BY <2>2 DEF PackDraft
    <3>2. tree[d].text \in Contents /\ tree[d].version \in Versions
      BY <2>2 DEF PackDraft, DraftShape
    <3>3. pub'[p] = NoPublication \/ pub'[p].draft = d
      BY <2>2, <1>t DEF PackDraft
    <3>. QED BY <3>1, <3>2, <3>3, <1>3, <1>t DEF DraftShape, Texts, Numbers
  <2>. QED BY <1>1, <2>1, <2>2
<1>6. /\ entry' \in [Drafts -> EntryRec]
      /\ \A d \in Drafts : entry'[d].in = entry[d].in
      /\ \A d \in Drafts : entry'[d].text = 0 <=> entry'[d].version = 0
  <2>1. CASE entry' = entry
    BY <2>1, <1>t DEF DraftShape, DraftTypeOK
  <2>2. CASE MarkPublished(p) /\ entry' # entry
    <3>1. PICK d \in Drafts : d = pub[p].draft
      BY <2>2, <1>t DEF MarkPublished, NoPublication
    <3>2. entry' = [entry EXCEPT ![d].text = pub[p].text, ![d].version = pub[p].version]
      BY <2>2, <3>1 DEF MarkPublished
    <3>3. pub[p].text \in Contents /\ pub[p].version \in Versions
      BY <2>2, <1>t DEF MarkPublished, NoPublication
    <3>4. entry[d] \in EntryRec
      BY <1>t
    <3>. QED BY <3>2, <3>3, <3>4, <1>t DEF EntryRec, Texts, Numbers, DraftShape, DraftTypeOK
  <2>. QED BY <1>1, <2>1, <2>2 DEF CheckDraft, Upload, PackDraft
<1>7. platform' \subseteq Release /\ raced' \subseteq Drafts
  <2>1. CASE Upload(p)
    <3>1. [draft |-> pub[p].draft, text |-> packed[pub[p].draft].text,
           version |-> packed[pub[p].draft].version] \in Release
      BY <2>1, <1>t DEF Upload, Release, NoPublication
    <3>. QED BY <2>1, <3>1 DEF Upload, DraftShape, DraftTypeOK
  <2>2. ASSUME NEW d \in Drafts, PackDraft(p, d)
        PROVE  <1>7!1 /\ <1>7!2
    BY <2>2 DEF PackDraft, DraftShape, DraftTypeOK
  <2>. QED BY <1>1, <2>1, <2>2 DEF CheckDraft, MarkPublished, DraftShape, DraftTypeOK
<1>8. DraftTypeOK'
  BY <1>2, <1>3, <1>4, <1>5, <1>6, <1>7
     DEF DraftShape, DraftTypeOK, EntryRec, Texts, Numbers
<1>. QED BY <1>2, <1>4, <1>5, <1>6, <1>8 DEF DraftShape, Texts, Numbers

\* Each effect of a creation or deletion leaves the directory where the next
\* one, or nobody, expects it.
LEMMA TreeStaysWithLock ==
  ASSUME DraftShape, TreeFollowsLock, TreeStep
  PROVE  TreeFollowsLock'
<1>1. PICK d \in Drafts :
        \/ MakeTree(d) \/ RecordDraft(d) \/ CreateDraftFails(d)
        \/ MoveToTrash(d) \/ Unrecord(d) \/ UnrecordFails(d) \/ EmptyTrash(d) \/ EmptyTrashFails(d)
        \/ EditTree(d)
  BY DEF TreeStep
<1>2. entry \in [Drafts -> EntryRec] /\ tree \in [Drafts -> TreeRec]
  BY DraftTypes
<1>3. torn \subseteq torn'
  BY <1>1 DEF MakeTree, RecordDraft, CreateDraftFails, MoveToTrash, Unrecord, UnrecordFails,
              EmptyTrash, EmptyTrashFails, EditTree, MoveBack
<1>4. SUFFICES ASSUME NEW e \in Drafts
               PROVE  /\ lock'.draft # e \/ lock' = Free =>
                           (entry'[e].in => tree'[e].at = "there" \/ (e \in torn' /\ tree'[e].at = "lost"))
                      /\ lock' = [op |-> "create", draft |-> e] => ~ entry'[e].in /\ tree'[e].at = "there"
                      /\ lock' = [op |-> "move", draft |-> e]   =>
                           entry'[e].in /\ (tree'[e].at = "trash" \/ (e \in torn' /\ tree'[e].at = "lost"))
                      /\ lock' = [op |-> "purge", draft |-> e]  =>
                           ~ entry'[e].in /\ (tree'[e].at = "trash" \/ (e \in torn' /\ tree'[e].at = "lost"))
  BY DEF TreeFollowsLock, Astray, Free
<1>5. /\ lock.draft # e \/ lock = Free =>
           (entry[e].in => tree[e].at = "there" \/ (e \in torn' /\ tree[e].at = "lost"))
      /\ lock = [op |-> "create", draft |-> e] => ~ entry[e].in /\ tree[e].at = "there"
      /\ lock = [op |-> "move", draft |-> e]   =>
           entry[e].in /\ (tree[e].at = "trash" \/ (e \in torn' /\ tree[e].at = "lost"))
      /\ lock = [op |-> "purge", draft |-> e]  =>
           ~ entry[e].in /\ (tree[e].at = "trash" \/ (e \in torn' /\ tree[e].at = "lost"))
  BY <1>3 DEF TreeFollowsLock, Astray, Free
<1>. USE <1>2, <1>5 DEF Free, EntryRec, TreeRec
<1>6. CASE MakeTree(d)          BY <1>6 DEF MakeTree
<1>7. CASE RecordDraft(d)       BY <1>7 DEF RecordDraft
<1>8. CASE CreateDraftFails(d)  BY <1>8 DEF CreateDraftFails
<1>9. CASE MoveToTrash(d)       BY <1>9 DEF MoveToTrash
<1>10. CASE Unrecord(d)         BY <1>10 DEF Unrecord
<1>11. CASE UnrecordFails(d)    BY <1>11 DEF UnrecordFails, MoveBack
<1>12. CASE EmptyTrash(d)       BY <1>12 DEF EmptyTrash
<1>13. CASE EmptyTrashFails(d)  BY <1>13 DEF EmptyTrashFails, MoveBack
<1>14. CASE EditTree(d)         BY <1>14 DEF EditTree
<1>. QED BY <1>1, <1>6, <1>7, <1>8, <1>9, <1>10, <1>11, <1>12, <1>13, <1>14

\* A publication that is the only one of its draft finds what it packed, and
\* records what it has sent.
LEMMA PublicationKeepsRecord ==
  ASSUME DraftShape, PublicationStep, RecordedWasPublished, PublicationKeepsFile
  PROVE  RecordedWasPublished' /\ PublicationKeepsFile'
<1>1. PICK p \in Publishers :
        \/ CheckDraft(p) \/ Upload(p) \/ MarkPublished(p)
        \/ \E d \in Drafts : PackDraft(p, d)
  BY DEF PublicationStep
<1>t. /\ entry \in [Drafts -> EntryRec] /\ packed \in [Drafts -> [text : Texts, version : Numbers]]
      /\ \A q \in Publishers : pub[q] # NoPublication => pub[q].draft \in Drafts
      /\ \A q \in Publishers : pub[q] \in [at : {"idle", "packed", "checked", "sent"}, draft : Drafts \cup {0},
                                           text : Texts, version : Numbers]
      /\ pub = [q \in Publishers |-> pub[q]]
  BY DraftTypes DEF DraftShape, DraftTypeOK, Texts, Numbers
<1>2. raced \subseteq raced' /\ platform \subseteq platform'
  BY <1>1 DEF CheckDraft, Upload, MarkPublished, PackDraft
<1>3. ASSUME NEW d \in Drafts \ raced'
      PROVE  entry'[d].text # 0 =>
               [draft |-> d, text |-> entry'[d].text, version |-> entry'[d].version] \in platform'
  <2>1. CASE entry'[d].text = entry[d].text /\ entry'[d].version = entry[d].version
    BY <2>1, <1>2 DEF RecordedWasPublished
  <2>2. CASE MarkPublished(p) /\ ~ (entry'[d].text = entry[d].text /\ entry'[d].version = entry[d].version)
    <3>1. PICK e \in Drafts : e = pub[p].draft
      BY <2>2, <1>t DEF MarkPublished, NoPublication
    <3>2. entry' = [entry EXCEPT ![e].text = pub[p].text, ![e].version = pub[p].version]
      BY <2>2, <3>1 DEF MarkPublished
    <3>3. e = d
      BY <2>2, <3>2, <1>t
    <3>4. [draft |-> d, text |-> pub[p].text, version |-> pub[p].version] \in platform
      <4>1. pub[p].at = "sent" /\ pub[p] # NoPublication /\ pub[p].draft = d /\ d \in Drafts \ raced
        BY <2>2, <3>1, <3>3, <1>2 DEF MarkPublished, NoPublication
      <4>. QED BY <4>1 DEF PublicationKeepsFile
    <3>. QED BY <3>2, <3>3, <3>4, <1>2, <1>t DEF EntryRec
  <2>. QED BY <1>1, <2>1, <2>2 DEF CheckDraft, Upload, PackDraft
<1>4. ASSUME NEW d \in Drafts \ raced', NEW q \in Publishers, pub'[q] # NoPublication, pub'[q].draft = d
      PROVE  /\ pub'[q].at \in {"packed", "checked"} =>
                  packed'[d] = [text |-> pub'[q].text, version |-> pub'[q].version]
             /\ pub'[q].at = "sent" =>
                  [draft |-> d, text |-> pub'[q].text, version |-> pub'[q].version] \in platform'
             /\ \A o \in Publishers : pub'[o] # NoPublication /\ pub'[o].draft = d => o = q
  <2>1. ASSUME pub[q] # NoPublication, pub[q].draft = d
        PROVE  /\ pub[q].at \in {"packed", "checked"} =>
                    packed[d] = [text |-> pub[q].text, version |-> pub[q].version]
               /\ pub[q].at = "sent" =>
                    [draft |-> d, text |-> pub[q].text, version |-> pub[q].version] \in platform
               /\ \A o \in Publishers : pub[o] # NoPublication /\ pub[o].draft = d => o = q
    BY <2>1, <1>2 DEF PublicationKeepsFile
  <2>2. CASE CheckDraft(p)
    <3>1. packed' = packed /\ platform' = platform
      BY <2>2 DEF CheckDraft
    <3>2. \/ pub' = [pub EXCEPT ![p] = NoPublication]
          \/ pub[p].at = "packed" /\ pub' = [pub EXCEPT ![p].at = "checked"]
      BY <2>2 DEF CheckDraft, PubEnds
    <3>3. pub[p] # NoPublication
      BY <2>2 DEF CheckDraft, NoPublication
    <3>. QED BY <3>1, <3>2, <3>3, <2>1, <1>4, <1>t
  <2>3. CASE Upload(p)
    <3>1. packed' = packed /\ pub[p] # NoPublication /\ pub[p].at = "checked"
      BY <2>3 DEF Upload, NoPublication
    <3>2. PICK file : file = packed[pub[p].draft]
      OBVIOUS
    <3>3. \/ pub' = [pub EXCEPT ![p] = NoPublication]
          \/ /\ pub' = [pub EXCEPT ![p].at = "sent", ![p].version = file.version]
             /\ [draft |-> pub[p].draft, text |-> file.text, version |-> file.version] \in platform'
      BY <2>3, <3>2 DEF Upload, PubEnds
    <3>4. \A o \in Publishers : pub'[o] # NoPublication => pub[o] # NoPublication /\ pub'[o].draft = pub[o].draft
      BY <3>1, <3>3, <1>t
    <3>5. CASE q # p
      BY <3>5, <3>1, <3>3, <3>4, <2>1, <1>2, <1>4, <1>t
    <3>6. CASE q = p
      <4>1. /\ pub'[p].at = "sent" /\ pub'[p].version = file.version /\ pub'[p].text = pub[p].text
            /\ pub'[p].draft = pub[p].draft
            /\ [draft |-> pub[p].draft, text |-> file.text, version |-> file.version] \in platform'
        <5>1. pub' # [pub EXCEPT ![p] = NoPublication]
          BY <3>6, <1>4, <1>t
        <5>2. pub[p] \in [at : {"idle", "packed", "checked", "sent"}, draft : Drafts \cup {0},
                          text : Texts, version : Numbers]
          BY <1>t
        <5>3. /\ pub' = [pub EXCEPT ![p].at = "sent", ![p].version = file.version]
              /\ [draft |-> pub[p].draft, text |-> file.text, version |-> file.version] \in platform'
          BY <3>3, <5>1
        <5>4. pub'[p] = [pub[p] EXCEPT !.at = "sent", !.version = file.version]
          BY <5>3, <1>t
        <5>. QED BY <5>2, <5>3, <5>4, ZenonT(60)
      <4>2. file = [text |-> pub[p].text, version |-> pub[p].version]
        BY <3>6, <3>1, <3>2, <4>1, <2>1, <1>4
      <4>. QED BY <3>6, <4>1, <4>2, <3>4, <2>1, <1>4
    <3>. QED BY <3>5, <3>6
  <2>4. CASE MarkPublished(p)
    <3>1. packed' = packed /\ platform' = platform
      BY <2>4 DEF MarkPublished
    <3>2. pub' = [pub EXCEPT ![p] = NoPublication]
      BY <2>4 DEF MarkPublished, PubEnds
    <3>. QED BY <3>1, <3>2, <2>1, <1>4, <1>t
  <2>5. CASE \E e \in Drafts : PackDraft(p, e)
    <3>0. PICK e \in Drafts : PackDraft(p, e)
      BY <2>5
    <3>1. /\ pub[p] = NoPublication /\ platform' = platform
          /\ packed' = [packed EXCEPT ![e] = [text |-> tree[e].text, version |-> tree[e].version]]
          /\ pub' = pub \/ pub' = [pub EXCEPT ![p] = [at |-> "packed", draft |-> e,
                                                     text |-> tree[e].text, version |-> tree[e].version]]
          /\ raced' = IF \E o \in Publishers : pub[o].draft = e THEN raced \cup {e} ELSE raced
      BY <3>0 DEF PackDraft
    <3>2. CASE d = e
      <4>1. \A o \in Publishers : pub[o].draft # e
        BY <3>1, <3>2
      <4>2. q = p
        BY <3>1, <3>2, <4>1, <1>4, <1>t
      <4>3. /\ packed'[d] = [text |-> tree[d].text, version |-> tree[d].version]
            /\ pub'[p] = [at |-> "packed", draft |-> d, text |-> tree[d].text, version |-> tree[d].version]
        BY <3>1, <3>2, <4>2, <1>4, <1>t
      <4>4. \A o \in Publishers : o # p => pub'[o].draft # d
        BY <3>1, <3>2, <4>1, <1>t
      <4>. QED BY <4>2, <4>3, <4>4
    <3>3. CASE d # e
      <4>1. q # p /\ pub'[q] = pub[q]
        BY <3>1, <3>3, <1>4, <1>t
      <4>. QED BY <3>1, <3>3, <4>1, <2>1, <1>4, <1>t
    <3>. QED BY <3>2, <3>3
  <2>. QED BY <1>1, <2>2, <2>3, <2>4, <2>5
<1>. QED BY <1>3, <1>4 DEF RecordedWasPublished, PublicationKeepsFile, NoPublication

\* The end of the application forgets the publications and lets go of the lock.
LEMMA CrashKeepsDrafts ==
  ASSUME DraftInv, CrashDrafts
  PROVE  DraftInv'
<1>1. /\ UNCHANGED <<entry, packed, platform, raced>>
      /\ lock' = Free /\ pub' = [p \in Publishers |-> NoPublication]
      /\ tree' = [d \in Drafts |-> [tree[d] EXCEPT !.at = IF @ = "trash" THEN "lost" ELSE @]]
      /\ torn' = IF lock = Free THEN torn ELSE torn \cup {lock.draft}
  BY DEF CrashDrafts
<1>t. tree \in [Drafts -> TreeRec]
  BY DraftTypes DEF DraftInv
<1>e. \A d \in Drafts : /\ tree'[d] \in TreeRec
                        /\ tree'[d].text = tree[d].text /\ tree'[d].version = tree[d].version
                        /\ tree'[d].at = IF tree[d].at = "trash" THEN "lost" ELSE tree[d].at
  BY <1>1, <1>t DEF TreeRec
<1>f. tree' \in [Drafts -> TreeRec]
  BY <1>1, <1>e
<1>2. DraftShape'
  <2>1. torn' \subseteq Drafts
    BY <1>1 DEF DraftInv, DraftShape, DraftTypeOK, Free
  <2>2. \A d \in Drafts : tree'[d].at # "new" => tree'[d].text \in Contents /\ tree'[d].version \in Versions
    BY <1>e DEF DraftInv, DraftShape
  <2>3. DraftTypeOK'
    BY <1>1, <1>f, <2>1 DEF DraftInv, DraftShape, DraftTypeOK, NoPublication, Free, TreeRec, Texts, Numbers
  <2>. QED BY <1>1, <2>2, <2>3 DEF DraftInv, DraftShape, NoPublication, Free
<1>3. TreeFollowsLock'
  <2>1. ASSUME NEW d \in Drafts, entry[d].in, lock # Free, lock.draft = d, tree'[d].at # "there"
        PROVE  d \in torn' /\ tree'[d].at = "lost"
    <3>1. \E o \in {"create", "move", "purge"} : lock = [op |-> o, draft |-> d]
      BY <2>1 DEF DraftInv, DraftShape, DraftTypeOK
    <3>. QED BY <2>1, <3>1, <1>1, <1>e DEF DraftInv, TreeFollowsLock, Astray
  <2>2. ASSUME NEW d \in Drafts, entry[d].in, lock = Free \/ lock.draft # d, tree'[d].at # "there"
        PROVE  d \in torn' /\ tree'[d].at = "lost"
    BY <2>2, <1>1, <1>e DEF DraftInv, TreeFollowsLock, Astray
  <2>. QED BY <1>1, <2>1, <2>2 DEF TreeFollowsLock, Astray, Free
<1>. QED BY <1>1, <1>2, <1>3 DEF DraftInv, RecordedWasPublished, PublicationKeepsFile, NoPublication

\* Every step keeps the invariant of the drafts.
LEMMA DraftInvStep ==
  ASSUME DraftInv, [DraftNext]_draftVars
  PROVE  DraftInv'
<1>1. CASE TreeStep
  <2>1. UNCHANGED <<packed, pub, platform, raced>>
        /\ \A e \in Drafts : entry'[e].text = entry[e].text /\ entry'[e].version = entry[e].version
    <3>1. PICK d \in Drafts :
            \/ MakeTree(d) \/ RecordDraft(d) \/ CreateDraftFails(d)
            \/ MoveToTrash(d) \/ Unrecord(d) \/ UnrecordFails(d) \/ EmptyTrash(d) \/ EmptyTrashFails(d)
            \/ EditTree(d)
      BY <1>1 DEF TreeStep
    <3>2. entry \in [Drafts -> EntryRec]
      BY DraftTypes DEF DraftInv
    <3>. QED BY <3>1, <3>2 DEF MakeTree, RecordDraft, CreateDraftFails, MoveToTrash, Unrecord,
                 UnrecordFails, EmptyTrash, EmptyTrashFails, EditTree, pubVars, EntryRec
  <2>2. RecordedWasPublished' /\ PublicationKeepsFile'
    BY <2>1 DEF DraftInv, RecordedWasPublished, PublicationKeepsFile, NoPublication
  <2>. QED BY <1>1, <2>2, TreeKeepsShape, TreeStaysWithLock DEF DraftInv
<1>2. CASE PublicationStep
  <2>1. DraftShape' /\ UNCHANGED <<tree, lock, torn>> /\ \A d \in Drafts : entry'[d].in = entry[d].in
    BY <1>2, PublicationKeepsShape DEF DraftInv
  <2>2. TreeFollowsLock'
    BY <2>1 DEF DraftInv, TreeFollowsLock, Astray, Free
  <2>. QED BY <1>2, <2>1, <2>2, PublicationKeepsRecord DEF DraftInv
<1>3. CASE CrashDrafts
  BY <1>3, CrashKeepsDrafts
<1>4. CASE UNCHANGED draftVars
  BY <1>4 DEF draftVars, DraftInv, DraftShape, DraftTypeOK, TreeFollowsLock, Astray, RecordedWasPublished,
              PublicationKeepsFile, Free, NoPublication
<1>. QED BY <1>1, <1>2, <1>3, <1>4 DEF DraftNext, TreeStep, PublicationStep

LEMMA DraftInvariant == DraftSpec => []DraftInv
BY DraftShapeAtStart, DraftInvStep, PTL DEF DraftSpec

\* The ledger of the drafts, their directories, the lock and the publications
\* keep to their types.
THEOREM DraftTypeCorrect == DraftSpec => []DraftTypeOK
BY DraftInvariant, PTL DEF DraftInv, DraftShape

\* Whenever nobody holds the lock a draft in the ledger has its files: in its
\* directory, or in the trash of a deletion during which the application ended
\* or that could not move them back (create_workspace, delete_workspace).
THEOREM DraftsKeepTrees == DraftSpec => []DraftsHaveTrees
<1>1. DraftInv => DraftsHaveTrees
  BY DEF DraftInv, TreeFollowsLock, Astray, DraftsHaveTrees
<1>. QED BY <1>1, DraftInvariant, PTL

\* What the ledger calls published was published as it says, unless two
\* publications of the draft were under way together
\* (publish_draft_workspace, mark_workspace_published).
THEOREM RecordIsTrue == DraftSpec => []RecordedWasPublished
BY DraftInvariant, PTL DEF DraftInv

\* No step lowers the published version of a draft, or records under a new
\* version the content it has already.
THEOREM PublishedVersionsRise == DraftSpec => VersionsRise
<1>1. ASSUME DraftInv, [DraftNext]_draftVars
      PROVE  [\A d \in Drafts :
                entry'[d].version # entry[d].version \/ entry'[d].text # entry[d].text =>
                  entry'[d].version > entry[d].version /\ entry'[d].text # entry[d].text]_draftVars
  <2>t. entry \in [Drafts -> EntryRec]
    BY <1>1, DraftTypes DEF DraftInv
  <2>1. ASSUME NEW d \in Drafts, entry'[d].version # entry[d].version \/ entry'[d].text # entry[d].text
        PROVE  entry'[d].version > entry[d].version /\ entry'[d].text # entry[d].text
    <3>1. PICK p \in Publishers : MarkPublished(p)
      <4>1. ~ TreeStep
        <5>1. ASSUME NEW f \in Drafts,
                     \/ MakeTree(f) \/ RecordDraft(f) \/ CreateDraftFails(f)
                     \/ MoveToTrash(f) \/ Unrecord(f) \/ UnrecordFails(f) \/ EmptyTrash(f) \/ EmptyTrashFails(f)
                     \/ EditTree(f)
              PROVE  entry' = entry \/ \E back \in BOOLEAN : entry' = [entry EXCEPT ![f].in = back]
          BY <5>1 DEF MakeTree, RecordDraft, CreateDraftFails, MoveToTrash, Unrecord, UnrecordFails,
                      EmptyTrash, EmptyTrashFails, EditTree
        <5>. QED BY <5>1, <2>1, <2>t DEF TreeStep, EntryRec
      <4>2. \A p \in Publishers : CheckDraft(p) \/ Upload(p) \/ (\E f \in Drafts : PackDraft(p, f)) => entry' = entry
        BY DEF CheckDraft, Upload, PackDraft
      <4>3. CrashDrafts \/ UNCHANGED draftVars => entry' = entry
        BY DEF CrashDrafts, draftVars
      <4>. QED BY <1>1, <2>1, <4>1, <4>2, <4>3 DEF DraftNext, TreeStep
    <3>2. PICK e : e = pub[p].draft
      OBVIOUS
    <3>3. /\ entry' = [entry EXCEPT ![e].text = pub[p].text, ![e].version = pub[p].version]
          /\ pub[p].text # entry[e].text /\ pub[p].version > entry[e].version
      BY <2>1, <3>1, <3>2 DEF MarkPublished, Publishable
    <3>4. e = d
      BY <2>1, <3>3, <2>t
    <3>. QED BY <3>3, <3>4, <2>t DEF EntryRec
  <2>. QED BY <2>1
<1>. QED BY <1>1, DraftInvariant, PTL DEF DraftSpec, VersionsRise

-----------------------------------------------------------------------------
(* The migration of the old layout: the strengthening                      *)

\* A directory is looked at once in a start, when it is in its old place and
\* the journal does not have it; each branch of the migration keeps to drafts
\* or to the others, and so do the two ledgers.
MigrationShape ==
  /\ MigrationTypeOK
  /\ \A n \in left : place[n] = "old" /\ n \notin done /\ now.dir # n
  /\ now.dir \notin done
  /\ now.at \in {"moved", "listed"} => now.dir \in Drafty
  /\ now.at \in {"staged", "installed", "copied"} => now.dir \notin Drafty
  /\ \A p \in PluginIds : active[p] \notin Drafty /\ pending[p] \notin Drafty

Unknown(n)     == n \notin listed \cup done /\ ~ Installed(n)
Untouched(n)   == place[n] = "old" /\ Unknown(n)
AsDraft(n)     == n \in listed /\ place[n] = "draft"
AsInstalled(n) == Installed(n) /\ DataKept(n, IdOf[n])

\* What is true of the directory that is being migrated, at each effect.  It
\* may have been installed before, by a start that could not write its journal.
OnItsWay(n) ==
  /\ now.at \in {"look", "failure"} => Untouched(n) \/ AsInstalled(n)
  /\ now.at = "moved"     => Unknown(n) /\ place[n] = "draft"
  /\ now.at = "listed"    => AsDraft(n)
  /\ now.at = "staged"    => Unknown(n) \/ AsInstalled(n)
  /\ now.at = "installed" => Installed(n) /\ n \notin listed
  /\ now.at = "copied"    => AsInstalled(n)
  /\ now.at = "success"   => AsDraft(n) \/ AsInstalled(n)

EachIsAccounted ==
  \A n \in Dirs \ (botched \cup removed) :
    IF now.dir = n THEN OnItsWay(n) ELSE Untouched(n) \/ AsDraft(n) \/ AsInstalled(n)

NewerKeepsData == \A p \in PluginIds : active[p] = Newer => DataKept(Newer, p)

MigrationInv == MigrationShape /\ EachIsAccounted /\ NewerKeepsData

LEMMA MigrationAtStart == MigrationInit => MigrationInv
BY MigrationAssumption
   DEF MigrationInit, MigrationInv, MigrationShape, MigrationTypeOK, EachIsAccounted, Untouched,
       Unknown, Installed, Resting, Slots, NewerKeepsData, DataKept

\* The steps of one directory: as it is taken and noted, and as a draft or an
\* installation.
TakenOrNoted(n)   == Take(n) \/ Refused(n) \/ Note(n) \/ NoteFails(n)
DraftMoves(n)     == \/ MoveDraft(n) \/ ListDraft(n) \/ ListDraftFails(n)
                     \/ CleanDraft(n) \/ CleanDraftFails(n)
InstallMoves(n)   == \/ StageOld(n) \/ InstallOld(n) \/ InstallOldFails(n)
                     \/ CopyData(n) \/ CopyDataFails(n) \/ DropOld(n)

\* A copy keeps to the types of the data, and every file of another release
\* stays or is noted as replaced.
LEMMA CopyKeepsOthers ==
  ASSUME MigrationTypeOK, NEW n \in Dirs, NEW files \in SUBSET FilesOf[n], Copy(n, files)
  PROVE  /\ data' \in [PluginIds -> [DataFiles -> Slots]]
         /\ overlaid' \subseteq (Dirs \cup {Newer}) \X PluginIds \X DataFiles
         /\ \A o \in Dirs \cup {Newer}, p \in PluginIds : DataKept(o, p) => DataKept(o, p)'
<1>. USE MigrationAssumption
<1>t. data \in [PluginIds -> [DataFiles -> Slots]] /\ IdOf[n] \in PluginIds /\ files \subseteq DataFiles
  BY DEF MigrationTypeOK
<1>1. /\ data' = [data EXCEPT ![IdOf[n]] = [f \in DataFiles |-> IF f \in files THEN n ELSE data[IdOf[n]][f]]]
      /\ overlaid \subseteq overlaid'
      /\ \A f \in files : data[IdOf[n]][f] \notin {0, n} => <<data[IdOf[n]][f], IdOf[n], f>> \in overlaid'
  BY DEF Copy
<1>2. data' \in [PluginIds -> [DataFiles -> Slots]]
  BY <1>t, <1>1 DEF Slots
<1>3. overlaid' \subseteq (Dirs \cup {Newer}) \X PluginIds \X DataFiles
  <2>1. ASSUME NEW f \in files, data[IdOf[n]][f] \notin {0, n}
        PROVE  <<data[IdOf[n]][f], IdOf[n], f>> \in (Dirs \cup {Newer}) \X PluginIds \X DataFiles
    BY <2>1, <1>t DEF Slots
  <2>. QED BY <2>1 DEF Copy, MigrationTypeOK
<1>4. ASSUME NEW o \in Dirs \cup {Newer}, NEW p \in PluginIds, DataKept(o, p), NEW f \in FilesOf[o]
      PROVE  data'[p][f] = o \/ <<o, p, f>> \in overlaid'
  <2>1. f \in DataFiles /\ o # 0
    OBVIOUS
  <2>2. data[p][f] = o \/ <<o, p, f>> \in overlaid
    BY <1>4 DEF DataKept
  <2>3. CASE p = IdOf[n] /\ f \in files /\ data[p][f] = o
    <3>1. data'[p][f] = n
      BY <2>1, <2>3, <1>1, <1>t
    <3>. QED BY <2>1, <2>3, <3>1, <1>1
  <2>4. CASE ~ (p = IdOf[n] /\ f \in files)
    <3>1. data'[p][f] = data[p][f]
      BY <2>1, <2>4, <1>1, <1>t
    <3>. QED BY <2>2, <3>1, <1>1
  <2>5. CASE <<o, p, f>> \in overlaid
    BY <2>5, <1>1
  <2>. QED BY <2>2, <2>3, <2>4, <2>5
<1>. QED BY <1>2, <1>3, <1>4 DEF DataKept

\* A whole copy brings all its files.
LEMMA CopyBringsAll ==
  ASSUME MigrationTypeOK, NEW n \in Dirs, Copy(n, FilesOf[n])
  PROVE  DataKept(n, IdOf[n])'
<1>1. \A f \in FilesOf[n] : data'[IdOf[n]][f] = n
  BY MigrationAssumption DEF Copy, MigrationTypeOK
<1>. QED BY <1>1 DEF DataKept

\* The data of a package changes by a copy, of all files or a part, and goes
\* with the installation.
LEMMA DataSteps ==
  ASSUME MigrationTypeOK, [MigrationNext]_migrationVars
  PROVE  \/ UNCHANGED <<data, overlaid>>
         \/ /\ \E n \in Dirs : \E files \in SUBSET FilesOf[n] : Copy(n, files)
            /\ UNCHANGED <<active, pending>>
         \/ UNCHANGED overlaid /\ \E p \in PluginIds : UserUninstalls(p)
<1>. USE DEF instVars
<1>1. CASE AppStarts
  BY <1>1 DEF AppStarts
<1>2. CASE EndsEarly
  <2>1. now.dir \in Dirs
    BY <1>2 DEF EndsEarly, MigrationTypeOK
  <2>. QED BY <1>2, <2>1 DEF EndsEarly
<1>3. CASE UserActs
  BY <1>3 DEF UserActs
<1>4. ASSUME NEW n \in Dirs, TakenOrNoted(n) \/ DraftMoves(n)
      PROVE  UNCHANGED <<data, overlaid>>
  BY <1>4 DEF TakenOrNoted, Take, Refused, Note, NoteFails,
              DraftMoves, MoveDraft, ListDraft, ListDraftFails, CleanDraft, CleanDraftFails
<1>5. ASSUME NEW n \in Dirs, StageOld(n) \/ InstallOld(n) \/ InstallOldFails(n) \/ DropOld(n)
      PROVE  UNCHANGED <<data, overlaid>>
  BY <1>5 DEF StageOld, InstallOld, InstallOldFails, DropOld
<1>6. ASSUME NEW n \in Dirs, CopyData(n)
      PROVE  /\ \E files \in SUBSET FilesOf[n] : Copy(n, files)
             /\ UNCHANGED <<active, pending>>
  BY <1>6 DEF CopyData
<1>7. ASSUME NEW n \in Dirs, CopyDataFails(n)
      PROVE  \/ /\ \E files \in SUBSET FilesOf[n] : Copy(n, files)
                /\ UNCHANGED <<active, pending>>
             \/ UNCHANGED overlaid /\ UserUninstalls(IdOf[n])
  BY <1>7 DEF CopyDataFails
<1>8. CASE UNCHANGED migrationVars
  BY <1>8 DEF migrationVars
<1>. QED BY <1>1, <1>2, <1>3, <1>4, <1>5, <1>6, <1>7, <1>8, MigrationAssumption
     DEF MigrationNext, TakenOrNoted, DraftMoves

\* What is kept of a release's data stays, as long as the package is installed.
LEMMA KeptStays ==
  ASSUME MigrationTypeOK, [MigrationNext]_migrationVars,
         NEW o \in Dirs \cup {Newer}, NEW p \in PluginIds, DataKept(o, p)
  PROVE  DataKept(o, p)' \/ (active'[p] = 0 /\ pending'[p] = 0)
<1>1. CASE UNCHANGED <<data, overlaid>>
  BY <1>1 DEF DataKept
<1>2. CASE \E n \in Dirs : \E files \in SUBSET FilesOf[n] : Copy(n, files)
  BY <1>2, CopyKeepsOthers
<1>3. CASE UNCHANGED overlaid /\ \E r \in PluginIds : UserUninstalls(r)
  <2>1. PICK r \in PluginIds : UserUninstalls(r)
    BY <1>3
  <2>2. CASE r = p
    BY <2>1, <2>2 DEF UserUninstalls, MigrationTypeOK
  <2>3. CASE r # p
    <3>1. data'[p] = data[p] /\ overlaid' = overlaid
      BY <1>3, <2>1, <2>3 DEF UserUninstalls, MigrationTypeOK
    <3>. QED BY <3>1 DEF DataKept
  <2>. QED BY <2>2, <2>3
<1>. QED BY <1>1, <1>2, <1>3, DataSteps

\* The release the user had before is never installed by a step.
LEMMA NewerStaysKept ==
  ASSUME MigrationShape, NewerKeepsData, [MigrationNext]_migrationVars
  PROVE  NewerKeepsData'
<1>1. SUFFICES ASSUME NEW p \in PluginIds, active'[p] = Newer
               PROVE  DataKept(Newer, p)'
  BY DEF NewerKeepsData
<1>2. active[p] = Newer
  BY <1>1, MigrationAssumption
     DEF MigrationShape, MigrationTypeOK, MigrationNext, migrationVars, instVars, AppStarts, EndsEarly,
         UserActs, UserUninstalls, Take, Refused, Note, NoteFails, MoveDraft, ListDraft, ListDraftFails,
         CleanDraft, CleanDraftFails, StageOld, InstallOld, InstallOldFails, CopyData, CopyDataFails, DropOld
<1>. QED BY <1>1, <1>2, KeptStays, MigrationAssumption DEF NewerKeepsData, MigrationShape

\* What of it is about the slots of installations, which an installation writes.
InstalledShape ==
  /\ active \in [PluginIds -> Slots] /\ pending \in [PluginIds -> Dirs \cup {0}]
  /\ \A r \in PluginIds : pending[r] # 0 => active[r] # 0 /\ active[r] # pending[r]
  /\ \A r \in PluginIds : active[r] \notin Drafty /\ pending[r] \notin Drafty

LEMMA InstallOldKeepsSlots ==
  ASSUME MigrationShape, NEW n \in Dirs, InstallOld(n)
  PROVE  InstalledShape'
<1>1. InstalledShape
  BY DEF InstalledShape, MigrationShape, MigrationTypeOK
<1>2. n \notin Drafty
  BY DEF InstallOld, In, MigrationShape
<1>3. IdOf[n] \in PluginIds /\ n # 0 /\ n \in Slots
  BY MigrationAssumption DEF Slots
<1>4. /\ pending[IdOf[n]] = 0 /\ active[IdOf[n]] # n
      /\ \/ active[IdOf[n]] = 0 /\ pending' = pending /\ active' = [active EXCEPT ![IdOf[n]] = n]
         \/ active[IdOf[n]] # 0 /\ active' = active /\ pending' = [pending EXCEPT ![IdOf[n]] = n]
  BY DEF InstallOld
<1>5. active' \in [PluginIds -> Slots] /\ pending' \in [PluginIds -> Dirs \cup {0}]
  BY <1>1, <1>3, <1>4 DEF InstalledShape
<1>6. ASSUME NEW r \in PluginIds
      PROVE  /\ pending'[r] # 0 => active'[r] # 0 /\ active'[r] # pending'[r]
             /\ active'[r] \notin Drafty /\ pending'[r] \notin Drafty
  BY <1>1, <1>2, <1>3, <1>4 DEF InstalledShape
<1>. QED BY <1>5, <1>6 DEF InstalledShape

\* Nothing of it changes the type of a variable, looks twice at a directory in
\* one start, or puts a draft where an installation belongs.
LEMMA MigrationShapeStep ==
  ASSUME MigrationShape, [MigrationNext]_migrationVars
  PROVE  MigrationShape'
<1>. USE MigrationAssumption
     DEF MigrationShape, MigrationTypeOK, Resting, Slots, Stages, In, GoTo, BotchedIf, instVars
<1>d. /\ data' \in [PluginIds -> [DataFiles -> Slots]]
      /\ overlaid' \subseteq (Dirs \cup {Newer}) \X PluginIds \X DataFiles
  <2>1. ASSUME NEW p \in PluginIds, UserUninstalls(p), UNCHANGED overlaid
        PROVE  <1>d!1 /\ <1>d!2
    BY <2>1 DEF UserUninstalls
  <2>2. ASSUME NEW n \in Dirs, NEW files \in SUBSET FilesOf[n], Copy(n, files)
        PROVE  <1>d!1 /\ <1>d!2
    BY <2>2, CopyKeepsOthers
  <2>. QED BY <2>1, <2>2, DataSteps
<1>. USE <1>d
<1>1. CASE AppStarts
  BY <1>1 DEF AppStarts, Candidates
<1>2. CASE EndsEarly
  BY <1>2 DEF EndsEarly
<1>3. CASE UserActs
  <2>1. ASSUME NEW p \in PluginIds, pending[p] # 0,
               active' = [active EXCEPT ![p] = pending[p]], pending' = [pending EXCEPT ![p] = 0]
        PROVE  /\ active' \in [PluginIds -> Slots] /\ pending' \in [PluginIds -> Dirs \cup {0}]
               /\ \A r \in PluginIds : pending'[r] # 0 => active'[r] # 0 /\ active'[r] # pending'[r]
               /\ \A r \in PluginIds : active'[r] \notin Drafty /\ pending'[r] \notin Drafty
    BY <2>1
  <2>2. ASSUME NEW p \in PluginIds, UserUninstalls(p)
        PROVE  /\ active' \in [PluginIds -> Slots] /\ pending' \in [PluginIds -> Dirs \cup {0}]
               /\ \A r \in PluginIds : pending'[r] # 0 => active'[r] # 0 /\ active'[r] # pending'[r]
               /\ \A r \in PluginIds : active'[r] \notin Drafty /\ pending'[r] \notin Drafty
    BY <2>2 DEF UserUninstalls
  <2>3. ASSUME NEW n \in listed, place' = [place EXCEPT ![n] = IF @ = "draft" THEN "gone" ELSE @]
        PROVE  place' \in [Dirs -> {"old", "draft", "staged", "gone"}]
    BY <2>3
  <2>. QED BY <1>3, <2>1, <2>2, <2>3 DEF UserActs
<1>4. ASSUME NEW n \in Dirs, TakenOrNoted(n)
      PROVE  MigrationShape'
  BY <1>4 DEF TakenOrNoted, Take, Refused, Note, NoteFails
<1>5. ASSUME NEW n \in Dirs, DraftMoves(n)
      PROVE  MigrationShape'
  BY <1>5 DEF DraftMoves, MoveDraft, ListDraft, ListDraftFails, CleanDraft, CleanDraftFails
<1>6. ASSUME NEW n \in Dirs, InstallMoves(n)
      PROVE  MigrationShape'
  <2>1. CASE StageOld(n) \/ InstallOldFails(n) \/ DropOld(n)
    BY <2>1 DEF StageOld, InstallOldFails, DropOld
  <2>4. CASE InstallOld(n)
    <3>1. /\ now' = [at |-> "installed", dir |-> n] /\ n \notin Drafty
          /\ UNCHANGED <<place, listed, data, done, failed, left, starts, botched, removed, overlaid>>
      BY <2>4 DEF InstallOld
    <3>3. InstalledShape'
      BY <2>4, InstallOldKeepsSlots
    <3>4. MigrationTypeOK'
      <4>1. /\ active' \in [PluginIds -> Slots] /\ pending' \in [PluginIds -> Dirs \cup {0}]
            /\ \A r \in PluginIds : pending'[r] # 0 => active'[r] # 0 /\ active'[r] # pending'[r]
        BY <3>3 DEF InstalledShape
      <4>. QED BY <3>1, <4>1
    <3>5. \A r \in PluginIds : active'[r] \notin Drafty /\ pending'[r] \notin Drafty
      BY <3>3 DEF InstalledShape
    <3>6. /\ \A m \in left' : place'[m] = "old" /\ m \notin done' /\ now'.dir # m
          /\ now'.dir \notin done'
      BY <2>4, <3>1 DEF InstallOld
    <3>. QED BY <3>1, <3>4, <3>5, <3>6
  <2>2. CASE CopyData(n)
    BY <2>2 DEF CopyData
  <2>3. CASE CopyDataFails(n)
    <3>1. /\ active' \in [PluginIds -> Slots] /\ pending' \in [PluginIds -> Dirs \cup {0}]
          /\ \A r \in PluginIds : (active'[r] = active[r] /\ pending'[r] = pending[r])
                                 \/ (active'[r] = 0 /\ pending'[r] = 0)
      <4>1. CASE UNCHANGED <<active, pending>>
        BY <4>1
      <4>2. CASE UserUninstalls(IdOf[n])
        BY <4>2 DEF UserUninstalls
      <4>. QED BY <2>3, <4>1, <4>2 DEF CopyDataFails
    <3>2. now' = [at |-> "failure", dir |-> n] /\ botched' \subseteq Dirs /\ removed' \subseteq Dirs
      BY <2>3 DEF CopyDataFails
    <3>3. place' \in [Dirs -> {"old", "draft", "staged", "gone"}] /\ now = [at |-> "installed", dir |-> n]
      BY <2>3 DEF CopyDataFails
    <3>4. UNCHANGED <<listed, done, failed, left, starts>> /\ \A m \in Dirs \ {n} : place'[m] = place[m]
      BY <2>3 DEF CopyDataFails
    <3>. QED BY <3>1, <3>2, <3>3, <3>4
  <2>. QED BY <1>6, <2>1, <2>2, <2>3, <2>4 DEF InstallMoves
<1>7. CASE UNCHANGED migrationVars
  BY <1>7 DEF migrationVars
<1>. QED BY <1>1, <1>2, <1>3, <1>4, <1>5, <1>6, <1>7
     DEF MigrationNext, TakenOrNoted, DraftMoves, InstallMoves

\* A step about one directory leaves every other one as it is, but for the
\* installation that goes with the failed copy of its data.
LEMMA OthersStayAccounted ==
  ASSUME MigrationInv, NEW n \in Dirs, DraftMoves(n) \/ InstallMoves(n) \/ TakenOrNoted(n),
         NEW m \in Dirs \ (botched' \cup removed'), m # n
  PROVE  now'.dir # m /\ (Untouched(m)' \/ AsDraft(m)' \/ AsInstalled(m)')
<1>. USE MigrationAssumption DEF Resting, In, GoTo, BotchedIf, instVars
<1>1. now.dir # m /\ now'.dir # m /\ m \notin botched \cup removed
  BY DEF DraftMoves, InstallMoves, TakenOrNoted, Take, Refused, Note, NoteFails,
     MoveDraft, ListDraft, ListDraftFails, CleanDraft, CleanDraftFails,
     StageOld, InstallOld, InstallOldFails, CopyData, CopyDataFails, DropOld
<1>2. Untouched(m) \/ AsDraft(m) \/ AsInstalled(m)
  BY <1>1 DEF MigrationInv, EachIsAccounted
<1>3. MigrationTypeOK
  BY DEF MigrationInv, MigrationShape
<1>k. DataKept(m, IdOf[m]) => DataKept(m, IdOf[m])' \/ (active'[IdOf[m]] = 0 /\ pending'[IdOf[m]] = 0)
  BY <1>3, KeptStays DEF MigrationNext, DraftMoves, InstallMoves, TakenOrNoted
<1>4. CASE TakenOrNoted(n)
  BY <1>1, <1>2, <1>k, <1>4 DEF TakenOrNoted, Take, Refused, Note, NoteFails,
     Untouched, Unknown, AsDraft, AsInstalled, Installed
<1>5. CASE DraftMoves(n)
  BY <1>1, <1>2, <1>3, <1>k, <1>5 DEF DraftMoves, MoveDraft, ListDraft, ListDraftFails, CleanDraft,
     CleanDraftFails, Untouched, Unknown, AsDraft, AsInstalled, Installed, MigrationTypeOK
<1>6. CASE StageOld(n) \/ InstallOldFails(n) \/ DropOld(n)
  BY <1>1, <1>2, <1>3, <1>k, <1>6 DEF StageOld, InstallOldFails, DropOld,
     Untouched, Unknown, AsDraft, AsInstalled, Installed, MigrationTypeOK
<1>7. CASE InstallOld(n)
  BY <1>1, <1>2, <1>3, <1>k, <1>7 DEF InstallOld,
     Untouched, Unknown, AsDraft, AsInstalled, Installed, MigrationTypeOK
<1>8. CASE CopyData(n)
  BY <1>1, <1>2, <1>3, <1>k, <1>8 DEF CopyData,
     Untouched, Unknown, AsDraft, AsInstalled, Installed, MigrationTypeOK
<1>9. CASE CopyDataFails(n)
  BY <1>1, <1>2, <1>3, <1>k, <1>9 DEF CopyDataFails, UserUninstalls,
     Untouched, Unknown, AsDraft, AsInstalled, Installed, MigrationTypeOK
<1>. QED BY <1>4, <1>5, <1>6, <1>7, <1>8, <1>9 DEF InstallMoves

\* A directory that becomes a draft.
LEMMA DraftStaysAccounted ==
  ASSUME MigrationInv, NEW n \in Dirs \ (botched' \cup removed'), DraftMoves(n)
  PROVE  now'.dir = n /\ OnItsWay(n)'
<1>. USE MigrationAssumption DEF In, GoTo, BotchedIf, instVars, OnItsWay, Untouched, Unknown, AsDraft,
     AsInstalled, Installed
<1>1. now.dir = n /\ n \notin botched \cup removed /\ n \notin done
  BY DEF DraftMoves, MoveDraft, ListDraft, ListDraftFails, CleanDraft, CleanDraftFails,
         MigrationInv, MigrationShape
<1>2. OnItsWay(n) /\ MigrationTypeOK
  BY <1>1 DEF MigrationInv, EachIsAccounted, MigrationShape
<1>k. DataKept(n, IdOf[n]) => DataKept(n, IdOf[n])' \/ (active'[IdOf[n]] = 0 /\ pending'[IdOf[n]] = 0)
  BY <1>2, KeptStays DEF MigrationNext, DraftMoves
<1>3. now.at \in {"moved", "listed"} \/ n \in Drafty => ~ Installed(n)
  BY <1>1 DEF MigrationInv, MigrationShape, MigrationTypeOK
<1>4. CASE MoveDraft(n)
  BY <1>1, <1>2, <1>3, <1>k, <1>4 DEF MoveDraft, MigrationTypeOK
<1>5. CASE ListDraft(n)
  BY <1>1, <1>2, <1>3, <1>k, <1>5 DEF ListDraft
<1>6. CASE ListDraftFails(n)
  BY <1>1, <1>2, <1>3, <1>k, <1>6 DEF ListDraftFails, MigrationTypeOK
<1>7. CASE CleanDraft(n)
  BY <1>1, <1>2, <1>3, <1>k, <1>7 DEF CleanDraft
<1>8. CASE CleanDraftFails(n)
  BY <1>1, <1>2, <1>3, <1>k, <1>8 DEF CleanDraftFails, MigrationTypeOK
<1>. QED BY <1>4, <1>5, <1>6, <1>7, <1>8 DEF DraftMoves

\* A directory that becomes an installation.
LEMMA InstallationStaysAccounted ==
  ASSUME MigrationInv, NEW n \in Dirs \ (botched' \cup removed'), InstallMoves(n)
  PROVE  now'.dir = n /\ OnItsWay(n)'
<1>. USE MigrationAssumption DEF In, GoTo, BotchedIf, instVars, OnItsWay, Untouched, Unknown, AsDraft,
     AsInstalled, Installed
<1>1. now.dir = n /\ n \notin botched \cup removed /\ n \notin done
  BY DEF InstallMoves, StageOld, InstallOld, InstallOldFails, CopyData, CopyDataFails, DropOld,
         MigrationInv, MigrationShape
<1>2. OnItsWay(n) /\ MigrationTypeOK
  BY <1>1 DEF MigrationInv, EachIsAccounted, MigrationShape
<1>k. DataKept(n, IdOf[n]) => DataKept(n, IdOf[n])' \/ (active'[IdOf[n]] = 0 /\ pending'[IdOf[n]] = 0)
  BY <1>2, KeptStays DEF MigrationNext, InstallMoves
<1>3. now.at \in {"staged", "installed", "copied"} \/ n \notin Drafty => n \notin listed
  BY <1>1, <1>2 DEF MigrationInv, MigrationShape, MigrationTypeOK
<1>4. CASE StageOld(n)
  BY <1>1, <1>2, <1>3, <1>k, <1>4 DEF StageOld, MigrationTypeOK
<1>5. CASE InstallOld(n)
  BY <1>1, <1>2, <1>3, <1>k, <1>5 DEF InstallOld, MigrationTypeOK
<1>6. CASE InstallOldFails(n)
  BY <1>1, <1>2, <1>3, <1>k, <1>6 DEF InstallOldFails, MigrationTypeOK
<1>7. CASE CopyData(n)
  BY <1>1, <1>2, <1>3, <1>7, CopyBringsAll DEF CopyData, MigrationTypeOK
<1>8. CASE CopyDataFails(n)
  BY <1>1, <1>2, <1>3, <1>k, <1>8 DEF CopyDataFails, UserUninstalls, MigrationTypeOK
<1>9. CASE DropOld(n)
  BY <1>1, <1>2, <1>3, <1>k, <1>9 DEF DropOld
<1>. QED BY <1>4, <1>5, <1>6, <1>7, <1>8, <1>9 DEF InstallMoves

\* A directory that is looked at or noted in the journal.
LEMMA NotingKeepsAccount ==
  ASSUME MigrationInv, NEW n \in Dirs \ (botched' \cup removed'), TakenOrNoted(n)
  PROVE  IF now'.dir = n THEN OnItsWay(n)' ELSE Untouched(n)' \/ AsDraft(n)' \/ AsInstalled(n)'
<1>. USE MigrationAssumption DEF In, GoTo, instVars, OnItsWay, Untouched, Unknown, AsDraft,
     AsInstalled, Installed, Resting
<1>k. DataKept(n, IdOf[n]) => DataKept(n, IdOf[n])' \/ (active'[IdOf[n]] = 0 /\ pending'[IdOf[n]] = 0)
  BY KeptStays DEF MigrationNext, TakenOrNoted, MigrationInv, MigrationShape
<1>1. CASE Take(n)
  <2>1. /\ now.dir # n /\ n \notin botched \cup removed
        /\ place[n] = "old" /\ n \notin done
    BY <1>1 DEF Take, MigrationInv, MigrationShape
  <2>2. Untouched(n) \/ AsInstalled(n)
    BY <2>1 DEF MigrationInv, EachIsAccounted
  <2>. QED BY <1>1, <1>k, <2>2 DEF Take
<1>2. CASE Refused(n) \/ Note(n) \/ NoteFails(n)
  <2>1. now.dir = n /\ n \notin botched \cup removed
    BY <1>2 DEF Refused, Note, NoteFails
  <2>2. OnItsWay(n)
    BY <2>1 DEF MigrationInv, EachIsAccounted
  <2>. QED BY <1>2, <1>k, <2>1, <2>2 DEF Refused, Note, NoteFails
<1>. QED BY <1>1, <1>2 DEF TakenOrNoted

\* Between two starts the user takes away what counts as removed, and an
\* update that is activated stays installed.
LEMMA UserKeepsAccount ==
  ASSUME MigrationInv, UserActs, NEW n \in Dirs \ (botched' \cup removed')
  PROVE  now'.dir # n /\ (Untouched(n)' \/ AsDraft(n)' \/ AsInstalled(n)')
<1>. USE MigrationAssumption DEF Resting, Untouched, Unknown, AsDraft, AsInstalled, Installed, instVars
<1>1. /\ UNCHANGED <<done, failed, now, left, starts, botched>>
      /\ now'.dir # n /\ now.dir # n /\ n \notin botched \cup removed
  BY DEF UserActs
<1>2. (Untouched(n) \/ AsDraft(n) \/ AsInstalled(n)) /\ MigrationTypeOK
  BY <1>1 DEF MigrationInv, EachIsAccounted, MigrationShape
<1>k. DataKept(n, IdOf[n]) => DataKept(n, IdOf[n])' \/ (active'[IdOf[n]] = 0 /\ pending'[IdOf[n]] = 0)
  BY <1>2, KeptStays DEF MigrationNext
<1>3. ASSUME NEW p \in PluginIds, pending[p] # 0, UNCHANGED <<data, listed, place>>,
             active' = [active EXCEPT ![p] = pending[p]], pending' = [pending EXCEPT ![p] = 0],
             removed' = removed \cup ({active[p]} \cap Dirs)
      PROVE  Untouched(n)' \/ AsDraft(n)' \/ AsInstalled(n)'
  BY <1>1, <1>2, <1>k, <1>3 DEF MigrationTypeOK
<1>4. ASSUME NEW p \in PluginIds, UserUninstalls(p), UNCHANGED <<listed, place>>,
             removed' = removed \cup {m \in Dirs : Installed(m) /\ IdOf[m] = p}
      PROVE  Untouched(n)' \/ AsDraft(n)' \/ AsInstalled(n)'
  BY <1>1, <1>2, <1>k, <1>4 DEF MigrationTypeOK, UserUninstalls
<1>5. ASSUME NEW m \in listed, listed' = listed \ {m}, removed' = removed \cup {m},
             place' = [place EXCEPT ![m] = IF @ = "draft" THEN "gone" ELSE @], UNCHANGED instVars
      PROVE  Untouched(n)' \/ AsDraft(n)' \/ AsInstalled(n)'
  BY <1>1, <1>2, <1>k, <1>5 DEF MigrationTypeOK
<1>. QED BY <1>1, <1>3, <1>4, <1>5 DEF UserActs

\* Every step keeps the invariant of the migration.
LEMMA MigrationInvStep ==
  ASSUME MigrationInv, [MigrationNext]_migrationVars
  PROVE  MigrationInv'
<1>1. MigrationShape'
  BY MigrationShapeStep DEF MigrationInv
<1>2. SUFFICES ASSUME NEW m \in Dirs \ (botched' \cup removed')
               PROVE  IF now'.dir = m THEN OnItsWay(m)' ELSE Untouched(m)' \/ AsDraft(m)' \/ AsInstalled(m)'
  BY <1>1, NewerStaysKept DEF MigrationInv, EachIsAccounted
<1>k. DataKept(m, IdOf[m]) => DataKept(m, IdOf[m])' \/ (active'[IdOf[m]] = 0 /\ pending'[IdOf[m]] = 0)
  BY KeptStays, MigrationAssumption DEF MigrationInv, MigrationShape
<1>3. CASE AppStarts \/ EndsEarly
  <2>1. /\ m \notin botched \cup removed /\ now.dir # m /\ now'.dir # m
        /\ UNCHANGED <<place, listed, active, pending, done>>
    BY <1>3, MigrationAssumption DEF AppStarts, EndsEarly, Resting, instVars
  <2>. QED BY <1>k, <2>1, MigrationAssumption DEF MigrationInv, MigrationShape, MigrationTypeOK, EachIsAccounted, Untouched, Unknown, AsDraft, AsInstalled, Installed
<1>4. CASE UserActs
  BY <1>4, UserKeepsAccount
<1>5. ASSUME NEW n \in Dirs, DraftMoves(n) \/ InstallMoves(n) \/ TakenOrNoted(n)
      PROVE  IF now'.dir = m THEN OnItsWay(m)' ELSE Untouched(m)' \/ AsDraft(m)' \/ AsInstalled(m)'
  <2>1. CASE m # n
    BY <1>5, <2>1, OthersStayAccounted
  <2>2. CASE m = n
    BY <1>5, <2>2, DraftStaysAccounted, InstallationStaysAccounted, NotingKeepsAccount
  <2>. QED BY <2>1, <2>2
<1>6. CASE UNCHANGED migrationVars
  BY <1>6 DEF DataKept, migrationVars, MigrationInv, EachIsAccounted, OnItsWay, Untouched, Unknown, AsDraft,
              AsInstalled, Installed
<1>. QED BY <1>3, <1>4, <1>5, <1>6 DEF MigrationNext, DraftMoves, InstallMoves, TakenOrNoted

LEMMA MigrationInvariant == MigrationSpec => []MigrationInv
BY MigrationAtStart, MigrationInvStep, PTL DEF MigrationSpec

\* The ledgers, the journal and the directory under way keep to their types.
THEOREM MigrationTypeCorrect == MigrationSpec => []MigrationTypeOK
BY MigrationInvariant, PTL DEF MigrationInv, MigrationShape

\* A directory of the old layout is where it was and unknown to the ledgers,
\* or a draft with its files, or an installation with its data, whatever
\* failed in any number of starts and was taken back
\* (migrate_legacy_layout, migrate_one_legacy_directory).
THEOREM MigrationLosesNothing == MigrationSpec => []NothingLost
<1>1. MigrationInv => NothingLost
  BY DEF MigrationInv, EachIsAccounted, Untouched, Unknown, AsDraft, AsInstalled, NothingLost,
         NewerKeepsData
<1>. QED BY <1>1, MigrationInvariant, PTL
-----------------------------------------------------------------------------
(* Artifacts: the strengthening                                            *)

\* The names a directory gives.
OwnNames == Names \ {"src//a"}

\* An entry that was extracted lies in its place, or two are spelled alike.
Laid(i) ==
  \/ Place(art[i].name) \in DOMAIN unpacked /\ unpacked[Place(art[i].name)] = art[i]
  \/ \E j \in DOMAIN art \ {i} : Normal(art[i].name) = Normal(art[j].name)

\* What is extracted was accepted; what does not wait any more lies in place.
ExtractFits ==
  /\ step \notin {"extracting", "done"} => unpacked = <<>>
  /\ \A x \in DOMAIN unpacked : unpacked[x] \in ToSet(art) /\ x = Place(unpacked[x].name)
  /\ step = "extracting" =>
       /\ Accepted(art)
       /\ waiting \in Seq(ToSet(waiting)) /\ Len(waiting) <= Len(art)
       /\ \A i \in 1 .. Len(art) - Len(waiting) : Laid(i)

\* What was packed was read once more before it was given away.
PackFits ==
  /\ DOMAIN work \subseteq OwnNames
  /\ step \in {"packing", "made"} => origin = "packed"
  /\ origin = "packed" => NamesOf(art) \subseteq OwnNames
  /\ origin = "packed" /\ step \in {"made", "arrived", "extracting"} => Accepted(art)

PastFits ==
  /\ past = [first |-> past.first, faulty |-> past.faulty, left |-> past.left]
  /\ past.faulty \in BOOLEAN /\ past.left \in BOOLEAN

ArtifactInv ==
  /\ art \in Seq(ToSet(art)) /\ PastFits
  /\ ExtractFits /\ PackFits
  /\ WholeOrNothing /\ PackedIsInstallable

\* A sequence is one over what is in it.
LEMMA OverItsOwn ==
  ASSUME NEW S, NEW s \in Seq(S) PROVE s \in Seq(ToSet(s)) /\ DOMAIN s = 1 .. Len(s) /\ Len(s) \in Nat
<1>1. Len(s) \in Nat /\ s \in [1 .. Len(s) -> ToSet(s)] /\ DOMAIN s = 1 .. Len(s)
  BY LenProperties DEF ToSet
<1> QED BY <1>1, IsASeq

LEMMA AppendedSet ==
  ASSUME NEW S, NEW s \in Seq(S), NEW e PROVE ToSet(Append(s, e)) = ToSet(s) \cup {e} /\ Append(s, e) \in Seq(S \cup {e})
<1>1. s \in Seq(S \cup {e}) BY SeqMonotonic
<1>2. /\ Append(s, e) \in Seq(S \cup {e}) /\ DOMAIN Append(s, e) = 1 .. Len(s) + 1
      /\ Append(s, e)[Len(s) + 1] = e /\ \A i \in 1 .. Len(s) : Append(s, e)[i] = s[i]
  BY <1>1, AppendProperties, LenProperties
<1>3. DOMAIN s = 1 .. Len(s) /\ Len(s) \in Nat BY LenProperties
<1> QED BY <1>2, <1>3 DEF ToSet

\* On a file system that ignores case, two accepted entries have one place
\* only if their names are two spellings of one path.
LEMMA PlacesApart ==
  ASSUME NEW a, NEW b, Lower(a) # Lower(b), Place(a) = Place(b) PROVE Normal(a) = Normal(b)
  BY DEF Lower, Place, Normal

\* Of the names a directory gives, which two are in each other's way.
LEMMA WhoIsInTheWay ==
  ASSUME NEW a \in OwnNames, NEW b \in OwnNames, InTheWay(Place(a), Place(b))
  PROVE  caseless /\ {"Src", "src/a"} = {a, b}
<1>1. \A x \in OwnNames :
        x \in {"Lib/x", "Lib/y", "README.md", "Src", "data/x", "lib/y", "main.py", "readme.md", "src/a",
               Meta, Manifest}
  BY DEF OwnNames, Names, Sources, ToSet
<1>2. \A x \in OwnNames : Normal(x) = x BY DEF OwnNames, Normal
<1>3. \A x \in OwnNames : (Place(x) = "src" => caseless /\ x = "Src") /\ (Place(x) = "src/a" => x = "src/a")
  BY <1>1, <1>2 DEF Place, Lower, Meta, Manifest
<1>4. {Place(a), Place(b)} = {"src", "src/a"} BY DEF InTheWay
<1> QED BY <1>3, <1>4

-----------------------------------------------------------------------------
(* Artifacts: every step keeps it                                          *)

LEMMA ArtifactInitially == ArtifactInit => ArtifactInv
<1> SUFFICES ASSUME ArtifactInit PROVE ArtifactInv
  OBVIOUS
<1>1. art = <<>> /\ art \in Seq(ToSet(art)) /\ NamesOf(art) = {}
  BY DEF ArtifactInit, NamesOf, ToSet
<1>2. PastFits BY DEF ArtifactInit, PastFits
<1>3. ExtractFits BY DEF ArtifactInit, ExtractFits
<1>4. DOMAIN work \subseteq OwnNames BY DEF ArtifactInit, Directories, OwnNames
<1>5. PackFits BY <1>1, <1>4 DEF ArtifactInit, PackFits
<1> QED BY <1>1, <1>2, <1>3, <1>5 DEF ArtifactInit, ArtifactInv, WholeOrNothing, PackedIsInstallable

LEMMA StartPackingKeeps == ASSUME ArtifactInv, StartPacking PROVE ArtifactInv'
<1>1. /\ step = "idle" /\ UNCHANGED <<work, says, caseless, unpacked, changes, past>>
      /\ art \in Seq(ToSet(art)) /\ PastFits /\ ExtractFits /\ PackFits /\ unpacked = <<>>
  BY DEF StartPacking, workVars, ArtifactInv, ExtractFits
<1>2. PastFits' BY <1>1 DEF PastFits
<1>3. CASE step' = "stopped" /\ UNCHANGED <<waiting, art, origin>>
  BY <1>1, <1>2, <1>3
  DEF ArtifactInv, ExtractFits, PackFits, WholeOrNothing, PackedIsInstallable, NamesOf, ToSet
<1>4. CASE /\ art' = <<ZipEntry(Meta, "fits"), ManifestEntry>> /\ waiting' = SourceFiles
           /\ step' = "packing" /\ origin' = "packed" /\ outcome' = "none"
  <2>1. art' \in Seq({ZipEntry(Meta, "fits"), ManifestEntry}) BY <1>4
  <2>2. art' \in Seq(ToSet(art')) /\ ToSet(art') = {ZipEntry(Meta, "fits"), ManifestEntry}
    BY <1>4, <2>1, OverItsOwn DEF ToSet
  <2>3. ZipEntry(Meta, "fits").name = Meta /\ ManifestEntry.name = Manifest
    BY DEF ZipEntry, ManifestEntry
  <2>4. Meta \in OwnNames /\ Manifest \in OwnNames BY DEF Meta, Manifest, OwnNames, Names
  <2>5. NamesOf(art') \subseteq OwnNames BY <2>2, <2>3, <2>4 DEF NamesOf
  <2>6. ExtractFits' BY <1>1, <1>4 DEF ExtractFits
  <2>7. PackFits' BY <1>1, <1>4, <2>5 DEF PackFits, NamesOf
  <2> QED BY <1>2, <1>4, <2>2, <2>6, <2>7 DEF ArtifactInv, WholeOrNothing, PackedIsInstallable
<1> QED BY <1>3, <1>4 DEF StartPacking

LEMMA PackFileKeeps == ASSUME ArtifactInv, PackFile PROVE ArtifactInv'
<1>1. /\ step = "packing" /\ UNCHANGED <<work, says, origin, caseless, unpacked, changes, past>>
      /\ art \in Seq(ToSet(art)) /\ PastFits /\ ExtractFits /\ PackFits /\ unpacked = <<>>
      /\ origin = "packed"
  BY DEF PackFile, workVars, ArtifactInv, ExtractFits, PackFits
<1>2. PastFits' BY <1>1 DEF PastFits
<1>3. CASE step' = "stopped" /\ UNCHANGED art
  BY <1>1, <1>2, <1>3
  DEF ArtifactInv, ExtractFits, PackFits, WholeOrNothing, PackedIsInstallable, NamesOf, ToSet
<1>4. CASE /\ Head(waiting) \in DOMAIN work /\ step' = step
           /\ art' = Append(art, ZipEntry(Head(waiting), work[Head(waiting)]))
  <2> DEFINE e == ZipEntry(Head(waiting), work[Head(waiting)])
  <2>1. e.name \in OwnNames BY <1>1, <1>4 DEF ZipEntry, PackFits
  <2>2. ToSet(art') = ToSet(art) \cup {e} /\ art' \in Seq(ToSet(art'))
    <3>1. art' = Append(art, e) BY <1>4
    <3> HIDE DEF e
    <3>2. ToSet(art') = ToSet(art) \cup {e} /\ art' \in Seq(ToSet(art) \cup {e})
      BY <1>1, <3>1, AppendedSet
    <3> QED BY <3>2
  <2>3. NamesOf(art') \subseteq OwnNames BY <1>1, <2>1, <2>2 DEF NamesOf, PackFits
  <2>4. ExtractFits' BY <1>1, <1>4 DEF ExtractFits
  <2>5. PackFits' BY <1>1, <1>4, <2>3 DEF PackFits, NamesOf
  <2> QED BY <1>1, <1>2, <1>4, <2>2, <2>4, <2>5 DEF ArtifactInv, WholeOrNothing, PackedIsInstallable
<1> QED BY <1>3, <1>4 DEF PackFile

\* Changes of the directory, the end of the packing, the way to the machine.
LEMMA ChangeDirectoryKeeps == ASSUME ArtifactInv, ChangeDirectory PROVE ArtifactInv'
<1>1. /\ step = "packing" /\ UNCHANGED <<says, step, waiting, art, origin, caseless, unpacked, outcome, past>>
      /\ DOMAIN work' \subseteq DOMAIN work
  BY DEF ChangeDirectory
<1> QED
  BY <1>1
  DEF ArtifactInv, PastFits, ExtractFits, PackFits, WholeOrNothing, PackedIsInstallable

LEMMA FinishKeeps == ASSUME ArtifactInv, Finish PROVE ArtifactInv'
<1>1. /\ step = "packing" /\ UNCHANGED <<work, says, waiting, art, origin, caseless, unpacked, changes, past>>
      /\ step' \in {"made", "stopped"} /\ (step' = "made" => Accepted(art))
  BY DEF Finish, workVars
<1>2. Accepted(art') = Accepted(art) BY <1>1
<1> QED
  BY <1>1, <1>2
  DEF ArtifactInv, PastFits, ExtractFits, PackFits, WholeOrNothing, PackedIsInstallable

LEMMA ArriveKeeps == ASSUME ArtifactInv, Arrive PROVE ArtifactInv'
<1>1. /\ step \in {"made", "idle"} /\ step' = "arrived" /\ unpacked = <<>>
      /\ UNCHANGED <<work, says, waiting, caseless, unpacked, outcome, changes, past>>
      /\ art \in Seq(ToSet(art)) /\ PastFits /\ ExtractFits /\ PackFits
  BY DEF Arrive, workVars, ArtifactInv, ExtractFits
<1>2. PastFits' BY <1>1 DEF PastFits
<1>3. ExtractFits' BY <1>1 DEF ExtractFits
<1>4. CASE step = "made" /\ UNCHANGED <<art, origin>>
  BY <1>1, <1>2, <1>3, <1>4 DEF ArtifactInv, PackFits, WholeOrNothing, PackedIsInstallable
<1>5. CASE art' \in Damaged(art) /\ origin' = "damaged"
  <2>1. PICK i \in DOMAIN art : art' = [art EXCEPT ![i].sound = FALSE] BY <1>5 DEF Damaged
  <2> DEFINE e == [art[i] EXCEPT !.sound = FALSE]
  <2>2. art \in Seq(ToSet(art) \cup {e}) BY <1>1, SeqMonotonic
  <2>3. i \in 1 .. Len(art) /\ art' = [art EXCEPT ![i] = e] BY <1>1, <2>1, OverItsOwn
  <2>4. art' \in Seq(ToSet(art) \cup {e}) BY <2>2, <2>3, ExceptSeq
  <2>5. art' \in Seq(ToSet(art')) BY <2>4, OverItsOwn
  <2> QED
    BY <1>1, <1>2, <1>3, <1>5, <2>5 DEF ArtifactInv, PackFits, WholeOrNothing, PackedIsInstallable
<1>6. CASE /\ origin' = "foreign"
           /\ \E x, y, z \in Names \ {Manifest}, size \in Sizes :
                art' = <<ZipEntry(x, "fits"), ManifestEntry, ZipEntry(y, "fits"), ZipEntry(z, size)>>
  <2>1. PICK x, y, z \in Names \ {Manifest}, size \in Sizes :
          art' = <<ZipEntry(x, "fits"), ManifestEntry, ZipEntry(y, "fits"), ZipEntry(z, size)>>
    BY <1>6
  <2>2. art' \in Seq({ZipEntry(x, "fits"), ManifestEntry, ZipEntry(y, "fits"), ZipEntry(z, size)})
    BY <2>1
  <2>3. art' \in Seq(ToSet(art')) BY <2>2, OverItsOwn
  <2> QED
    BY <1>1, <1>2, <1>3, <1>6, <2>3 DEF ArtifactInv, PackFits, WholeOrNothing, PackedIsInstallable
<1> QED BY <1>4, <1>5, <1>6 DEF Arrive

\* Before the extraction.
LEMMA StartExtractionKeeps == ASSUME ArtifactInv, StartExtraction PROVE ArtifactInv'
<1>1. /\ step = "arrived" /\ UNCHANGED <<work, says, art, origin, caseless, unpacked, changes, past>>
      /\ art \in Seq(ToSet(art)) /\ PastFits /\ ExtractFits /\ PackFits /\ unpacked = <<>>
  BY DEF StartExtraction, workVars, ArtifactInv, ExtractFits
<1>2. PastFits' BY <1>1 DEF PastFits
<1>3. CASE Accepted(art) /\ step' = "extracting" /\ waiting' = [i \in DOMAIN art |-> art[i].name]
  <2>1. DOMAIN art = 1 .. Len(art) /\ Len(art) \in Nat BY <1>1, OverItsOwn
  <2>2. waiting' \in Seq({art[i].name : i \in 1 .. Len(art)}) /\ Len(waiting') = Len(art)
    BY <1>3, <2>1, IsASeq
  <2>3. waiting' \in Seq(ToSet(waiting')) BY <2>2, OverItsOwn
  <2>4. 1 .. Len(art) - Len(waiting') = {} BY <2>1, <2>2
  <2>5. Accepted(art') = Accepted(art) BY <1>1
  <2>6. ExtractFits' BY <1>1, <1>3, <2>1, <2>2, <2>3, <2>4, <2>5 DEF ExtractFits
  <2>7. PackFits' BY <1>1, <1>3, <2>5 DEF PackFits
  <2> QED BY <1>1, <1>2, <1>3, <2>6, <2>7 DEF ArtifactInv, WholeOrNothing, PackedIsInstallable
<1>4. CASE ~ Accepted(art) /\ step' = "done" /\ outcome' = "refused"
  <2>1. origin # "packed" BY <1>1, <1>4 DEF PackFits
  <2>2. ExtractFits' BY <1>1, <1>4 DEF ExtractFits
  <2>3. PackFits' BY <1>1, <1>4, <2>1 DEF PackFits
  <2> QED BY <1>1, <1>2, <1>4, <2>1, <2>2, <2>3 DEF ArtifactInv, WholeOrNothing, PackedIsInstallable
<1> QED BY <1>3, <1>4 DEF StartExtraction

\* An extraction that stops half way.
LEMMA GiveUpKeeps ==
  ASSUME ArtifactInv, NEW broken \in BOOLEAN, GiveUp(broken), step = "extracting",
         UNCHANGED <<work, says, art, origin, caseless, changes>>,
         origin = "packed" => broken \/ (caseless /\ {"Src", "src/a"} \subseteq NamesOf(art))
  PROVE  ArtifactInv'
<1>1. PastFits /\ ExtractFits /\ PackFits /\ art \in Seq(ToSet(art)) BY DEF ArtifactInv
<1>2. PICK stays \in BOOLEAN :
        /\ unpacked' = IF stays THEN unpacked ELSE <<>>
        /\ past' = [past EXCEPT !.faulty = @ \/ broken, !.left = stays]
  BY DEF GiveUp
<1>3. outcome' = "failed" /\ step' = "done" BY DEF GiveUp
<1>4. PICK f \in BOOLEAN : f = (past.faulty \/ broken) OBVIOUS
<1>5. past' = [first |-> past.first, faulty |-> f, left |-> stays] BY <1>1, <1>2, <1>4 DEF PastFits
<1>6. past'.faulty = f /\ past'.left = stays /\ PastFits' BY <1>5 DEF PastFits
<1>7. ExtractFits' BY <1>1, <1>2, <1>3 DEF ExtractFits, Place
<1>8. PackFits' BY <1>1, <1>3 DEF PackFits
<1>9. WholeOrNothing' BY <1>2, <1>3, <1>6 DEF WholeOrNothing
<1>10. PackedIsInstallable' BY <1>4, <1>6 DEF PackedIsInstallable, NamesOf
<1> QED BY <1>1, <1>6, <1>7, <1>8, <1>9, <1>10 DEF ArtifactInv

\* The next entry, and whether what lies there is in its way.
LEMMA ExtractFileKeeps == ASSUME ArtifactInv, ExtractFile PROVE ArtifactInv'
<1> DEFINE c == Len(art) - Len(waiting) + 1
           spot == Place(Current.name)
<1>1. /\ step = "extracting" /\ waiting # <<>> /\ UNCHANGED <<work, says, art, origin, caseless, changes>>
      /\ art \in Seq(ToSet(art)) /\ PastFits /\ ExtractFits /\ PackFits /\ Accepted(art)
      /\ waiting \in Seq(ToSet(waiting)) /\ Len(waiting) <= Len(art)
      /\ \A i \in 1 .. Len(art) - Len(waiting) : Laid(i)
  BY DEF ExtractFile, workVars, ArtifactInv, ExtractFits
<1>2. /\ DOMAIN art = 1 .. Len(art) /\ Len(art) \in Nat /\ Len(waiting) \in Nat \ {0}
      /\ Tail(waiting) \in Seq(ToSet(waiting)) /\ Len(Tail(waiting)) = Len(waiting) - 1
  BY <1>1, OverItsOwn, LenProperties, HeadTailProperties, EmptySeq
<1>3. c \in DOMAIN art /\ Current = art[c] /\ Current \in ToSet(art) BY <1>1, <1>2 DEF Current, ToSet
<1>4. CASE /\ \E other \in DOMAIN unpacked : InTheWay(spot, other)
           /\ GiveUp(FALSE)
  <2>1. PICK other \in DOMAIN unpacked : InTheWay(spot, other) BY <1>4
  <2>2. unpacked[other] \in ToSet(art) /\ other = Place(unpacked[other].name) BY <1>1 DEF ExtractFits
  <2>3. ASSUME origin = "packed" PROVE caseless /\ {"Src", "src/a"} \subseteq NamesOf(art)
    <3>1. Current.name \in NamesOf(art) /\ unpacked[other].name \in NamesOf(art)
      BY <1>3, <2>2 DEF NamesOf
    <3>2. NamesOf(art) \subseteq OwnNames BY <1>1, <2>3 DEF PackFits
    <3>3. caseless /\ {"Src", "src/a"} = {Current.name, unpacked[other].name}
      BY <2>1, <2>2, <3>1, <3>2, WhoIsInTheWay
    <3> QED BY <3>1, <3>3
  <2> QED BY <1>1, <1>4, <2>3, GiveUpKeeps
<1>5. CASE /\ unpacked' = [x \in DOMAIN unpacked \cup {spot} |->
                             IF x = spot THEN Current ELSE unpacked[x]]
           /\ waiting' = Tail(waiting) /\ UNCHANGED <<step, outcome, past>>
  <2>1. /\ spot \in DOMAIN unpacked' /\ unpacked'[spot] = Current
        /\ \A x \in DOMAIN unpacked \ {spot} : x \in DOMAIN unpacked' /\ unpacked'[x] = unpacked[x]
        /\ DOMAIN unpacked' = DOMAIN unpacked \cup {spot}
    BY <1>5
  <2>2. \A x \in DOMAIN unpacked' : unpacked'[x] \in ToSet(art) /\ x = Place(unpacked'[x].name)
    <3>1. ASSUME NEW x \in DOMAIN unpacked' PROVE unpacked'[x] \in ToSet(art) /\ x = Place(unpacked'[x].name)
      <4>1. CASE x = spot BY <1>3, <2>1, <4>1
      <4>2. CASE x # spot BY <1>1, <2>1, <4>2 DEF ExtractFits
      <4> QED BY <4>1, <4>2
    <3> QED BY <3>1
  <2>3. ASSUME NEW i \in 1 .. c PROVE Laid(i)'
    <3>1. CASE i = c BY <1>1, <1>3, <2>1, <3>1 DEF Laid, Place
    <3>2. CASE i # c
      <4>1. i \in 1 .. Len(art) - Len(waiting) /\ i \in DOMAIN art
        <5>1. /\ Len(art) \in Nat /\ Len(waiting) \in Nat \ {0} /\ Len(waiting) <= Len(art)
              /\ DOMAIN art = 1 .. Len(art) /\ i \in 1 .. Len(art) - Len(waiting) + 1
              /\ i # Len(art) - Len(waiting) + 1
          BY <1>1, <1>2, <3>2
        <5> QED BY <5>1
      <4>2. Laid(i) BY <1>1, <4>1
      <4>3. CASE Place(art[i].name) # spot
        BY <1>1, <2>1, <4>2, <4>3 DEF Laid, Place
      <4>4. CASE Place(art[i].name) = spot
        <5>1. Lower(art[i].name) # Lower(art[c].name) BY <1>1, <1>3, <3>2, <4>1 DEF Accepted
        <5>2. Normal(art[i].name) = Normal(art[c].name) BY <1>3, <4>4, <5>1, PlacesApart
        <5> QED BY <1>1, <1>3, <3>2, <5>2 DEF Laid
      <4> QED BY <4>3, <4>4
    <3> QED BY <3>1, <3>2
  <2>4. /\ waiting' \in Seq(ToSet(waiting')) /\ Len(waiting') <= Len(art)
        /\ Len(art) - Len(waiting') = c
    <3>1. Len(waiting') = Len(waiting) - 1 /\ waiting' \in Seq(ToSet(waiting)) BY <1>2, <1>5
    <3>2. waiting' \in Seq(ToSet(waiting')) BY <3>1, OverItsOwn
    <3>3. /\ Len(waiting) \in Nat \ {0} /\ Len(art) \in Nat /\ Len(waiting) <= Len(art)
      BY <1>1, <1>2
    <3> QED BY <3>1, <3>2, <3>3
  <2>5. Accepted(art') = Accepted(art) BY <1>1
  <2>7. \A x \in DOMAIN unpacked' : unpacked'[x] \in ToSet(art') /\ x = Place(unpacked[x].name)'
    BY <1>1, <2>2 DEF Place
  <2>8. ExtractFits' BY <1>1, <1>5, <2>3, <2>4, <2>5, <2>7 DEF ExtractFits
  <2>9. PackFits' BY <1>1, <1>5, <2>5 DEF PackFits
  <2> QED
    BY <1>1, <1>5, <2>8, <2>9 DEF ArtifactInv, PastFits, WholeOrNothing, PackedIsInstallable
<1> QED BY <1>4, <1>5 DEF ExtractFile

LEMMA DiskFailsKeeps == ASSUME ArtifactInv, DiskFails PROVE ArtifactInv'
  BY GiveUpKeeps DEF DiskFails, workVars

\* The end of an extraction, and what was extracted is packed again.
LEMMA EndExtractionKeeps == ASSUME ArtifactInv, EndExtraction PROVE ArtifactInv'
<1>1. /\ step = "extracting" /\ waiting = <<>> /\ outcome' = "ok" /\ step' = "done"
      /\ UNCHANGED <<work, says, waiting, art, origin, caseless, unpacked, changes, past>>
      /\ art \in Seq(ToSet(art)) /\ PastFits /\ ExtractFits /\ PackFits /\ Accepted(art)
      /\ \A i \in 1 .. Len(art) - Len(waiting) : Laid(i)
  BY DEF EndExtraction, workVars, ArtifactInv, ExtractFits
<1>2. DOMAIN art = 1 .. Len(art) /\ Len(art) - Len(waiting) = Len(art) BY <1>1, OverItsOwn, EmptySeq
<1>3. \A i \in DOMAIN art : art[i].sound /\ Laid(i) BY <1>1, <1>2 DEF Accepted, ToSet
<1>4. WholeOrNothing' BY <1>1, <1>3 DEF WholeOrNothing, Laid, Place
<1> QED
  BY <1>1, <1>4 DEF ArtifactInv, PastFits, ExtractFits, PackFits, PackedIsInstallable, Place

\* The name under which an extracted file is read is one a directory gives.
LEMMA ReadBackNames ==
  ASSUME NEW name PROVE (name \in OwnNames => ReadBack(name) \in OwnNames) /\ (name \in Names => ReadBack(name) \in Names)
<1>1. "Lib/y" \in ToSet(Sources)
  <2>1. Sources[2] = "Lib/y" /\ 2 \in DOMAIN Sources BY DEF Sources
  <2> QED BY <2>1 DEF ToSet
<1> QED BY <1>1 DEF ReadBack, OwnNames, Names

LEMMA PackAgainKeeps == ASSUME ArtifactInv, PackAgain PROVE ArtifactInv'
<1>1. /\ step = "done" /\ origin = "packed" /\ step' = "idle" /\ art' = <<>> /\ unpacked' = <<>>
      /\ UNCHANGED <<waiting, origin, caseless, changes>>
      /\ past' = [past EXCEPT !.first = art] /\ PastFits /\ ExtractFits /\ PackFits
      /\ DOMAIN work' = {ReadBack(unpacked[x].name) : x \in DOMAIN unpacked}
  BY DEF PackAgain, ArtifactInv
<1>2. DOMAIN work' \subseteq OwnNames
  <2>1. \A x \in DOMAIN unpacked : unpacked[x].name \in OwnNames
    BY <1>1 DEF ExtractFits, PackFits, NamesOf
  <2> QED BY <1>1, <2>1, ReadBackNames
<1>3. past' = [first |-> art, faulty |-> past.faulty, left |-> past.left] BY <1>1 DEF PastFits
<1>4. PastFits' BY <1>1, <1>3 DEF PastFits
<1>5. art' \in Seq(ToSet(art')) /\ NamesOf(art') = {} BY <1>1 DEF NamesOf, ToSet
<1>6. ExtractFits' BY <1>1 DEF ExtractFits
<1>7. PackFits' BY <1>1, <1>2, <1>5 DEF PackFits
<1> QED BY <1>1, <1>4, <1>5, <1>6, <1>7 DEF ArtifactInv, WholeOrNothing, PackedIsInstallable

\* Every step of the way of an artifact keeps it.
LEMMA ArtifactInductive == ArtifactInv /\ [ArtifactNext]_artifactVars => ArtifactInv'
<1> SUFFICES ASSUME ArtifactInv, [ArtifactNext]_artifactVars PROVE ArtifactInv'
  OBVIOUS
<1>1. CASE UNCHANGED artifactVars
  <2>1. Accepted(art') = Accepted(art) BY <1>1 DEF artifactVars
  <2> QED
    BY <1>1, <2>1
    DEF artifactVars, workVars, ArtifactInv, PastFits, ExtractFits, PackFits, WholeOrNothing,
        PackedIsInstallable, Laid, Place, NamesOf
<1> QED
  BY <1>1, StartPackingKeeps, ChangeDirectoryKeeps, PackFileKeeps, FinishKeeps, ArriveKeeps,
     StartExtractionKeeps, ExtractFileKeeps, DiskFailsKeeps, EndExtractionKeeps, PackAgainKeeps
  DEF ArtifactNext

\* The invariant of the artifacts, in every reachable state.
LEMMA ArtifactInvCorrect == ArtifactSpec => []ArtifactInv
  BY ArtifactInitially, ArtifactInductive, PTL DEF ArtifactSpec

\* An extraction gives every file that was inspected, undamaged, or nothing,
\* for archives of any origin and length.
THEOREM ExtractedWhole == ArtifactSpec => []WholeOrNothing
<1>1. ArtifactInv => WholeOrNothing BY DEF ArtifactInv
<1> QED BY <1>1, ArtifactInvCorrect, PTL

\* What was packed can be extracted wherever it arrives whole, but for two
\* names that a file system without case takes for one path.
THEOREM PackedInstalls == ArtifactSpec => []PackedIsInstallable
<1>1. ArtifactInv => PackedIsInstallable BY DEF ArtifactInv
<1> QED BY <1>1, ArtifactInvCorrect, PTL
-----------------------------------------------------------------------------
(* What a filter gives                                                     *)

\* Induction, for what can be said with a set of numbers.
LEMMA SetInduction ==
  ASSUME NEW S, 0 \in S, \A n \in Nat : n \in S => n + 1 \in S
  PROVE  Nat \subseteq S
<1> SUFFICES ASSUME Nat \ S # {} PROVE FALSE
  OBVIOUS
<1>1. PICK n \in Nat \ S : \A j \in Nat \ S : n <= j BY LeastNumber
<1>2. n - 1 \in Nat /\ n - 1 \in S /\ (n - 1) + 1 = n BY <1>1
<1> QED BY <1>1, <1>2

\* What is kept of the first i elements, from what is kept of those before.
KeptOf(f, s, T, i) ==
  IF i = 0 THEN <<>> ELSE IF s[i] \in T THEN Append(f[i - 1], s[i]) ELSE f[i - 1]

\* There is a function that keeps them, for a list of any length.
LEMMA KeepingExists ==
  ASSUME NEW s, NEW T
  PROVE  \A n \in Nat : \E f : f = [i \in 0 .. n |-> KeptOf(f, s, T, i)]
<1> DEFINE Good == {m \in Nat : \E f : f = [i \in 0 .. m |-> KeptOf(f, s, T, i)]}
<1>1. 0 \in Good
  <2>1. \A i \in 0 .. 0 : KeptOf([j \in 0 .. 0 |-> <<>>], s, T, i) = <<>> BY DEF KeptOf
  <2>2. [j \in 0 .. 0 |-> <<>>] = [i \in 0 .. 0 |-> KeptOf([j \in 0 .. 0 |-> <<>>], s, T, i)] BY <2>1
  <2> QED BY <2>2
<1>2. ASSUME NEW m \in Nat, m \in Good PROVE m + 1 \in Good
  <2>1. PICK f : f = [i \in 0 .. m |-> KeptOf(f, s, T, i)] BY <1>2
  <2> DEFINE final == IF s[m + 1] \in T THEN Append(f[m], s[m + 1]) ELSE f[m]
             g == [i \in 0 .. m + 1 |-> IF i = m + 1 THEN final ELSE f[i]]
  <2>2. (m + 1) - 1 = m /\ m + 1 # 0 OBVIOUS
  <2>3. g[m + 1] = final /\ \A i \in 0 .. m : g[i] = f[i] OBVIOUS
  <2> HIDE DEF final
  <2>4. ASSUME NEW i \in 0 .. m + 1 PROVE g[i] = KeptOf(g, s, T, i)
    <3>1. CASE i \in 1 .. m
      <4>1. i - 1 \in 0 .. m /\ i # 0 BY <3>1
      <4>2. f[i] = KeptOf(f, s, T, i) BY <2>1, <3>1
      <4>3. g[i - 1] = f[i - 1] /\ g[i] = f[i] BY <2>3, <3>1, <4>1
      <4> HIDE DEF g
      <4> QED BY <4>1, <4>2, <4>3 DEF KeptOf
    <3>2. CASE i = 0
      <4>1. f[0] = KeptOf(f, s, T, 0) /\ g[0] = f[0] BY <2>1, <2>3
      <4> HIDE DEF g
      <4> QED BY <3>2, <4>1 DEF KeptOf
    <3>3. CASE i = m + 1
      <4>1. g[m] = f[m] BY <2>3
      <4> HIDE DEF g
      <4> QED BY <2>2, <2>3, <3>3, <4>1 DEF KeptOf, final
    <3> QED BY <3>1, <3>2, <3>3
  <2>5. g = [i \in 0 .. m + 1 |-> KeptOf(g, s, T, i)] BY <2>4
  <2>6. \E h : h = [i \in 0 .. m + 1 |-> KeptOf(h, s, T, i)] BY <2>5
  <2> QED BY <2>6
<1>3. Nat \subseteq Good
  <2> HIDE DEF Good
  <2> QED BY <1>1, <1>2, SetInduction
<1> QED BY <1>3

\* So the filter is defined by its recursion.
Keeping(f, s, T) ==
  /\ Those(s, T) = f[Len(s)] /\ f[0] = <<>>
  /\ \A i \in 0 .. Len(s) - 1 :
       f[i + 1] = IF s[i + 1] \in T THEN Append(f[i], s[i + 1]) ELSE f[i]

LEMMA ThoseKept ==
  ASSUME NEW s, NEW T, Len(s) \in Nat
  PROVE  \E f : Keeping(f, s, T)
<1> DEFINE F == CHOOSE f : f = [i \in 0 .. Len(s) |-> IF i = 0 THEN <<>>
                      ELSE IF s[i] \in T THEN Append(f[i - 1], s[i]) ELSE f[i - 1]]
<1>1. F = [i \in 0 .. Len(s) |-> IF i = 0 THEN <<>>
                      ELSE IF s[i] \in T THEN Append(F[i - 1], s[i]) ELSE F[i - 1]]
  <2>1. \E f : f = [i \in 0 .. Len(s) |-> KeptOf(f, s, T, i)] BY KeepingExists
  <2>2. \E f : f = [i \in 0 .. Len(s) |-> IF i = 0 THEN <<>>
                      ELSE IF s[i] \in T THEN Append(f[i - 1], s[i]) ELSE f[i - 1]]
    BY <2>1 DEF KeptOf
  <2> QED BY <2>2
<1>2. Those(s, T) = F[Len(s)] BY DEF Those
<1> HIDE DEF F
<1>3. \A i \in 0 .. Len(s) : F[i] = IF i = 0 THEN <<>>
                      ELSE IF s[i] \in T THEN Append(F[i - 1], s[i]) ELSE F[i - 1]
  BY <1>1
<1>4. ASSUME NEW i \in 0 .. Len(s) - 1
      PROVE  F[i + 1] = IF s[i + 1] \in T THEN Append(F[i], s[i + 1]) ELSE F[i]
  <2>1. i + 1 \in 0 .. Len(s) /\ i + 1 # 0 /\ (i + 1) - 1 = i OBVIOUS
  <2>2. F[i + 1] = IF i + 1 = 0 THEN <<>>
                   ELSE IF s[i + 1] \in T THEN Append(F[(i + 1) - 1], s[i + 1]) ELSE F[(i + 1) - 1]
    BY <1>3, <2>1
  <2> QED BY <2>1, <2>2
<1> QED BY <1>2, <1>3, <1>4 DEF Keeping

\* An element at the end of a list without it leaves it without repetition.
LEMMA AppendedOnce ==
  ASSUME NEW S, NEW s \in Seq(S), NEW e, e \notin ToSet(s), IsInjective(s)
  PROVE  IsInjective(Append(s, e))
<1>1. s \in Seq(S \cup {e}) BY SeqMonotonic
<1>2. /\ DOMAIN Append(s, e) = 1 .. Len(s) + 1 /\ DOMAIN s = 1 .. Len(s) /\ Len(s) \in Nat
      /\ Append(s, e)[Len(s) + 1] = e /\ \A i \in 1 .. Len(s) : Append(s, e)[i] = s[i]
  BY <1>1, AppendProperties, LenProperties
<1> QED BY <1>2 DEF IsInjective, ToSet

\* A filter gives a list of what is both in the list and in the set, not
\* longer than it was, and nothing twice that was not there twice.
LEMMA ThoseFacts ==
  ASSUME NEW S, NEW s \in Seq(S), NEW T
  PROVE  /\ Those(s, T) \in Seq(S) /\ ToSet(Those(s, T)) = ToSet(s) \cap T
         /\ Len(Those(s, T)) <= Len(s) /\ (IsInjective(s) => IsInjective(Those(s, T)))
<1>1. Len(s) \in Nat /\ DOMAIN s = 1 .. Len(s) /\ \A i \in 1 .. Len(s) : s[i] \in S
  BY LenProperties, ElementOfSeq
<1>2. PICK f : Keeping(f, s, T)
  BY <1>1, ThoseKept
<1> DEFINE First(n) == {s[i] : i \in 1 .. n}
           Fine(n) == /\ f[n] \in Seq(S) /\ ToSet(f[n]) = First(n) \cap T
                      /\ Len(f[n]) <= n /\ (IsInjective(s) => IsInjective(f[n]))
           Good == {n \in Nat : n <= Len(s) => Fine(n)}
<1>3. 0 \in Good
  <2>1. First(0) = {} OBVIOUS
  <2>2. Fine(0) BY <1>2, <2>1, EmptySeq DEF ToSet, IsInjective, Keeping
  <2> QED BY <2>2
<1>4. ASSUME NEW n \in Nat, n \in Good, n + 1 <= Len(s) PROVE Fine(n + 1)
  <2>1. Fine(n) /\ n \in 0 .. Len(s) - 1 /\ n + 1 \in 1 .. Len(s) BY <1>1, <1>4
  <2>2. First(n + 1) = First(n) \cup {s[n + 1]}
    <3>1. 1 .. n + 1 = (1 .. n) \cup {n + 1} OBVIOUS
    <3> QED BY <3>1
  <2>3. CASE s[n + 1] \in T
    <3>1. f[n + 1] = Append(f[n], s[n + 1]) BY <1>2, <2>1, <2>3 DEF Keeping
    <3>2. s[n + 1] \in S BY <1>1, <2>1
    <3>3. f[n + 1] \in Seq(S) /\ Len(f[n + 1]) = Len(f[n]) + 1
      BY <2>1, <3>1, <3>2, AppendProperties
    <3>4. ToSet(f[n + 1]) = ToSet(f[n]) \cup {s[n + 1]} BY <2>1, <3>1, AppendedSet
    <3>5. ASSUME IsInjective(s) PROVE IsInjective(f[n + 1])
      <4>1. s[n + 1] \notin First(n) BY <1>1, <2>1, <3>5 DEF IsInjective
      <4> QED BY <2>1, <3>1, <3>5, <4>1, AppendedOnce
    <3>6. Len(f[n]) \in Nat BY <2>1, LenProperties
    <3>7. Len(f[n + 1]) <= n + 1 BY <2>1, <3>3, <3>6
    <3>8. ToSet(f[n + 1]) = First(n + 1) \cap T
      <4> HIDE DEF First
      <4> QED BY <2>1, <2>2, <2>3, <3>4
    <3> QED BY <3>3, <3>5, <3>7, <3>8
  <2>4. CASE s[n + 1] \notin T
    <3>1. f[n + 1] = f[n] BY <1>2, <2>1, <2>4 DEF Keeping
    <3>2. ToSet(f[n + 1]) = First(n + 1) \cap T
      <4> HIDE DEF First
      <4> QED BY <2>1, <2>2, <2>4, <3>1
    <3>3. Len(f[n]) \in Nat BY <2>1, LenProperties
    <3> QED BY <2>1, <3>1, <3>2, <3>3
  <2> QED BY <2>3, <2>4
<1>5. \A n \in Nat : n \in Good => n + 1 \in Good
  <2> SUFFICES ASSUME NEW n \in Nat, n \in Good PROVE n + 1 \in Good
    OBVIOUS
  <2> HIDE DEF Fine
  <2>1. n + 1 <= Len(s) => Fine(n + 1) BY <1>4
  <2> QED BY <2>1
<1>6. Nat \subseteq Good
  <2> HIDE DEF Good
  <2> QED BY <1>3, <1>5, SetInduction
<1>7. Fine(Len(s))
  <2> HIDE DEF Fine
  <2>1. Len(s) \in Good BY <1>1, <1>6
  <2> QED BY <1>1, <2>1
<1>8. First(Len(s)) = ToSet(s) BY <1>1 DEF ToSet
<1> QED BY <1>2, <1>7, <1>8 DEF Keeping

\* It looks at nothing but what is in the list.
LEMMA ThoseAlike ==
  ASSUME NEW S, NEW s \in Seq(S), NEW T, NEW U, ToSet(s) \cap T = ToSet(s) \cap U
  PROVE  Those(s, T) = Those(s, U)
<1>1. Len(s) \in Nat /\ DOMAIN s = 1 .. Len(s) BY LenProperties
<1>2. PICK f : Keeping(f, s, T)
  BY <1>1, ThoseKept
<1>3. PICK g : Keeping(g, s, U)
  BY <1>1, ThoseKept
<1> DEFINE Good == {n \in Nat : n <= Len(s) => f[n] = g[n]}
<1>4. 0 \in Good BY <1>2, <1>3 DEF Keeping
<1>5. ASSUME NEW n \in Nat, n \in Good PROVE n + 1 \in Good
  <2> SUFFICES ASSUME n + 1 <= Len(s) PROVE f[n + 1] = g[n + 1]
    OBVIOUS
  <2>1. n \in 0 .. Len(s) - 1 /\ n + 1 \in 1 .. Len(s) /\ f[n] = g[n] BY <1>1, <1>5
  <2>2. s[n + 1] \in ToSet(s) BY <1>1, <2>1 DEF ToSet
  <2>3. s[n + 1] \in T <=> s[n + 1] \in U BY <2>2
  <2> QED BY <1>2, <1>3, <2>1, <2>3 DEF Keeping
<1>6. Nat \subseteq Good
  <2> HIDE DEF Good
  <2> QED BY <1>4, <1>5, SetInduction
<1> QED BY <1>1, <1>2, <1>3, <1>6 DEF Keeping
-----------------------------------------------------------------------------
(* Artifacts: the type of their state                                      *)

Says     == {"unusable", "main.py", "data/x", "src/a"}
ItemRec == [name : Names, size : Sizes, says : Says \cup {""}, sound : BOOLEAN]
Item(e) == e \in ItemRec /\ (e.name = Manifest => e.says \in Says)

ArtifactShape ==
  /\ DOMAIN work \subseteq Names /\ \A x \in DOMAIN work : work[x] \in Sizes
  /\ says \in Says
  /\ step \in {"idle", "packing", "made", "stopped", "arrived", "extracting", "done"}
  /\ waiting \in Seq(Names) /\ (step = "packing" => waiting \in Seq(ToSet(Sources)))
  /\ \A e \in ToSet(art) : Item(e)
  /\ origin \in {"none", "packed", "damaged", "foreign"}
  /\ caseless \in BOOLEAN
  /\ outcome \in {"none", "ok", "refused", "failed"}
  /\ changes \in 0 .. MaxChanges

\* The files that are collected are named.
LEMMA SourcesNamed ==
  /\ Sources \in Seq(ToSet(Sources)) /\ Sources \in Seq(Names)
  /\ ToSet(Sources) = {"Lib/x", "Lib/y", "README.md", "Src", "data/x", "lib/y", "main.py", "readme.md", "src/a"}
  /\ Meta \notin ToSet(Sources) /\ Manifest \notin ToSet(Sources)
  /\ \A T : /\ Those(Sources, T) \in Seq(Names) /\ Those(Sources, T) \in Seq(ToSet(Sources))
            /\ ToSet(Those(Sources, T)) = ToSet(Sources) \cap T
<1> DEFINE nine == {"Lib/x", "Lib/y", "README.md", "Src", "data/x", "lib/y", "main.py", "readme.md", "src/a"}
<1>1. Sources \in Seq(nine) /\ Len(Sources) = 9 BY DEF Sources
<1>2. ToSet(Sources) = nine
  <2>1. DOMAIN Sources = 1 .. 9 BY <1>1, LenProperties
  <2>2. 1 .. 9 = {1, 2, 3, 4, 5, 6, 7, 8, 9} OBVIOUS
  <2> QED BY <2>1, <2>2 DEF ToSet, Sources
<1>3. ToSet(Sources) \subseteq Names BY DEF Names
<1>4. Sources \in Seq(Names) BY <1>1, <1>2, <1>3, SeqMonotonic
<1>5. \A T : /\ Those(Sources, T) \in Seq(Names) /\ Those(Sources, T) \in Seq(ToSet(Sources))
             /\ ToSet(Those(Sources, T)) = ToSet(Sources) \cap T
  BY <1>1, <1>2, <1>4, ThoseFacts
<1>6. Meta \notin ToSet(Sources) /\ Manifest \notin ToSet(Sources) BY <1>2 DEF Meta, Manifest
<1> QED BY <1>1, <1>2, <1>4, <1>5, <1>6

LEMMA ItemFacts ==
  ASSUME NEW e, Item(e)
  PROVE  /\ e.name \in Names /\ e.size \in Sizes /\ e.sound \in BOOLEAN
         /\ e.name = Manifest => e.says \in Says
  BY DEF Item, ItemRec

LEMMA EntriesMade ==
  /\ \A x \in Names \ {Manifest}, size \in Sizes : Item(ZipEntry(x, size))
  /\ says \in Says => Item(ManifestEntry)
  /\ ManifestEntry = [name |-> Manifest, size |-> "fits", says |-> says, sound |-> TRUE]
  /\ Meta \in Names \ {Manifest} /\ "fits" \in Sizes
<1>1. Meta \in Names \ {Manifest} /\ Manifest \in Names /\ "fits" \in Sizes
  BY DEF Names, Meta, Manifest, Sizes
<1>2. ManifestEntry = [name |-> Manifest, size |-> "fits", says |-> says, sound |-> TRUE]
  <2> DEFINE plain == ZipEntry(Manifest, "fits")
  <2>1. plain = [name |-> Manifest, size |-> "fits", says |-> "", sound |-> TRUE]
    BY DEF ZipEntry
  <2>2. ManifestEntry = [plain EXCEPT !.says = says] BY DEF ManifestEntry
  <2> HIDE DEF plain
  <2> QED BY <2>1, <2>2
<1>3. \A x \in Names \ {Manifest}, size \in Sizes : Item(ZipEntry(x, size))
  BY DEF Item, ItemRec, ZipEntry
<1>4. says \in Says => Item(ManifestEntry) BY <1>1, <1>2 DEF Item, ItemRec
<1> QED BY <1>1, <1>2, <1>3, <1>4

LEMMA RestOf == ASSUME NEW S, NEW w \in Seq(S), w # <<>> PROVE Tail(w) \in Seq(S) /\ Head(w) \in S
  BY HeadTailProperties

LEMMA ArtifactShapeInitially == ArtifactInit => ArtifactShape
<1> SUFFICES ASSUME ArtifactInit PROVE ArtifactShape
  OBVIOUS
<1>1. waiting \in Seq(Names) /\ ToSet(art) = {} BY EmptySeq DEF ArtifactInit, ToSet
<1>2. DOMAIN work \subseteq Names /\ \A x \in DOMAIN work : work[x] \in Sizes
  BY DEF ArtifactInit, Directories
<1>3. changes \in 0 .. MaxChanges BY ArtifactAssumption DEF ArtifactInit
<1> QED BY <1>1, <1>2, <1>3 DEF ArtifactInit, ArtifactShape, Says

LEMMA PackingKeepsShape ==
  ASSUME ArtifactInv, ArtifactShape, StartPacking \/ ChangeDirectory \/ PackFile \/ Finish
  PROVE  ArtifactShape'
<1>1. CASE StartPacking
  <2>1. CASE outcome' = "refused" /\ step' = "stopped" /\ UNCHANGED <<waiting, art, origin>>
    BY <1>1, <2>1 DEF StartPacking, ArtifactShape, workVars
  <2>2. CASE /\ art' = <<ZipEntry(Meta, "fits"), ManifestEntry>> /\ waiting' = SourceFiles
             /\ step' = "packing" /\ origin' = "packed" /\ outcome' = "none"
    <3>1. waiting' \in Seq(Names) /\ waiting' \in Seq(ToSet(Sources)) BY <2>2, SourcesNamed DEF SourceFiles
    <3>2. ToSet(art') \subseteq {ZipEntry(Meta, "fits"), ManifestEntry} BY <2>2 DEF ToSet
    <3>3. \A e \in ToSet(art') : Item(e) BY <3>2, EntriesMade DEF ArtifactShape
    <3> QED BY <1>1, <2>2, <3>1, <3>3 DEF StartPacking, ArtifactShape, workVars
  <2> QED BY <1>1, <2>1, <2>2 DEF StartPacking
<1>2. CASE ChangeDirectory
  <2>1. PICK x \in ToSet(waiting) :
          \/ work' = [y \in DOMAIN work \ {x} |-> work[y]]
          \/ \E size \in Sizes \ {work[x]} : work' = [work EXCEPT ![x] = size]
    BY <1>2 DEF ChangeDirectory
  <2>2. DOMAIN work' \subseteq Names /\ \A y \in DOMAIN work' : work'[y] \in Sizes
    BY <2>1 DEF ArtifactShape
  <2>3. changes' \in 0 .. MaxChanges BY <1>2, ArtifactAssumption DEF ChangeDirectory, ArtifactShape
  <2> QED BY <1>2, <2>2, <2>3 DEF ChangeDirectory, ArtifactShape
<1>3. CASE PackFile
  <2>1. CASE step' = "stopped" /\ outcome' = "failed" /\ UNCHANGED <<waiting, art>>
    BY <1>3, <2>1 DEF PackFile, ArtifactShape, workVars
  <2>2. CASE /\ Head(waiting) \in DOMAIN work
             /\ art' = Append(art, ZipEntry(Head(waiting), work[Head(waiting)]))
             /\ waiting' = Tail(waiting) /\ UNCHANGED <<step, outcome>>
    <3> DEFINE e == ZipEntry(Head(waiting), work[Head(waiting)])
    <3>1. ToSet(art') = ToSet(art) \cup {e}
      <4>1. art' = Append(art, e) BY <2>2
      <4> HIDE DEF e
      <4> QED BY <4>1, AppendedSet DEF ArtifactInv
    <3>2. Head(waiting) # Manifest BY <1>3, SourcesNamed, RestOf DEF PackFile, ArtifactShape
    <3>3. Item(e) BY <2>2, <3>2, EntriesMade DEF ArtifactShape
    <3>4. \A c \in ToSet(art') : Item(c) BY <3>1, <3>3 DEF ArtifactShape
    <3>5. waiting' \in Seq(Names) /\ waiting' \in Seq(ToSet(Sources))
      BY <1>3, <2>2, RestOf DEF PackFile, ArtifactShape
    <3> QED BY <1>3, <2>2, <3>4, <3>5 DEF PackFile, ArtifactShape, workVars
  <2> QED BY <1>3, <2>1, <2>2 DEF PackFile
<1>4. CASE Finish BY <1>4 DEF Finish, ArtifactShape, workVars
<1> QED BY <1>1, <1>2, <1>3, <1>4

LEMMA ArriveKeepsShape == ASSUME ArtifactInv, ArtifactShape, Arrive PROVE ArtifactShape'
<1>1. step' = "arrived" /\ UNCHANGED <<work, says, waiting, caseless, unpacked, outcome, changes, past>>
  BY DEF Arrive, workVars
<1>2. CASE UNCHANGED <<art, origin>> BY <1>1, <1>2 DEF ArtifactShape
<1>3. CASE art' \in Damaged(art) /\ origin' = "damaged"
  <2>1. PICK i \in DOMAIN art : art' = [art EXCEPT ![i].sound = FALSE] BY <1>3 DEF Damaged
  <2>2. \A j \in DOMAIN art : Item(art[j]) BY DEF ArtifactShape, ToSet
  <2>3. DOMAIN art' = DOMAIN art /\ \A j \in DOMAIN art \ {i} : art'[j] = art[j] BY <2>1
  <2>4. Item(art'[i])
    <3>1. art'[i] = [art[i] EXCEPT !.sound = FALSE] BY <2>1
    <3> QED BY <2>2, <3>1 DEF Item, ItemRec
  <2>5. \A e \in ToSet(art') : Item(e) BY <2>2, <2>3, <2>4 DEF ToSet
  <2> QED BY <1>1, <1>3, <2>5 DEF ArtifactShape
<1>4. CASE /\ origin' = "foreign"
           /\ \E x, y, z \in Names \ {Manifest}, size \in Sizes :
                art' = <<ZipEntry(x, "fits"), ManifestEntry, ZipEntry(y, "fits"), ZipEntry(z, size)>>
  <2>1. PICK x, y, z \in Names \ {Manifest}, size \in Sizes :
          art' = <<ZipEntry(x, "fits"), ManifestEntry, ZipEntry(y, "fits"), ZipEntry(z, size)>>
    BY <1>4
  <2>2. ToSet(art') \subseteq {ZipEntry(x, "fits"), ManifestEntry, ZipEntry(y, "fits"), ZipEntry(z, size)}
    BY <2>1 DEF ToSet
  <2>3. \A e \in ToSet(art') : Item(e) BY <2>2, EntriesMade DEF ArtifactShape
  <2> QED BY <1>1, <1>4, <2>3 DEF ArtifactShape
<1> QED BY <1>2, <1>3, <1>4 DEF Arrive

LEMMA ExtractionKeepsShape ==
  ASSUME ArtifactInv, ArtifactShape, StartExtraction \/ ExtractFile \/ DiskFails \/ EndExtraction
  PROVE  ArtifactShape'
<1>1. /\ UNCHANGED <<work, says, art, origin, caseless, changes>>
      /\ step' \in {"extracting", "done"} /\ outcome' \in {"none", "ok", "refused", "failed"}
  BY DEF StartExtraction, ExtractFile, DiskFails, EndExtraction, GiveUp, workVars, ArtifactShape
<1>2. waiting' \in Seq(Names)
  <2>1. CASE StartExtraction /\ waiting' = [i \in DOMAIN art |-> art[i].name]
    <3>1. DOMAIN art = 1 .. Len(art) /\ Len(art) \in Nat BY OverItsOwn DEF ArtifactInv
    <3>2. \A i \in DOMAIN art : art[i].name \in Names BY ItemFacts DEF ArtifactShape, ToSet
    <3> QED BY <2>1, <3>1, <3>2, IsASeq
  <2>2. CASE waiting' = waiting BY <2>2 DEF ArtifactShape
  <2>3. CASE waiting # <<>> /\ waiting' = Tail(waiting) BY <2>3, RestOf DEF ArtifactShape
  <2> QED BY <2>1, <2>2, <2>3 DEF StartExtraction, ExtractFile, DiskFails, EndExtraction
<1> QED BY <1>1, <1>2 DEF ArtifactShape

LEMMA PackAgainKeepsShape == ASSUME ArtifactInv, ArtifactShape, PackAgain PROVE ArtifactShape'
<1>1. /\ step = "done" /\ origin = "packed" /\ step' = "idle" /\ art' = <<>> /\ outcome' = "none"
      /\ UNCHANGED <<waiting, origin, caseless, changes>> /\ ExtractFits
      /\ work' = [x \in {ReadBack(unpacked[p].name) : p \in DOMAIN unpacked} |->
                    (CHOOSE e \in ToSet(art) : ReadBack(e.name) = x).size]
  BY DEF PackAgain, ArtifactInv
<1>2. PICK e \in ToSet(art) : e.name = Manifest /\ says' = e.says BY DEF PackAgain
<1>3. says' \in Says BY <1>2 DEF ArtifactShape, Item
<1>4. \A p \in DOMAIN unpacked : unpacked[p] \in ToSet(art) BY <1>1 DEF ExtractFits
<1>5. ASSUME NEW x \in DOMAIN work' PROVE x \in Names /\ work'[x] \in Sizes
  <2>1. PICK p \in DOMAIN unpacked : x = ReadBack(unpacked[p].name) BY <1>1, <1>5
  <2>2. (CHOOSE c \in ToSet(art) : ReadBack(c.name) = x) \in ToSet(art) BY <1>4, <2>1
  <2>3. \A c \in ToSet(art) : c.name \in Names /\ c.size \in Sizes
    BY DEF ArtifactShape, Item, ItemRec
  <2>4. x \in Names BY <1>4, <2>1, <2>3, ReadBackNames
  <2>5. work'[x] = (CHOOSE c \in ToSet(art) : ReadBack(c.name) = x).size BY <1>1, <1>5
  <2> QED BY <2>2, <2>3, <2>4, <2>5
<1>6. ToSet(art') = {} BY <1>1 DEF ToSet
<1> QED BY <1>1, <1>3, <1>5, <1>6 DEF ArtifactShape

LEMMA ArtifactShapeStep ==
  ArtifactInv /\ ArtifactShape /\ [ArtifactNext]_artifactVars => ArtifactShape'
<1> SUFFICES ASSUME ArtifactInv, ArtifactShape, [ArtifactNext]_artifactVars PROVE ArtifactShape'
  OBVIOUS
<1>1. CASE UNCHANGED artifactVars BY <1>1 DEF artifactVars, workVars, ArtifactShape
<1> QED
  BY <1>1, PackingKeepsShape, ArriveKeepsShape, ExtractionKeepsShape, PackAgainKeepsShape
  DEF ArtifactNext

\* The type invariant, from these two; now and after a step.
LEMMA NamedIn == \A w \in Seq(Names) : ToSet(w) \subseteq Names
  BY ElementOfSeq, LenProperties DEF ToSet

LEMMA ArtifactTyped == ArtifactInv /\ ArtifactShape => ArtifactTypeOK
<1> SUFFICES ASSUME ArtifactInv, ArtifactShape PROVE ArtifactTypeOK
  OBVIOUS
<1>1. ToSet(waiting) \subseteq Names BY NamedIn DEF ArtifactShape
<1>2. \A e \in ToSet(art) : e.name \in Names /\ e.size \in Sizes /\ e.sound \in BOOLEAN
  BY ItemFacts DEF ArtifactShape
<1>3. /\ \A x \in DOMAIN unpacked : unpacked[x] \in ToSet(art)
      /\ DOMAIN unpacked # {} => step = "extracting" \/ outcome = "ok" \/ past.left
  BY DEF ArtifactInv, ExtractFits, WholeOrNothing
<1> QED BY <1>1, <1>2, <1>3 DEF ArtifactShape, ArtifactTypeOK, Says

LEMMA ArtifactTypeStep ==
  (ArtifactInv /\ ArtifactShape) /\ [ArtifactNext]_artifactVars => (ArtifactInv /\ ArtifactShape)'
  BY ArtifactInductive, ArtifactShapeStep

\* The state of the way of an artifact keeps to its type.
THEOREM ArtifactTypeCorrect == ArtifactSpec => []ArtifactTypeOK
  BY ArtifactInitially, ArtifactShapeInitially, ArtifactTypeStep, ArtifactTyped, PTL DEF ArtifactSpec
-----------------------------------------------------------------------------
(* Artifacts: the second packing                                           *)

\* An artifact with the files of T, in the order of the sort, as far as they
\* do not wait.
InOrder(a, w, T) ==
  /\ Len(a) >= 2 /\ Len(a) + Len(w) = 2 + Len(Those(Sources, T))
  /\ a[1] = ZipEntry(Meta, "fits")
  /\ a[2] = [name |-> Manifest, size |-> "fits", says |-> a[2].says, sound |-> TRUE]
  /\ \A i \in 1 .. Len(a) - 2 : a[i + 2] = ZipEntry(Those(Sources, T)[i], a[i + 2].size)
  /\ \A i \in 1 .. Len(w) : w[i] = Those(Sources, T)[Len(a) - 2 + i]

\* What the first packing makes, until it is packed again.
FirstPacking ==
  past.first = <<>> /\ origin = "packed" =>
    /\ step # "idle"
    /\ step = "packing" => \E T \in SUBSET ToSet(Sources) : InOrder(art, waiting, T)
    /\ step \in {"made", "arrived", "extracting", "done"} =>
         \E T \in SUBSET ToSet(Sources) : InOrder(art, <<>>, T)
    /\ step = "done" /\ outcome = "ok" => Accepted(art)

\* The directory is what extracting the artifact a gives.
Holds(a) ==
  /\ a \in Seq(ToSet(a)) /\ Accepted(a)
  /\ \E T \in SUBSET ToSet(Sources) : InOrder(a, <<>>, T)
  /\ DOMAIN work = NamesOf(a) /\ \A i \in DOMAIN a : work[a[i].name] = a[i].size
  /\ says = a[2].says

\* What is packed so far is the beginning of a, and what waits the rest.
BeginningOf(a) ==
  /\ Len(art) >= 2 /\ Len(art) + Len(waiting) = Len(a)
  /\ \A i \in 1 .. Len(art) : art[i] = a[i]
  /\ \A i \in 1 .. Len(waiting) : waiting[i] = a[Len(art) + i].name

\* What was extracted kept its names.
Unrenamed == past.first # <<>> /\ ~ Merged(past.first)

SecondPacking ==
  Unrenamed =>
    /\ Holds(past.first) /\ step # "stopped"
    /\ step = "packing" => BeginningOf(past.first)
    /\ step = "made" => art = past.first

PackedInv == ArtifactInv /\ ArtifactShape /\ FirstPacking /\ SecondPacking

LEMMA ZipEntryFields ==
  \A name, size : ZipEntry(name, size).name = name /\ ZipEntry(name, size).size = size
  BY DEF ZipEntry

\* The names of an artifact that has all its files.
LEMMA OrderedNames ==
  ASSUME NEW a, a \in Seq(ToSet(a)), NEW T \in SUBSET ToSet(Sources), InOrder(a, <<>>, T)
  PROVE  /\ Len(a) = 2 + Len(Those(Sources, T)) /\ Len(a) \in Nat /\ Len(Those(Sources, T)) \in Nat
         /\ DOMAIN a = 1 .. Len(a) /\ DOMAIN Those(Sources, T) = 1 .. Len(Those(Sources, T))
         /\ a[1].name = Meta /\ a[2].name = Manifest
         /\ \A i \in 1 .. Len(Those(Sources, T)) : a[i + 2].name = Those(Sources, T)[i]
         /\ NamesOf(a) = {Meta, Manifest} \cup T
<1> DEFINE K == Those(Sources, T)
<1>1. K \in Seq(Names) /\ ToSet(K) = T
  <2>1. K \in Seq(Names) /\ ToSet(K) = ToSet(Sources) \cap T BY SourcesNamed
  <2> HIDE DEF K
  <2> QED BY <2>1
<1>2. /\ Len(K) \in Nat /\ DOMAIN K = 1 .. Len(K) /\ Len(a) \in Nat /\ DOMAIN a = 1 .. Len(a)
  BY <1>1, LenProperties
<1>3. /\ Len(a) + Len(<<>>) = 2 + Len(K) /\ a[1] = ZipEntry(Meta, "fits")
      /\ a[2] = [name |-> Manifest, size |-> "fits", says |-> a[2].says, sound |-> TRUE]
      /\ \A i \in 1 .. Len(a) - 2 : a[i + 2] = ZipEntry(K[i], a[i + 2].size)
  BY DEF InOrder
<1> HIDE DEF K
<1>4. Len(a) = 2 + Len(K)
  <2>1. Len(<<>>) = 0 OBVIOUS
  <2>2. Len(a) + 0 = 2 + Len(K) BY <1>3, <2>1, Zenon
  <2>3. \A x, y \in Nat : x + 0 = 2 + y => x = 2 + y OBVIOUS
  <2> QED BY <1>2, <2>2, <2>3, Zenon
<1>5. a[1].name = Meta /\ a[2].name = Manifest
  <2>1. a[1].name = Meta BY <1>3, ZipEntryFields
  <2>2. a[2].name = Manifest BY <1>3
  <2> QED BY <2>1, <2>2
<1>6. \A i \in 1 .. Len(K) : a[i + 2].name = K[i] /\ i + 2 \in 1 .. Len(a)
  <2>1. ASSUME NEW i \in 1 .. Len(K) PROVE a[i + 2].name = K[i] /\ i + 2 \in 1 .. Len(a)
    <3>1. i \in 1 .. Len(a) - 2 /\ i + 2 \in 1 .. Len(a) BY <1>2, <1>4
    <3> QED BY <1>3, <3>1, ZipEntryFields
  <2> QED BY <2>1
<1>7. \A j \in 1 .. Len(a) : j = 1 \/ j = 2 \/ (j - 2 \in 1 .. Len(K) /\ (j - 2) + 2 = j)
  BY <1>2, <1>4
<1>8. 1 \in 1 .. Len(a) /\ 2 \in 1 .. Len(a) BY <1>2, <1>4
<1>9. NamesOf(a) = {a[j].name : j \in 1 .. Len(a)} BY <1>2 DEF NamesOf, ToSet
<1>10. T = {K[i] : i \in 1 .. Len(K)} BY <1>1, <1>2 DEF ToSet
<1>11. NamesOf(a) = {Meta, Manifest} \cup T
  <2>1. ASSUME NEW j \in 1 .. Len(a) PROVE a[j].name \in {Meta, Manifest} \cup T
    <3>1. CASE j = 1 \/ j = 2 BY <1>5, <3>1
    <3>2. CASE j - 2 \in 1 .. Len(K) /\ (j - 2) + 2 = j
      <4>1. a[j].name = K[j - 2] BY <1>6, <3>2
      <4> QED BY <1>10, <3>2, <4>1
    <3> QED BY <1>7, <3>1, <3>2
  <2>2. {Meta, Manifest} \cup T \subseteq NamesOf(a)
    <3>1. Meta \in NamesOf(a) /\ Manifest \in NamesOf(a) BY <1>5, <1>8, <1>9
    <3>2. ASSUME NEW i \in 1 .. Len(K) PROVE K[i] \in NamesOf(a) BY <1>6, <1>9
    <3> QED BY <1>10, <3>1, <3>2
  <2> QED BY <1>9, <2>1, <2>2
<1> QED BY <1>2, <1>4, <1>5, <1>6, <1>11 DEF K

\* Of an accepted artifact, a name is that of one entry.
LEMMA OneOfAName ==
  ASSUME NEW a, Accepted(a), NEW i \in DOMAIN a, NEW j \in DOMAIN a, a[i].name = a[j].name
  PROVE  i = j
<1>1. \A k, l \in DOMAIN a : Lower(a[k].name) = Lower(a[l].name) => k = l BY DEF Accepted
<1> QED BY <1>1

\* What a directory that was extracted gives is collected in the same order,
\* and nothing of it is refused.
LEMMA CollectedAgain ==
  ASSUME NEW a, Holds(a)
  PROVE  /\ Manifest \in DOMAIN work /\ says # "unusable"
         /\ \A x \in ToSet(SourceFiles) : work[x] # "huge"
         /\ Len(a) = 2 + Len(SourceFiles) /\ Len(SourceFiles) \in Nat /\ Len(a) <= MaxFiles
         /\ a[1] = ZipEntry(Meta, "fits") /\ a[2] = ManifestEntry
         /\ \A i \in 1 .. Len(SourceFiles) : SourceFiles[i] = a[2 + i].name
<1>1. PICK T \in SUBSET ToSet(Sources) : InOrder(a, <<>>, T) BY DEF Holds
<1>2. /\ a \in Seq(ToSet(a)) /\ Accepted(a) /\ DOMAIN work = NamesOf(a) /\ says = a[2].says
      /\ \A i \in DOMAIN a : work[a[i].name] = a[i].size
  BY DEF Holds
<1> DEFINE K == Those(Sources, T)
<1>3. /\ Len(a) = 2 + Len(K) /\ Len(a) \in Nat /\ Len(K) \in Nat /\ DOMAIN a = 1 .. Len(a)
      /\ DOMAIN K = 1 .. Len(K) /\ a[1].name = Meta /\ a[2].name = Manifest
      /\ \A i \in 1 .. Len(K) : a[i + 2].name = K[i]
      /\ NamesOf(a) = {Meta, Manifest} \cup T
  BY <1>1, <1>2, OrderedNames
<1>4. /\ \A e \in ToSet(a) : ~ Excluded(e.name) /\ e.size # "huge"
      /\ Len(a) <= MaxFiles
      /\ \E e \in ToSet(a) : e.name = Manifest /\ e.says # "unusable"
  BY <1>2, <1>3, ArtifactAssumption DEF Accepted
<1>5. SourceFiles = K
  <2> DEFINE U == {x \in DOMAIN work : ~ Excluded(x)}
  <2>1. \A x \in NamesOf(a) : ~ Excluded(x) BY <1>4 DEF NamesOf
  <2>2. ToSet(Sources) \cap U = ToSet(Sources) \cap T
    BY <1>2, <1>3, <2>1, SourcesNamed
  <2> HIDE DEF U
  <2>3. Those(Sources, U) = Those(Sources, T) BY <2>2, SourcesNamed, ThoseAlike
  <2> QED BY <2>3 DEF SourceFiles, U
<1>6. ToSet(K) = {K[i] : i \in 1 .. Len(K)} BY <1>3 DEF ToSet
<1> HIDE DEF K
<1>7. ASSUME NEW i \in 1 .. Len(K) PROVE work[K[i]] # "huge"
  <2>1. i + 2 \in DOMAIN a /\ a[i + 2].name = K[i] BY <1>3
  <2>2. a[i + 2] \in ToSet(a) BY <2>1 DEF ToSet
  <2> QED BY <1>2, <1>4, <2>1, <2>2
<1>8. \A x \in ToSet(SourceFiles) : work[x] # "huge" BY <1>5, <1>6, <1>7
<1>9. says # "unusable"
  <2>1. PICK i \in DOMAIN a : a[i].name = Manifest /\ a[i].says # "unusable" BY <1>4 DEF ToSet
  <2>2. i = 2 BY <1>2, <1>3, <2>1, OneOfAName
  <2> QED BY <1>2, <2>1, <2>2
<1>10. a[1] = ZipEntry(Meta, "fits") /\ a[2] = ManifestEntry
  BY <1>1, <1>2, EntriesMade DEF InOrder
<1>11. \A i \in 1 .. Len(SourceFiles) : SourceFiles[i] = a[2 + i].name BY <1>3, <1>5
<1> QED BY <1>2, <1>3, <1>4, <1>5, <1>8, <1>9, <1>10, <1>11

-----------------------------------------------------------------------------
(* Artifacts: every step keeps what a second packing needs                 *)

\* What a directory holds is looked at nowhere but in the directory.
LEMMA HoldsStill ==
  ASSUME NEW a, Holds(a), UNCHANGED <<work, says>> PROVE Holds(a)'
  BY DEF Holds

LEMMA NamesStay ==
  ASSUME UNCHANGED caseless, past'.first = past.first PROVE Unrenamed' <=> Unrenamed
  BY DEF Unrenamed, Merged, NamesOf

LEMMA StartPackingPrepares == ASSUME PackedInv, StartPacking PROVE FirstPacking' /\ SecondPacking'
<1>1. /\ step = "idle" /\ UNCHANGED <<work, says, past>> /\ (Unrenamed' <=> Unrenamed)
      /\ ArtifactShape /\ FirstPacking /\ SecondPacking
  BY NamesStay DEF StartPacking, workVars, PackedInv
<1>2. CASE /\ step' = "stopped" /\ UNCHANGED origin
           /\ \/ Manifest \notin DOMAIN work \/ says = "unusable"
              \/ \E x \in ToSet(SourceFiles) : work[x] = "huge"
              \/ Len(SourceFiles) + 2 > MaxFiles
  <2>1. ~ Unrenamed
    <3> SUFFICES ASSUME Unrenamed PROVE FALSE
      OBVIOUS
    <3>1. Holds(past.first) BY <1>1 DEF SecondPacking
    <3> HIDE DEF Holds
    <3>2. /\ Manifest \in DOMAIN work /\ says # "unusable"
          /\ \A x \in ToSet(SourceFiles) : work[x] # "huge"
          /\ Len(past.first) = 2 + Len(SourceFiles) /\ Len(SourceFiles) \in Nat
          /\ Len(past.first) <= MaxFiles
      BY <3>1, CollectedAgain
    <3>3. MaxFiles \in Nat BY ArtifactAssumption
    <3> QED BY <1>2, <3>2, <3>3
  <2> QED BY <1>1, <1>2, <2>1 DEF FirstPacking, SecondPacking
<1>3. CASE /\ art' = <<ZipEntry(Meta, "fits"), ManifestEntry>> /\ waiting' = SourceFiles
           /\ step' = "packing" /\ origin' = "packed" /\ outcome' = "none"
  <2>1. /\ Len(art') = 2 /\ art'[1] = ZipEntry(Meta, "fits") /\ art'[2] = ManifestEntry
    BY <1>3
  <2>2. FirstPacking'
    <3> DEFINE U == {x \in DOMAIN work : ~ Excluded(x)}
               T == ToSet(Sources) \cap U
    <3>1. ToSet(Sources) \cap T = ToSet(Sources) \cap U OBVIOUS
    <3> HIDE DEF U
    <3>2. Those(Sources, T) = Those(Sources, U) BY <3>1, SourcesNamed, ThoseAlike
    <3>3. waiting' = Those(Sources, T) BY <1>3, <3>2 DEF SourceFiles, U
    <3>4. T \in SUBSET ToSet(Sources) OBVIOUS
    <3> HIDE DEF T
    <3>5. waiting' \in Seq(Names) BY <3>3, SourcesNamed
    <3>6. Len(waiting') \in Nat BY <3>5, LenProperties
    <3>7. art'[2] = [name |-> Manifest, size |-> "fits", says |-> art'[2].says, sound |-> TRUE]
      BY <2>1, EntriesMade
    <3>8. InOrder(art', waiting', T)
      <4>1. Len(art') >= 2 /\ Len(art') + Len(waiting') = 2 + Len(Those(Sources, T)) BY <2>1, <3>3, <3>6
      <4>2. 1 .. Len(art') - 2 = {} BY <2>1
      <4>3. ASSUME NEW i \in 1 .. Len(waiting')
            PROVE  waiting'[i] = Those(Sources, T)[Len(art') - 2 + i]
        <5>1. Len(art') - 2 + i = i BY <2>1, <3>6
        <5> QED BY <3>3, <5>1
      <4> QED BY <2>1, <3>7, <4>1, <4>2, <4>3 DEF InOrder
    <3> QED BY <1>1, <1>3, <3>4, <3>8 DEF FirstPacking
  <2>3. SecondPacking'
    <3> SUFFICES ASSUME Unrenamed PROVE Holds(past.first)' /\ BeginningOf(past.first)'
      BY <1>1, <1>3 DEF SecondPacking
    <3>1. Holds(past.first) BY <1>1 DEF SecondPacking
    <3>2. Holds(past.first)' BY <1>1, <3>1 DEF Holds
    <3>3. /\ Len(past.first) = 2 + Len(SourceFiles) /\ Len(SourceFiles) \in Nat
          /\ past.first[1] = ZipEntry(Meta, "fits") /\ past.first[2] = ManifestEntry
          /\ \A i \in 1 .. Len(SourceFiles) : SourceFiles[i] = past.first[2 + i].name
      BY <3>1, CollectedAgain
    <3>4. 1 .. 2 = {1, 2} OBVIOUS
    <3>5. \A i \in 1 .. Len(art') : art'[i] = past.first[i] BY <2>1, <3>3, <3>4
    <3>6. BeginningOf(past.first)'
      <4>1. past'.first = past.first BY <1>1
      <4>2. Len(art') + Len(waiting') = Len(past.first) BY <1>3, <2>1, <3>3
      <4>3. \A i \in 1 .. Len(waiting') : waiting'[i] = past.first[Len(art') + i].name
        BY <1>3, <2>1, <3>3
      <4> QED BY <2>1, <3>5, <4>1, <4>2, <4>3 DEF BeginningOf
    <3> QED BY <3>2, <3>6
  <2> QED BY <2>2, <2>3
<1> QED BY <1>2, <1>3 DEF StartPacking

LEMMA PackFileContinues == ASSUME PackedInv, PackFile PROVE FirstPacking' /\ SecondPacking'
<1>1. /\ step = "packing" /\ waiting # <<>> /\ UNCHANGED <<work, says, origin, past>>
      /\ (Unrenamed' <=> Unrenamed)
      /\ FirstPacking /\ SecondPacking /\ art \in Seq(ToSet(art)) /\ waiting \in Seq(Names)
  BY NamesStay DEF PackFile, workVars, PackedInv, ArtifactInv, ArtifactShape
<1>2. /\ Len(art) \in Nat /\ Len(waiting) \in Nat \ {0} /\ Head(waiting) = waiting[1]
      /\ Tail(waiting) \in Seq(Names) /\ Len(Tail(waiting)) = Len(waiting) - 1
      /\ \A i \in 1 .. Len(waiting) - 1 : Tail(waiting)[i] = waiting[i + 1]
  BY <1>1, LenProperties, HeadTailProperties, EmptySeq
<1>3. ASSUME Unrenamed
      PROVE  /\ BeginningOf(past.first) /\ Holds(past.first)
             /\ Head(waiting) \in DOMAIN work
             /\ ZipEntry(Head(waiting), work[Head(waiting)]) = past.first[Len(art) + 1]
  <2> DEFINE a == past.first
             n == Len(art) + 1
  <2>1. /\ BeginningOf(a) /\ Holds(a) BY <1>1, <1>3 DEF SecondPacking
  <2> HIDE DEF a
  <2>2. PICK T \in SUBSET ToSet(Sources) : InOrder(a, <<>>, T) BY <2>1 DEF Holds
  <2>3. a \in Seq(ToSet(a)) /\ DOMAIN work = NamesOf(a) /\ \A i \in DOMAIN a : work[a[i].name] = a[i].size
    BY <2>1 DEF Holds
  <2>4. DOMAIN a = 1 .. Len(a) /\ Len(a) \in Nat BY <2>3, LenProperties
  <2>5. /\ Len(art) >= 2 /\ Len(art) + Len(waiting) = Len(a)
        /\ \A i \in 1 .. Len(waiting) : waiting[i] = a[Len(art) + i].name
    BY <2>1 DEF BeginningOf
  <2>6. 1 \in 1 .. Len(waiting) /\ n \in 1 .. Len(a) /\ n - 2 \in 1 .. Len(a) - 2 /\ (n - 2) + 2 = n
    BY <1>2, <2>4, <2>5
  <2>7. Head(waiting) = a[n].name BY <1>2, <2>5, <2>6
  <2>8. a[n] = ZipEntry(Those(Sources, T)[n - 2], a[n].size)
    <3>1. \A i \in 1 .. Len(a) - 2 : a[i + 2] = ZipEntry(Those(Sources, T)[i], a[i + 2].size)
      BY <2>2 DEF InOrder
    <3> QED BY <2>6, <3>1
  <2>9. a[n] = ZipEntry(a[n].name, a[n].size) BY <2>8, ZipEntryFields
  <2>10. a[n].name \in NamesOf(a) /\ work[a[n].name] = a[n].size BY <2>3, <2>4, <2>6 DEF NamesOf, ToSet
  <2> QED BY <2>1, <2>3, <2>7, <2>9, <2>10 DEF a
<1>4. CASE Head(waiting) \notin DOMAIN work /\ step' = "stopped"
  <2>1. ~ Unrenamed BY <1>3, <1>4
  <2> QED BY <1>1, <1>4, <2>1 DEF FirstPacking, SecondPacking
<1>5. CASE /\ art' = Append(art, ZipEntry(Head(waiting), work[Head(waiting)]))
           /\ waiting' = Tail(waiting) /\ UNCHANGED <<step, outcome>>
  <2> DEFINE e == ZipEntry(Head(waiting), work[Head(waiting)])
             n == Len(art) + 1
  <2>1. /\ Len(art') = n /\ art'[n] = e /\ \A i \in 1 .. Len(art) : art'[i] = art[i]
    <3>1. art' = Append(art, e) BY <1>5
    <3> HIDE DEF e
    <3>2. art \in Seq(ToSet(art) \cup {e}) BY <1>1, SeqMonotonic
    <3> QED BY <3>1, <3>2, AppendProperties
  <2>2. /\ Len(waiting') = Len(waiting) - 1 /\ Len(art') + Len(waiting') = Len(art) + Len(waiting)
        /\ \A i \in 1 .. Len(waiting') : i + 1 \in 1 .. Len(waiting) /\ waiting'[i] = waiting[i + 1]
    BY <1>2, <1>5, <2>1
  <2>3. FirstPacking'
    <3> SUFFICES ASSUME past.first = <<>>, origin = "packed"
                 PROVE  \E T \in SUBSET ToSet(Sources) : InOrder(art', waiting', T)
      BY <1>1, <1>5 DEF FirstPacking
    <3>1. PICK T \in SUBSET ToSet(Sources) : InOrder(art, waiting, T) BY <1>1 DEF FirstPacking
    <3> DEFINE K == Those(Sources, T)
    <3>2. /\ Len(art) >= 2 /\ Len(art) + Len(waiting) = 2 + Len(K)
          /\ art[1] = ZipEntry(Meta, "fits")
          /\ art[2] = [name |-> Manifest, size |-> "fits", says |-> art[2].says, sound |-> TRUE]
          /\ \A i \in 1 .. Len(art) - 2 : art[i + 2] = ZipEntry(K[i], art[i + 2].size)
          /\ \A i \in 1 .. Len(waiting) : waiting[i] = K[Len(art) - 2 + i]
      BY <3>1 DEF InOrder
    <3> HIDE DEF K, e
    <3>3. art'[1] = art[1] /\ art'[2] = art[2] BY <1>2, <2>1, <3>2
    <3>4. ASSUME NEW i \in 1 .. Len(art') - 2 PROVE art'[i + 2] = ZipEntry(K[i], art'[i + 2].size)
      <4>1. CASE i \in 1 .. Len(art) - 2
        <5>1. i + 2 \in 1 .. Len(art) BY <1>2, <4>1
        <5> QED BY <2>1, <3>2, <4>1, <5>1
      <4>2. CASE i = Len(art) - 1
        <5>1. i + 2 = n /\ Len(art) - 2 + 1 = i /\ 1 \in 1 .. Len(waiting) BY <1>2, <4>2
        <5>2. waiting[1] = K[i] BY <3>2, <5>1
        <5>3. art'[i + 2] = e BY <2>1, <5>1
        <5>4. e = ZipEntry(K[i], work[Head(waiting)]) BY <1>2, <5>2 DEF e
        <5> QED BY <5>3, <5>4, ZipEntryFields
      <4>3. i \in 1 .. Len(art) - 2 \/ i = Len(art) - 1 BY <1>2, <2>1
      <4> QED BY <4>1, <4>2, <4>3
    <3>5. ASSUME NEW i \in 1 .. Len(waiting') PROVE waiting'[i] = K[Len(art') - 2 + i]
      <4>1. Len(art) - 2 + (i + 1) = Len(art') - 2 + i BY <1>2, <2>1, <2>2
      <4> QED BY <2>2, <3>2, <4>1
    <3>6. Len(art') >= 2 /\ Len(art') + Len(waiting') = 2 + Len(K)
      <4>1. Len(art') >= 2 BY <1>2, <2>1, <3>2
      <4>2. Len(art') + Len(waiting') = 2 + Len(K) BY <2>2, <3>2, Zenon
      <4> QED BY <4>1, <4>2
    <3>7. InOrder(art', waiting', T) BY <3>2, <3>3, <3>4, <3>5, <3>6 DEF InOrder, K
    <3> QED BY <3>7
  <2>4. SecondPacking'
    <3> SUFFICES ASSUME Unrenamed PROVE Holds(past.first)' /\ BeginningOf(past.first)'
      BY <1>1, <1>5 DEF SecondPacking
    <3>1. Holds(past.first)' BY <1>1, <1>3 DEF Holds
    <3>2. /\ Len(art) >= 2 /\ Len(art) + Len(waiting) = Len(past.first)
          /\ \A i \in 1 .. Len(art) : art[i] = past.first[i]
          /\ \A i \in 1 .. Len(waiting) : waiting[i] = past.first[Len(art) + i].name
      BY <1>3 DEF BeginningOf
    <3>3. e = past.first[n] BY <1>3
    <3> HIDE DEF e
    <3>4. ASSUME NEW i \in 1 .. Len(art') PROVE art'[i] = past.first[i]
      <4>1. i \in 1 .. Len(art) \/ i = n BY <1>2, <2>1
      <4> QED BY <2>1, <3>2, <3>3, <4>1
    <3>5. ASSUME NEW i \in 1 .. Len(waiting') PROVE waiting'[i] = past.first[Len(art') + i].name
      <4>1. Len(art) + (i + 1) = Len(art') + i BY <1>2, <2>1, <2>2
      <4> QED BY <2>2, <3>2, <4>1
    <3>6. Len(art') >= 2 /\ Len(art') + Len(waiting') = Len(past.first)
      <4>1. Len(art') >= 2 BY <1>2, <2>1, <3>2
      <4>2. Len(art') + Len(waiting') = Len(past.first) BY <2>2, <3>2, Zenon
      <4> QED BY <4>1, <4>2
    <3>7. past'.first = past.first BY <1>1
    <3> QED BY <3>1, <3>4, <3>5, <3>6, <3>7 DEF BeginningOf
  <2> QED BY <2>3, <2>4
<1> QED BY <1>4, <1>5 DEF PackFile

\* Two lists with the same elements in the same places are the same.
LEMMA SameList ==
  ASSUME NEW S, NEW U, NEW s \in Seq(S), NEW u \in Seq(U), Len(s) = Len(u),
         \A i \in 1 .. Len(s) : s[i] = u[i]
  PROVE  s = u
<1>1. s \in Seq(S \cup U) /\ u \in Seq(S \cup U) BY SeqMonotonic
<1> QED BY <1>1, SeqEqual

LEMMA FinishCompletes == ASSUME PackedInv, Finish PROVE FirstPacking' /\ SecondPacking'
<1>1. /\ step = "packing" /\ waiting = <<>> /\ UNCHANGED <<work, says, waiting, art, origin, past>>
      /\ (Unrenamed' <=> Unrenamed)
      /\ FirstPacking /\ SecondPacking /\ art \in Seq(ToSet(art))
      /\ IF Accepted(art) THEN step' = "made" ELSE step' = "stopped"
  BY NamesStay DEF Finish, workVars, PackedInv, ArtifactInv
<1>2. FirstPacking'
  <2>1. past.first = <<>> /\ origin = "packed" => \E T \in SUBSET ToSet(Sources) : InOrder(art, <<>>, T)
    BY <1>1 DEF FirstPacking
  <2>2. past' = past /\ art' = art /\ origin' = origin /\ step' \in {"made", "stopped"} BY <1>1
  <2> QED BY <2>1, <2>2 DEF FirstPacking
<1>3. CASE Unrenamed
  <2>1. Holds(past.first) /\ BeginningOf(past.first) BY <1>1, <1>3 DEF SecondPacking
  <2>2. past.first \in Seq(ToSet(past.first)) /\ Accepted(past.first) BY <2>1 DEF Holds
  <2>3. Len(art) = Len(past.first)
    <3>1. Len(<<>>) = 0 OBVIOUS
    <3>2. Len(art) + 0 = Len(past.first) BY <1>1, <2>1, <3>1, Zenon DEF BeginningOf
    <3>3. Len(art) \in Nat BY <1>1, LenProperties
    <3>4. \A x, y : x \in Nat /\ x + 0 = y => x = y OBVIOUS
    <3> QED BY <3>2, <3>3, <3>4, Zenon
  <2>4. art = past.first BY <1>1, <2>1, <2>2, <2>3, SameList DEF BeginningOf
  <2>5. step' = "made" BY <1>1, <2>2, <2>4
  <2>6. Holds(past.first)' BY <1>1, <2>1 DEF Holds
  <2> QED BY <1>1, <1>2, <2>4, <2>5, <2>6 DEF SecondPacking
<1> QED BY <1>1, <1>2, <1>3 DEF SecondPacking

\* What was extracted is the directory the second packing begins with.
LEMMA PackAgainHolds == ASSUME PackedInv, PackAgain PROVE FirstPacking' /\ SecondPacking'
<1>1. /\ step = "done" /\ outcome = "ok" /\ origin = "packed" /\ past.first = <<>> /\ step' = "idle"
      /\ past' = [past EXCEPT !.first = art] /\ PastFits /\ ExtractFits /\ PackFits /\ WholeOrNothing
      /\ work' = [x \in {ReadBack(unpacked[p].name) : p \in DOMAIN unpacked} |->
                    (CHOOSE e \in ToSet(art) : ReadBack(e.name) = x).size]
      /\ caseless' = caseless /\ art \in Seq(ToSet(art)) /\ FirstPacking
  BY DEF PackAgain, PackedInv, ArtifactInv
<1>2. Accepted(art) BY <1>1 DEF FirstPacking
<1>3. PICK T \in SUBSET ToSet(Sources) : InOrder(art, <<>>, T) BY <1>1 DEF FirstPacking
<1>4. PICK e \in ToSet(art) : e.name = Manifest /\ says' = e.says BY DEF PackAgain
<1>5. /\ Len(art) = 2 + Len(Those(Sources, T)) /\ Len(art) \in Nat /\ Len(Those(Sources, T)) \in Nat
      /\ DOMAIN art = 1 .. Len(art) /\ art[1].name = Meta /\ art[2].name = Manifest
  BY <1>1, <1>3, OrderedNames
<1>6. past'.first = art
  <2>1. past' = [first |-> art, faulty |-> past.faulty, left |-> past.left] BY <1>1 DEF PastFits
  <2> QED BY <2>1
<1>7. says' = art[2].says
  <2>1. PICK i \in DOMAIN art : e = art[i] BY DEF ToSet
  <2>2. 2 \in DOMAIN art BY <1>5
  <2>3. i = 2 BY <1>2, <1>4, <1>5, <2>1, <2>2, OneOfAName
  <2> QED BY <1>4, <2>1, <2>3
<1>8. ASSUME NEW i \in DOMAIN art PROVE \E p \in DOMAIN unpacked : unpacked[p].name = art[i].name
  <2>1. /\ Place(art[i].name) \in DOMAIN unpacked /\ unpacked[Place(art[i].name)] = art[i]
        \/ \E j \in DOMAIN art \ {i} : Normal(art[i].name) = Normal(art[j].name)
    BY <1>1 DEF WholeOrNothing
  <2>2. ASSUME NEW j \in DOMAIN art \ {i}, Normal(art[i].name) = Normal(art[j].name) PROVE FALSE
    <3>1. art[i].name \in OwnNames /\ art[j].name \in OwnNames BY <1>1 DEF PackFits, NamesOf, ToSet
    <3>2. art[i].name = art[j].name BY <2>2, <3>1 DEF Normal, OwnNames
    <3> QED BY <1>2, <3>2, OneOfAName
  <2> QED BY <2>1, <2>2
<1>9. ASSUME ~ Merged(art) PROVE Holds(past.first)'
  <2>1. \A name : ReadBack(name) = name BY <1>9 DEF ReadBack
  <2>2. DOMAIN work' = {ReadBack(unpacked[p].name) : p \in DOMAIN unpacked} BY <1>1
  <2>3. DOMAIN work' = NamesOf(art)
    <3>1. \A p \in DOMAIN unpacked : unpacked[p].name \in NamesOf(art) BY <1>1 DEF ExtractFits, NamesOf
    <3>2. NamesOf(art) = {art[i].name : i \in DOMAIN art} BY DEF NamesOf, ToSet
    <3> QED BY <1>8, <2>1, <2>2, <3>1, <3>2
  <2>4. ASSUME NEW i \in DOMAIN art PROVE work'[art[i].name] = art[i].size
    <3> DEFINE c == CHOOSE x \in ToSet(art) : ReadBack(x.name) = art[i].name
    <3>1. art[i] \in ToSet(art) /\ art[i].name \in NamesOf(art) BY DEF ToSet, NamesOf
    <3>2. c \in ToSet(art) /\ ReadBack(c.name) = art[i].name BY <2>1, <3>1
    <3>3. work'[art[i].name] = c.size BY <1>1, <2>2, <2>3, <3>1
    <3> HIDE DEF c
    <3>4. PICK j \in DOMAIN art : c = art[j] BY <3>2 DEF ToSet
    <3>5. j = i BY <1>2, <2>1, <3>2, <3>4, OneOfAName
    <3> QED BY <3>3, <3>4, <3>5
  <2>5. /\ art \in Seq(ToSet(art)) /\ Accepted(art)
        /\ \E S \in SUBSET ToSet(Sources) : InOrder(art, <<>>, S)
        /\ DOMAIN work' = NamesOf(art) /\ \A i \in DOMAIN art : work'[art[i].name] = art[i].size
        /\ says' = art[2].says
    BY <1>1, <1>2, <1>3, <1>7, <2>3, <2>4
  <2> QED BY <1>6, <2>5 DEF Holds
<1>10. art # <<>> BY <1>5, EmptySeq
<1>11. Unrenamed' => ~ Merged(art) BY <1>1, <1>6 DEF Unrenamed, Merged, NamesOf
<1> QED BY <1>1, <1>6, <1>9, <1>10, <1>11 DEF FirstPacking, SecondPacking

\* The way of an artifact does not touch the directory, nor what was packed.
LEMMA UntouchedByTheWay ==
  ASSUME PackedInv,
         Arrive \/ StartExtraction \/ ExtractFile \/ DiskFails \/ EndExtraction \/ ChangeDirectory
         \/ UNCHANGED artifactVars
  PROVE  FirstPacking' /\ SecondPacking'
<1>1. FirstPacking /\ SecondPacking /\ PastFits /\ ExtractFits
  BY DEF PackedInv, ArtifactInv
<1>2. CASE UNCHANGED artifactVars
  BY <1>1, <1>2, NamesStay
  DEF artifactVars, workVars, FirstPacking, SecondPacking, Holds, BeginningOf
<1>3. CASE ChangeDirectory
  <2>1. /\ past.first = <<>> /\ UNCHANGED <<step, waiting, art, origin, outcome, past>>
    BY <1>3 DEF ChangeDirectory
  <2> QED BY <1>1, <2>1 DEF FirstPacking, SecondPacking, Unrenamed
<1>4. CASE Arrive
  <2>1. /\ step \in {"made", "idle"} /\ step' = "arrived" /\ UNCHANGED <<work, says, outcome, past>>
        /\ \/ step = "made" /\ UNCHANGED <<art, origin>>
           \/ origin' \in {"damaged", "foreign"}
        /\ (Unrenamed' <=> Unrenamed)
    BY <1>4, NamesStay DEF Arrive, workVars
  <2>2. FirstPacking' BY <1>1, <2>1 DEF FirstPacking
  <2>3. SecondPacking' BY <1>1, <2>1 DEF SecondPacking, Holds
  <2> QED BY <2>2, <2>3
<1>5. CASE StartExtraction \/ ExtractFile \/ DiskFails \/ EndExtraction
  <2>1. /\ step \in {"arrived", "extracting"} /\ step' \in {"extracting", "done"}
        /\ UNCHANGED <<work, says, art, origin, caseless>>
    BY <1>5 DEF StartExtraction, ExtractFile, DiskFails, EndExtraction, GiveUp, workVars
  <2>2. past'.first = past.first
    <3>1. CASE past' = past BY <3>1
    <3>2. ASSUME NEW broken \in BOOLEAN, GiveUp(broken) PROVE past'.first = past.first
      <4>1. PICK stays \in BOOLEAN : past' = [past EXCEPT !.faulty = @ \/ broken, !.left = stays]
        BY <3>2 DEF GiveUp
      <4> QED BY <1>1, <4>1 DEF PastFits
    <3> QED BY <1>5, <3>1, <3>2 DEF StartExtraction, ExtractFile, DiskFails, EndExtraction
  <2>3. step' = "done" /\ outcome' = "ok" => Accepted(art)
    BY <1>1, <1>5
    DEF StartExtraction, ExtractFile, DiskFails, EndExtraction, GiveUp, ExtractFits
  <2>4. FirstPacking' BY <1>1, <2>1, <2>2, <2>3 DEF FirstPacking
  <2>5. SecondPacking' BY <1>1, <2>1, <2>2, NamesStay DEF SecondPacking, Holds
  <2> QED BY <2>4, <2>5
<1> QED BY <1>2, <1>3, <1>4, <1>5

LEMMA PackedInitially == ArtifactInit => PackedInv
<1> SUFFICES ASSUME ArtifactInit PROVE PackedInv
  OBVIOUS
<1>1. past.first = <<>> /\ origin = "none" BY DEF ArtifactInit
<1> QED
  BY <1>1, ArtifactInitially, ArtifactShapeInitially
  DEF PackedInv, FirstPacking, SecondPacking, Unrenamed

LEMMA PackedInductive == PackedInv /\ [ArtifactNext]_artifactVars => PackedInv'
<1> SUFFICES ASSUME PackedInv, [ArtifactNext]_artifactVars PROVE PackedInv'
  OBVIOUS
<1>1. ArtifactInv' /\ ArtifactShape' BY ArtifactInductive, ArtifactShapeStep DEF PackedInv
<1>2. FirstPacking' /\ SecondPacking'
  BY StartPackingPrepares, PackFileContinues, FinishCompletes, PackAgainHolds, UntouchedByTheWay
  DEF ArtifactNext
<1> QED BY <1>1, <1>2 DEF PackedInv

LEMMA PackedInvCorrect == ArtifactSpec => []PackedInv
  BY PackedInitially, PackedInductive, PTL DEF ArtifactSpec

\* What was packed, extracted and packed again without a change is the same
\* artifact, whatever the directory held and however it changed while it was
\* packed first, unless two of its directories became one where case is ignored.
THEOREM RepackedIsSame == ArtifactSpec => []RepackIsSame
<1>1. PackedInv => RepackIsSame BY DEF PackedInv, SecondPacking, RepackIsSame, Unrenamed
<1> QED BY <1>1, PackedInvCorrect, PTL
-----------------------------------------------------------------------------
(* Lists on screen and in storage                                          *)

\* A list of installations, each once; a list of recent ones is not too long.
ListOf(s) == s \in Seq(Listable) /\ IsInjective(s) /\ (list = "recent" => Len(s) <= RecentMax)

ListFits ==
  /\ ListOf(onScreen) /\ ListOf(stored)
  /\ \A n \in DOMAIN hydrating : ListOf(hydrating[n].ids)
  /\ counts = [changes |-> counts.changes, clicks |-> counts.clicks, loads |-> counts.loads,
               hydrations |-> counts.hydrations]
  /\ counts.clicks \in Nat

\* While nothing has interfered, at most one hydration is under way, and it
\* knows what is stored and installed.
OneHydration ==
  /\ \A m, n \in DOMAIN hydrating : m = n
  /\ \A n \in DOMAIN hydrating : ToSet(stored) \cap installed \subseteq ToSet(hydrating[n].ids)

PreferencesInv == PreferencesTypeOK /\ ListFits /\ (~ spoilt => OneHydration) /\ ListedIsInstalled

\* The type invariant, from what is known of the lists; now and after a step.
LEMMA OfListable == \A s \in Seq(Listable) : ToSet(s) \subseteq Listable
  BY ElementOfSeq, LenProperties DEF ToSet
LEMMA ListsTyped ==
  ASSUME ListFits, list \in Lists, installed \subseteq Listable, spoilt \in BOOLEAN,
         \A n \in DOMAIN hydrating : hydrating[n].at \in {"list", "load"}
  PROVE  PreferencesTypeOK
  BY OfListable DEF PreferencesTypeOK, ListFits, ListOf
LEMMA ListsStayTyped ==
  ASSUME ListFits', list' \in Lists, installed' \subseteq Listable, spoilt' \in BOOLEAN,
         \A n \in DOMAIN hydrating' : hydrating'[n].at \in {"list", "load"}
  PROVE  PreferencesTypeOK'
  BY OfListable DEF PreferencesTypeOK, ListFits, ListOf

LEMMA Filtered ==
  ASSUME NEW s, ListOf(s), NEW T
  PROVE  ListOf(Those(s, T)) /\ ToSet(Those(s, T)) = ToSet(s) \cap T
<1>1. s \in Seq(Listable) /\ IsInjective(s) BY DEF ListOf
<1>2. /\ Those(s, T) \in Seq(Listable) /\ ToSet(Those(s, T)) = ToSet(s) \cap T
      /\ Len(Those(s, T)) <= Len(s) /\ IsInjective(Those(s, T))
  BY <1>1, ThoseFacts
<1>3. Len(s) \in Nat /\ Len(Those(s, T)) \in Nat BY <1>1, <1>2, LenProperties
<1>4. RecentMax \in Nat BY PreferencesAssumption
<1> QED BY <1>1, <1>2, <1>3, <1>4 DEF ListOf

LEMMA NoList == ListOf(<<>>) /\ ToSet(<<>>) = {}
<1>1. RecentMax \in Nat BY PreferencesAssumption
<1> QED BY <1>1, EmptySeq DEF ListOf, IsInjective, ToSet

\* What a run makes of a list: its plugin to the front, and the last one may
\* fall off.
CutTo(p, s) ==
  SubSeq(MovedToFront(p, s), 1,
         IF Len(MovedToFront(p, s)) > RecentMax THEN RecentMax ELSE Len(MovedToFront(p, s)))

\* It is a list again, and nothing but its plugin is new in it.
LEMMA MovedAndCut ==
  ASSUME NEW s, ListOf(s), NEW p \in Listable
  PROVE  ListOf(CutTo(p, s)) /\ ToSet(CutTo(p, s)) \subseteq ToSet(s) \cup {p}
<1> DEFINE cut == CutTo(p, s)
           others == Those(s, Listable \ {p})
           longer == MovedToFront(p, s)
           n == IF Len(longer) > RecentMax THEN RecentMax ELSE Len(longer)
<1>1. RecentMax \in Nat \ {0} BY PreferencesAssumption
<1>2. others \in Seq(Listable) /\ IsInjective(others) /\ ToSet(others) = ToSet(s) \cap (Listable \ {p})
  BY Filtered DEF ListOf
<1>3. /\ <<p>> \in Seq(Listable) /\ Len(<<p>>) = 1 /\ <<p>>[1] = p /\ longer = <<p>> \o others
  BY DEF MovedToFront
<1>4. Len(others) \in Nat /\ DOMAIN others = 1 .. Len(others) BY <1>2, LenProperties
<1> HIDE DEF others, longer
<1>5. /\ longer \in Seq(Listable) /\ Len(longer) = 1 + Len(others)
      /\ \A i \in 1 .. 1 + Len(others) : longer[i] = IF i <= 1 THEN p ELSE others[i - 1]
  <2>1. /\ <<p>> \o others \in Seq(Listable) /\ Len(<<p>> \o others) = Len(<<p>>) + Len(others)
        /\ \A i \in 1 .. Len(<<p>>) + Len(others) :
             (<<p>> \o others)[i] = IF i <= Len(<<p>>) THEN <<p>>[i] ELSE others[i - Len(<<p>>)]
    BY <1>2, <1>3, ConcatProperties
  <2>2. \A i \in 1 .. 1 + Len(others) : i <= 1 => i = 1 BY <1>4
  <2> QED BY <1>3, <1>4, <2>1, <2>2
<1>6. n \in Nat /\ n <= Len(longer) /\ n <= RecentMax BY <1>1, <1>4, <1>5
<1> HIDE DEF n
<1>7. cut = SubSeq(longer, 1, n) BY DEF CutTo, longer, n
<1>8. \A i \in 1 .. n : longer[i] \in Listable BY <1>4, <1>5, <1>6, ElementOfSeq
<1>9. /\ cut \in Seq(Listable) /\ Len(cut) = n /\ \A i \in 1 .. n : cut[i] = longer[i]
  <2>1. /\ SubSeq(longer, 1, n) \in Seq(Listable)
        /\ Len(SubSeq(longer, 1, n)) = IF 1 <= n THEN n - 1 + 1 ELSE 0
        /\ \A i \in 1 .. n - 1 + 1 : SubSeq(longer, 1, n)[i] = longer[1 + i - 1]
    <3>1. 1 \in Int /\ n \in Int BY <1>6
    <3> QED BY <1>8, <3>1, SubSeqProperties
  <2>2. n - 1 + 1 = n /\ (IF 1 <= n THEN n - 1 + 1 ELSE 0) = n BY <1>6
  <2>3. ASSUME NEW i \in 1 .. n PROVE cut[i] = longer[i]
    <3>1. i \in 1 .. n - 1 + 1 /\ 1 + i - 1 = i BY <2>2
    <3> QED BY <1>7, <2>1, <3>1
  <2> QED BY <1>7, <2>1, <2>2, <2>3
<1>10. DOMAIN cut = 1 .. n BY <1>9, LenProperties
<1>11. \A i \in 2 .. n : i - 1 \in 1 .. Len(others) /\ cut[i] = others[i - 1] /\ cut[i] \in ToSet(others)
  <2> SUFFICES ASSUME NEW i \in 2 .. n
               PROVE  i - 1 \in 1 .. Len(others) /\ cut[i] = others[i - 1] /\ cut[i] \in ToSet(others)
    OBVIOUS
  <2>1. i \in 1 .. n /\ i \in 1 .. 1 + Len(others) /\ i - 1 \in 1 .. Len(others) /\ ~ (i <= 1)
    BY <1>4, <1>5, <1>6
  <2>2. cut[i] = others[i - 1] BY <1>5, <1>9, <2>1
  <2> QED BY <1>4, <2>1, <2>2 DEF ToSet
<1>12. n >= 1 => cut[1] = p BY <1>4, <1>5, <1>6, <1>9
<1>13. IsInjective(cut)
  <2> SUFFICES ASSUME NEW i \in 1 .. n, NEW j \in 1 .. n, cut[i] = cut[j] PROVE i = j
    BY <1>10 DEF IsInjective
  <2>1. \A k \in 2 .. n : cut[k] # p BY <1>2, <1>11
  <2>2. (i = 1 \/ i \in 2 .. n) /\ (j = 1 \/ j \in 2 .. n) /\ n >= 1 BY <1>6
  <2>3. CASE i \in 2 .. n /\ j \in 2 .. n
    <3>1. i - 1 \in DOMAIN others /\ j - 1 \in DOMAIN others /\ others[i - 1] = others[j - 1]
      BY <1>4, <1>11, <2>3
    <3>2. i - 1 = j - 1 BY <1>2, <3>1 DEF IsInjective
    <3> QED BY <3>2
  <2> QED BY <1>12, <2>1, <2>2, <2>3
<1>14. ToSet(cut) \subseteq ToSet(s) \cup {p}
  <2> SUFFICES ASSUME NEW i \in 1 .. n PROVE cut[i] \in ToSet(s) \cup {p}
    BY <1>10 DEF ToSet
  <2>1. i = 1 \/ i \in 2 .. n BY <1>6
  <2>2. i \in 2 .. n => cut[i] \in ToSet(s) BY <1>2, <1>11
  <2>3. n >= 1 BY <1>6
  <2>4. i = 1 => cut[i] = p BY <1>12, <2>3
  <2> QED BY <2>1, <2>2, <2>4
<1> QED BY <1>6, <1>9, <1>13, <1>14 DEF ListOf

\* At the start there is nothing on screen, and nothing is under way.
LEMMA PreferencesInitially == PreferencesInit => PreferencesInv
<1> SUFFICES ASSUME PreferencesInit PROVE PreferencesInv
  OBVIOUS
<1>1. DOMAIN hydrating = {} BY DEF PreferencesInit
<1>2. ListOf(stored)
  <2>1. RecentMax \in Nat BY PreferencesAssumption
  <2>2. IsInjective(stored) /\ \E m \in 0 .. RecentMax : stored \in [1 .. m -> Listable]
    BY DEF PreferencesInit, IdLists, SeqOf
  <2>3. PICK m \in 0 .. RecentMax : stored \in [1 .. m -> Listable] BY <2>2
  <2>4. stored \in Seq(Listable) /\ Len(stored) = m
    <3>1. m \in Nat BY <2>1
    <3>2. stored \in Seq(Listable) BY <2>3, <3>1, SeqDef
    <3>3. DOMAIN stored = 1 .. m BY <2>3
    <3>4. DOMAIN stored = 1 .. Len(stored) /\ Len(stored) \in Nat BY <3>2, LenProperties
    <3> QED BY <3>1, <3>2, <3>3, <3>4
  <2> QED BY <2>1, <2>2, <2>3, <2>4 DEF ListOf
<1>3. ListFits BY <1>1, <1>2, NoList DEF PreferencesInit, ListFits
<1>4. PreferencesTypeOK BY <1>1, <1>3, ListsTyped DEF PreferencesInit
<1> QED BY <1>1, <1>3, <1>4 DEF PreferencesInit, PreferencesInv, OneHydration, ListedIsInstalled

\* What the type of the state says of the lists.
LEMMA ListFacts ==
  ASSUME PreferencesInv
  PROVE  /\ list \in Lists /\ installed \subseteq Listable /\ spoilt \in BOOLEAN /\ ListFits
         /\ ListOf(onScreen) /\ ListOf(stored) /\ counts.clicks \in Nat
         /\ \A n \in DOMAIN hydrating : hydrating[n].at \in {"list", "load"} /\ ListOf(hydrating[n].ids)
         /\ (~ spoilt => OneHydration) /\ ListedIsInstalled
  BY DEF PreferencesInv, PreferencesTypeOK, ListFits

\* A hydration begins with what is stored.
LEMMA BeginFacts ==
  ASSUME PreferencesInv, NEW others, DOMAIN others \subseteq DOMAIN hydrating,
         \A x \in DOMAIN others : others[x] = hydrating[x], Begin(others)
  PROVE  /\ DOMAIN hydrating' = DOMAIN others \cup {counts.hydrations + 1}
         /\ \A x \in DOMAIN hydrating' :
              IF x = counts.hydrations + 1
                THEN hydrating'[x].ids = stored /\ hydrating'[x].at = "list"
                ELSE x \in DOMAIN others /\ hydrating'[x] = hydrating[x]
         /\ \A x \in DOMAIN hydrating' : hydrating'[x].at \in {"list", "load"} /\ ListOf(hydrating'[x].ids)
<1> DEFINE n == counts.hydrations + 1
<1>1. hydrating' = [x \in DOMAIN others \cup {n} |-> IF x = n THEN [ids |-> stored, at |-> "list"] ELSE others[x]]
  BY DEF Begin
<1> HIDE DEF n
<1>2. DOMAIN hydrating' = DOMAIN others \cup {n} BY <1>1
<1>3. \A x \in DOMAIN hydrating' :
        IF x = n THEN hydrating'[x].ids = stored /\ hydrating'[x].at = "list"
                 ELSE x \in DOMAIN others /\ hydrating'[x] = hydrating[x]
  BY <1>1, <1>2
<1>4. \A x \in DOMAIN hydrating' : hydrating'[x].at \in {"list", "load"} /\ ListOf(hydrating'[x].ids)
  BY <1>2, <1>3, ListFacts
<1> QED BY <1>2, <1>3, <1>4 DEF n

LEMMA LoadPageKeeps == ASSUME PreferencesInv, LoadPage PROVE PreferencesInv'
<1>1. /\ onScreen' = <<>> /\ Begin(<<>>) /\ spoilt' = FALSE /\ UNCHANGED <<list, installed, stored>>
      /\ counts' = [counts EXCEPT !.loads = @ + 1, !.hydrations = @ + 1]
  BY DEF LoadPage
<1>2. counts' = [changes |-> counts.changes, clicks |-> counts.clicks, loads |-> counts.loads + 1,
                 hydrations |-> counts.hydrations + 1]
  BY <1>1, ListFacts DEF ListFits
<1>3. DOMAIN <<>> = {} OBVIOUS
<1>4. /\ DOMAIN hydrating' = {counts.hydrations + 1}
      /\ \A x \in DOMAIN hydrating' : hydrating'[x].ids = stored
      /\ \A x \in DOMAIN hydrating' : hydrating'[x].at \in {"list", "load"} /\ ListOf(hydrating'[x].ids)
  BY <1>1, <1>3, BeginFacts
<1>5. ListFits'
  <2>1. \A x \in DOMAIN hydrating' : ListOf(hydrating[x].ids)' BY <1>1, <1>4 DEF ListOf
  <2> QED BY <1>1, <1>2, <2>1, NoList, ListFacts DEF ListFits, ListOf
<1>6. PreferencesTypeOK' BY <1>1, <1>4, <1>5, ListFacts, ListsStayTyped
<1>7. OneHydration' BY <1>1, <1>4 DEF OneHydration
<1> QED BY <1>4, <1>5, <1>6, <1>7 DEF PreferencesInv, ListedIsInstalled

LEMMA ChangeKeeps == ASSUME PreferencesInv, NEW p \in Listable, Change(p) PROVE PreferencesInv'
<1>1. /\ Begin(hydrating) /\ UNCHANGED <<list, onScreen, stored>>
      /\ spoilt' = (spoilt \/ DOMAIN hydrating # {})
      /\ installed' = IF p \in installed THEN installed \ {p} ELSE installed \cup {p}
      /\ counts' = [counts EXCEPT !.changes = @ + 1, !.hydrations = @ + 1]
  BY DEF Change, Changed
<1>2. counts' = [changes |-> counts.changes + 1, clicks |-> counts.clicks, loads |-> counts.loads,
                 hydrations |-> counts.hydrations + 1]
  BY <1>1, ListFacts DEF ListFits
<1>3. /\ DOMAIN hydrating' = DOMAIN hydrating \cup {counts.hydrations + 1}
      /\ \A x \in DOMAIN hydrating' :
           IF x = counts.hydrations + 1 THEN hydrating'[x].ids = stored
             ELSE x \in DOMAIN hydrating /\ hydrating'[x] = hydrating[x]
      /\ \A x \in DOMAIN hydrating' : hydrating'[x].at \in {"list", "load"} /\ ListOf(hydrating'[x].ids)
  BY <1>1, BeginFacts
<1>4. ListFits'
  <2>1. \A x \in DOMAIN hydrating' : ListOf(hydrating[x].ids)' BY <1>1, <1>3 DEF ListOf
  <2> QED BY <1>1, <1>2, <2>1, ListFacts DEF ListFits, ListOf
<1>5. spoilt' \in BOOLEAN /\ installed' \subseteq Listable BY <1>1, ListFacts
<1>6. PreferencesTypeOK' BY <1>1, <1>3, <1>4, <1>5, ListFacts, ListsStayTyped
<1>7. ~ spoilt' => OneHydration' BY <1>1, <1>3 DEF OneHydration
<1> QED BY <1>3, <1>4, <1>6, <1>7 DEF PreferencesInv, ListedIsInstalled

\* A hydration goes on or ends.
LEMMA ListAnswersKeeps ==
  ASSUME PreferencesInv, NEW n \in DOMAIN hydrating, ListAnswers(n) PROVE PreferencesInv'
<1> DEFINE ids == hydrating[n].ids
<1>1. UNCHANGED <<list, installed, counts>> /\ ListOf(ids) BY ListFacts DEF ListAnswers
<1>2. CASE /\ hydrating' = [hydrating EXCEPT ![n] = [at |-> "load", ids |-> Those(ids, installed)]]
           /\ UNCHANGED <<onScreen, stored, spoilt>>
  <2>1. ListOf(Those(ids, installed)) /\ ToSet(Those(ids, installed)) = ToSet(ids) \cap installed
    BY <1>1, Filtered
  <2>2. /\ DOMAIN hydrating' = DOMAIN hydrating /\ hydrating'[n].ids = Those(ids, installed)
        /\ hydrating'[n].at = "load"
        /\ \A x \in DOMAIN hydrating \ {n} : hydrating'[x] = hydrating[x]
    BY <1>2
  <2>3. \A x \in DOMAIN hydrating' : hydrating'[x].at \in {"list", "load"} /\ ListOf(hydrating'[x].ids)
    BY <2>1, <2>2, ListFacts
  <2>4. ListFits'
    <3>1. \A x \in DOMAIN hydrating' : ListOf(hydrating[x].ids)' BY <1>1, <2>3 DEF ListOf
    <3> QED BY <1>1, <1>2, <3>1, ListFacts DEF ListFits, ListOf
  <2>5. PreferencesTypeOK' BY <1>1, <1>2, <2>3, <2>4, ListFacts, ListsStayTyped
  <2>6. ~ spoilt' => OneHydration' BY <1>1, <1>2, <2>1, <2>2, ListFacts DEF OneHydration
  <2>7. ListedIsInstalled' BY <1>1, <1>2, <2>2, ListFacts DEF ListedIsInstalled
  <2> QED BY <2>4, <2>5, <2>6, <2>7 DEF PreferencesInv
<1>3. CASE Replace(<<>>) /\ hydrating' = Without(n) /\ spoilt' = TRUE
  <2>1. /\ onScreen' = <<>> /\ stored' = <<>> /\ DOMAIN hydrating' = DOMAIN hydrating \ {n}
        /\ \A x \in DOMAIN hydrating' : hydrating'[x] = hydrating[x]
    BY <1>3 DEF Replace, Without
  <2>2. ListFits' BY <1>1, <2>1, NoList, ListFacts DEF ListFits, ListOf
  <2>3. PreferencesTypeOK' BY <1>1, <1>3, <2>1, <2>2, ListFacts, ListsStayTyped
  <2> QED BY <1>3, <2>2, <2>3 DEF PreferencesInv, ListedIsInstalled
<1> QED BY <1>2, <1>3 DEF ListAnswers

LEMMA LoadsAnswerKeeps ==
  ASSUME PreferencesInv, NEW n \in DOMAIN hydrating, LoadsAnswer(n) PROVE PreferencesInv'
<1> DEFINE ids == hydrating[n].ids
<1>1. UNCHANGED <<list, installed, counts>> /\ ListOf(ids) BY ListFacts DEF LoadsAnswer
<1>2. PICK fails \in SUBSET ToSet(ids) :
        Replace(Those(ids, installed \ fails)) /\ spoilt' = (spoilt \/ fails \cap installed # {})
  BY DEF LoadsAnswer
<1>3. /\ ListOf(Those(ids, installed \ fails))
      /\ ToSet(Those(ids, installed \ fails)) = ToSet(ids) \cap (installed \ fails)
  BY <1>1, Filtered
<1>4. /\ onScreen' = Those(ids, installed \ fails) /\ stored' = Those(ids, installed \ fails)
      /\ DOMAIN hydrating' = DOMAIN hydrating \ {n}
      /\ \A x \in DOMAIN hydrating' : hydrating'[x] = hydrating[x]
  BY <1>2 DEF Replace, LoadsAnswer, Without
<1>5. ListFits' BY <1>1, <1>3, <1>4, ListFacts DEF ListFits, ListOf
<1>6. spoilt' \in BOOLEAN BY <1>2, ListFacts
<1>7. PreferencesTypeOK' BY <1>1, <1>4, <1>5, <1>6, ListFacts, ListsStayTyped
<1>8. ~ spoilt' => DOMAIN hydrating' = {} BY <1>2, <1>4, ListFacts DEF OneHydration
<1>9. OneHydration' \/ spoilt' BY <1>8 DEF OneHydration
<1>10. ListedIsInstalled' BY <1>1, <1>3, <1>4 DEF ListedIsInstalled
<1> QED BY <1>5, <1>7, <1>9, <1>10 DEF PreferencesInv

\* The user takes a plugin away, or runs one that is installed.
LEMMA ClicksKeep ==
  ASSUME PreferencesInv, NEW p \in Listable, Run(p) \/ TakeAway(p) PROVE PreferencesInv'
<1>1. /\ UNCHANGED <<list, installed, hydrating>> /\ counts.loads > 0
      /\ spoilt' = (spoilt \/ DOMAIN hydrating # {})
      /\ counts' = [counts EXCEPT !.clicks = @ + 1]
  BY DEF Run, TakeAway, Click
<1>2. counts' = [changes |-> counts.changes, clicks |-> counts.clicks + 1, loads |-> counts.loads,
                 hydrations |-> counts.hydrations]
  BY <1>1, ListFacts DEF ListFits
<1>3. /\ onScreen' = stored' /\ ListOf(onScreen')
      /\ ToSet(onScreen') \subseteq ToSet(onScreen) \cup installed
  <2>1. CASE Run(p)
    <3>1. onScreen' = CutTo(p, onScreen) /\ stored' = CutTo(p, onScreen) /\ p \in installed
      BY <2>1 DEF Run, Replace, CutTo
    <3>2. ListOf(CutTo(p, onScreen)) /\ ToSet(CutTo(p, onScreen)) \subseteq ToSet(onScreen) \cup {p}
      BY ListFacts, MovedAndCut
    <3>3. ListOf(onScreen') BY <3>1, <3>2
    <3> QED BY <3>1, <3>2, <3>3
  <2>2. CASE TakeAway(p)
    <3>1. onScreen' = Those(onScreen, Listable \ {p}) /\ stored' = onScreen' BY <2>2 DEF TakeAway, Replace
    <3> QED BY <3>1, ListFacts, Filtered
  <2> QED BY <2>1, <2>2
<1>4. ListFits' BY <1>1, <1>2, <1>3, ListFacts DEF ListFits, ListOf
<1>5. spoilt' \in BOOLEAN BY <1>1, ListFacts
<1>6. PreferencesTypeOK' BY <1>1, <1>4, <1>5, ListFacts, ListsStayTyped
<1>7. ~ spoilt' => OneHydration' BY <1>1 DEF OneHydration
<1>8. ListedIsInstalled' BY <1>1, <1>3, ListFacts DEF ListedIsInstalled
<1> QED BY <1>4, <1>6, <1>7, <1>8 DEF PreferencesInv

\* Every step of a hydration, of the ledger and of the user keeps it.
LEMMA PreferencesInductive == PreferencesInv /\ [PreferencesNext]_preferenceVars => PreferencesInv'
<1> SUFFICES ASSUME PreferencesInv, [PreferencesNext]_preferenceVars PROVE PreferencesInv'
  OBVIOUS
<1>1. CASE UNCHANGED preferenceVars
  BY <1>1
  DEF preferenceVars, PreferencesInv, PreferencesTypeOK, ListFits, ListOf, OneHydration, ListedIsInstalled
<1> QED
  BY <1>1, LoadPageKeeps, ChangeKeeps, ListAnswersKeeps, LoadsAnswerKeeps, ClicksKeep DEF PreferencesNext

\* The invariant of the lists, in every reachable state.
LEMMA PreferencesInvCorrect == PreferencesSpec => []PreferencesInv
  BY PreferencesInitially, PreferencesInductive, PTL DEF PreferencesSpec

\* A plugin that is uninstalled disappears from the lists, on screen and for
\* the next start, unless a click or another change came while the page was
\* being told.
THEOREM ListsAreInstalled == PreferencesSpec => []ListedIsInstalled
<1>1. PreferencesInv => ListedIsInstalled BY DEF PreferencesInv
<1> QED BY <1>1, PreferencesInvCorrect, PTL

\* Only the user, an uninstallation or the length of the list takes a plugin
\* from it: the list a hydration writes has all that was stored and is
\* installed.
THEOREM ListsKeep == PreferencesSpec => KeptUnlessTaken
<1> DEFINE Kept == ~ spoilt' /\ counts'.clicks = counts.clicks =>
                     ToSet(stored) \cap installed' \subseteq ToSet(stored')
<1>1. PreferencesInv /\ [PreferencesNext]_preferenceVars => [Kept]_preferenceVars
  <2> SUFFICES ASSUME PreferencesInv, PreferencesNext, ~ spoilt', counts'.clicks = counts.clicks
               PROVE  ToSet(stored) \cap installed' \subseteq ToSet(stored')
    OBVIOUS
  <2>1. CASE stored' = stored BY <2>1
  <2>2. ASSUME NEW p \in Listable, Run(p) \/ TakeAway(p) PROVE FALSE
    <3>1. counts' = [counts EXCEPT !.clicks = @ + 1] BY <2>2 DEF Run, TakeAway, Click
    <3>2. counts'.clicks = counts.clicks + 1 BY <3>1, ListFacts DEF ListFits
    <3> QED BY <3>2, ListFacts
  <2>3. ASSUME NEW n \in DOMAIN hydrating, LoadsAnswer(n)
        PROVE  ToSet(stored) \cap installed' \subseteq ToSet(stored')
    <3> DEFINE ids == hydrating[n].ids
    <3>1. ListOf(ids) /\ UNCHANGED installed BY <2>3, ListFacts DEF LoadsAnswer
    <3>2. PICK fails \in SUBSET ToSet(ids) :
            stored' = Those(ids, installed \ fails) /\ spoilt' = (spoilt \/ fails \cap installed # {})
      BY <2>3 DEF LoadsAnswer, Replace
    <3>3. ~ spoilt /\ fails \cap installed = {} BY <3>2
    <3>4. ToSet(stored) \cap installed \subseteq ToSet(ids) BY <3>3, ListFacts DEF OneHydration
    <3>5. ToSet(stored') = ToSet(ids) \cap (installed \ fails) BY <3>1, <3>2, Filtered
    <3> QED BY <3>1, <3>3, <3>4, <3>5
  <2>4. ASSUME NEW n \in DOMAIN hydrating, ListAnswers(n) PROVE stored' = stored
    BY <2>4 DEF ListAnswers
  <2>5. LoadPage \/ (\E p \in Listable : Change(p)) => stored' = stored BY DEF LoadPage, Change
  <2> QED BY <2>1, <2>2, <2>3, <2>4, <2>5 DEF PreferencesNext
<1> QED BY <1>1, PreferencesInvCorrect, PTL DEF PreferencesSpec, KeptUnlessTaken

-----------------------------------------------------------------------------
\* The parts keep to their types, whichever of them a behaviour is about.
THEOREM AllLedgersTypeCorrect == AllLedgersSpec => []AllLedgersTypeOK
<1> DEFINE Inv == LedgerInv /\ DraftInv /\ MigrationInv /\ PackedInv /\ PreferencesInv
<1>1. AllLedgersInit => Inv
  BY InvInit, DraftShapeAtStart, MigrationAtStart, PackedInitially, PreferencesInitially
  DEF AllLedgersInit
<1>2. Inv /\ [AllLedgersNext]_allLedgerVars => Inv'
  <2> SUFFICES ASSUME Inv, [AllLedgersNext]_allLedgerVars PROVE Inv'
    OBVIOUS
  <2>1. /\ [LedgerNext]_ledgerVars /\ [DraftNext]_draftVars /\ [MigrationNext]_migrationVars
        /\ [ArtifactNext]_artifactVars /\ [PreferencesNext]_preferenceVars
    BY DEF AllLedgersNext, allLedgerVars
  <2> QED
    BY <2>1, InvStep, DraftInvStep, MigrationInvStep, PackedInductive, PreferencesInductive
<1>3. Inv => AllLedgersTypeOK
  BY ArtifactTyped
  DEF AllLedgersTypeOK, LedgerInv, DraftInv, DraftShape, MigrationInv, MigrationShape, PackedInv,
      PreferencesInv
<1> QED BY <1>1, <1>2, <1>3, PTL DEF AllLedgersSpec
=============================================================================
