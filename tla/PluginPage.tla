------------------------------ MODULE PluginPage ------------------------------
(***************************************************************************)
(* The page of a client plugin: PluginRunner reads the entry and runs it   *)
(* in a frame; the frame sends calls to the window, which makes them for   *)
(* the plugin it shows at that moment and posts the answers back.  The     *)
(* page is one component that stays when the user goes from one plugin to  *)
(* another in the sidebar, and its reads answer in any order.              *)
(***************************************************************************)
EXTENDS Naturals, Sequences

CONSTANTS
  ClientPlugins, \* installed client plugins
  DevPlugins,    \* those registered from a developer's directory
  Declares,      \* plugin -> kinds of calls its manifest declares
  NoPlugin,      \* nothing is shown
  MaxMounts,     \* bound: how often the page is opened
  MaxSaves,      \* bound: how often a developer saves an entry
  MaxPosts       \* bound: calls in a behaviour

\* A call a command answers, here a write to kv.json, and one the user answers.
CallKinds == {"set", "view"}

ASSUME PageAssumption ==
  /\ DevPlugins \subseteq ClientPlugins
  /\ Declares \in [ClientPlugins -> SUBSET CallKinds] /\ NoPlugin \notin ClientPlugins
  /\ MaxMounts \in Nat /\ MaxSaves \in Nat /\ MaxPosts \in Nat

VARIABLES
  shown,     \* runningPlugin
  opened,    \* runningPlugins: only the exit of a process takes one out
  mount,     \* which instance of the page this is
  failed,    \* loadError: stays as long as the page
  doc,       \* what the frame runs: whose entry, as of which save; its calls so far
  reads,     \* plugins whose entry this instance is reading
  saves,     \* plugin -> how often its entry was saved
  pending,   \* promises of the document: id -> kind
  calls,     \* calls at the host, by the number of their post
  queue,     \* views that wait to be closed, the first one is on screen
  store,     \* plugin -> who wrote its kv.json last
  posts,     \* how many calls were made
  mixed,     \* history: a promise was resolved with another call's answer
  switched,  \* history: went from one plugin to another without going back
  replaced,  \* history: a document took another one's place
  overtaken  \* history: two reads of different entries at a time

viewVars == <<shown, opened, mount, failed, doc, reads, saves>>
promiseVars == <<pending, calls, queue, store, posts, mixed>>
raceVars == <<switched, replaced, overtaken>>
pluginPageVars == <<viewVars, promiseVars, raceVars>>

NoDoc == [of |-> NoPlugin, save |-> 0, ids |-> 0, frame |-> 0]

PageTypeOK ==
  /\ shown \in ClientPlugins \cup {NoPlugin} /\ opened \subseteq ClientPlugins
  /\ mount \in 0 .. MaxMounts /\ failed \in BOOLEAN
  /\ doc.of \in ClientPlugins \cup {NoPlugin} /\ doc.frame \in {0, mount}
  /\ doc # NoDoc => shown # NoPlugin /\ ~ failed
  /\ reads \subseteq opened /\ (reads # {} => shown # NoPlugin)
  /\ saves \in [ClientPlugins -> 0 .. MaxSaves]
  /\ \A i \in DOMAIN pending : i \in 1 .. MaxPosts /\ pending[i].kind \in CallKinds
  /\ DOMAIN calls \subseteq 1 .. posts
  /\ \A n \in DOMAIN calls : calls[n].as \in opened /\ calls[n].from \in opened
  /\ \A i \in DOMAIN queue : queue[i] \in DOMAIN calls
  /\ store \in [ClientPlugins -> ClientPlugins \cup {NoPlugin}]

PageInit ==
  /\ shown = NoPlugin /\ opened = {} /\ mount = 0 /\ failed = FALSE /\ doc = NoDoc
  /\ reads = {} /\ saves = [p \in ClientPlugins |-> 0]
  /\ pending = <<>> /\ calls = <<>> /\ queue = <<>>
  /\ store = [p \in ClientPlugins |-> NoPlugin] /\ posts = 0 /\ mixed = FALSE
  /\ switched = FALSE /\ replaced = FALSE /\ overtaken = FALSE

-----------------------------------------------------------------------------
(* The user                                                                *)

\* The effect on plugin.id: the entry is read, nothing else is reset.
ReadEntry(p) ==
  /\ reads' = reads \cup {p}
  /\ overtaken' = (overtaken \/ ~ reads \subseteq {p})

\* From the plugin center or the sidebar, when no plugin is shown.
Mount(p) ==
  /\ shown = NoPlugin /\ mount < MaxMounts
  /\ shown' = p /\ opened' = opened \cup {p}
  /\ mount' = mount + 1 /\ failed' = FALSE
  /\ ReadEntry(p)
  /\ UNCHANGED <<doc, saves, promiseVars, switched, replaced>>

\* In the sidebar, where an opened plugin is one to be stopped.  Mutant: the
\* effect is of the first plugin only.
SwitchUnread(p) ==
  /\ shown \notin {NoPlugin, p} /\ p \notin opened
  /\ shown' = p /\ opened' = opened \cup {p} /\ switched' = TRUE
  /\ UNCHANGED <<mount, failed, doc, reads, saves, promiseVars, replaced, overtaken>>

Switch(p) ==
  /\ shown \notin {NoPlugin, p} /\ p \notin opened
  /\ shown' = p /\ opened' = opened \cup {p} /\ switched' = TRUE
  /\ ReadEntry(p)
  /\ UNCHANGED <<mount, failed, doc, saves, promiseVars, replaced>>

\* The page goes, and the frame with it; what it reads, nobody sees any more.
\* Mutant: it is only hidden.
BackHides ==
  /\ shown # NoPlugin /\ shown' = NoPlugin
  /\ UNCHANGED <<opened, mount, failed, doc, reads, saves, promiseVars, raceVars>>

Back ==
  /\ shown # NoPlugin /\ shown' = NoPlugin
  /\ doc' = NoDoc /\ reads' = {} /\ pending' = <<>>
  /\ UNCHANGED <<opened, mount, failed, saves, calls, queue, store, posts, mixed, raceVars>>

\* plugin:dev-reload, for the plugin that is shown; a save of any other one
\* shows when that is opened.
SaveEntry(p) ==
  /\ shown = p /\ p \in DevPlugins /\ saves[p] < MaxSaves
  /\ saves' = [saves EXCEPT ![p] = @ + 1]
  /\ ReadEntry(p)
  /\ UNCHANGED <<shown, opened, mount, failed, doc, promiseVars, switched, replaced>>

-----------------------------------------------------------------------------
(* read_plugin_file answers                                                *)

\* A new srcdoc is a new document in the same frame, and the promises of the
\* old one are gone; the same srcdoc changes nothing.
ShowEntry(p) ==
  IF doc.of = p /\ doc.save = saves[p]
    THEN UNCHANGED <<doc, pending, replaced>>
    ELSE /\ doc' = [of |-> p, save |-> saves[p], ids |-> 0, frame |-> mount]
         /\ pending' = <<>>
         /\ replaced' = (replaced \/ doc # NoDoc)

EntryRead(p) ==
  /\ p \in reads /\ reads' = reads \ {p}
  /\ IF failed THEN UNCHANGED <<failed, doc, pending, replaced>>
               ELSE \/ ShowEntry(p) /\ UNCHANGED failed
                    \/ failed' = TRUE /\ doc' = NoDoc /\ pending' = <<>> /\ UNCHANGED replaced
  /\ UNCHANGED <<shown, opened, mount, saves, calls, queue, store, posts, mixed, switched, overtaken>>

-----------------------------------------------------------------------------
(* Calls                                                                   *)

With(f, x, y) == [z \in DOMAIN f \cup {x} |-> IF z = x THEN y ELSE f[z]]
Without(f, x) == [z \in DOMAIN f \ {x} |-> f[z]]

PostAs(id, kind) ==
  /\ shown # NoPlugin /\ doc # NoDoc /\ posts < MaxPosts
  /\ posts' = posts + 1 /\ doc' = [doc EXCEPT !.ids = @ + 1]
  /\ pending' = With(pending, id, [kind |-> kind, post |-> posts'])
  /\ calls' = With(calls, posts', [id |-> id, kind |-> kind, from |-> doc.of, as |-> shown,
                                   frame |-> mount, at |-> "asked"])
  /\ UNCHANGED <<shown, opened, mount, failed, reads, saves, queue, store, mixed, raceVars>>

\* Ids count from one in each document.  Mutant: all calls have the same id.
PostCallOneId(kind) == PostAs(1, kind)
PostCall(kind)      == PostAs(doc.ids + 1, kind)

\* invokeRuntime: what the manifest does not declare is refused; a set can be
\* refused for its size or by the disk; a view waits for the user.
Execute(n) ==
  /\ n \in DOMAIN calls /\ calls[n].at = "asked"
  /\ LET c == calls[n] IN
       \/ /\ c.kind = "view"
          /\ queue' = Append(queue, n) /\ calls' = [calls EXCEPT ![n].at = "waiting"]
          /\ UNCHANGED store
       \/ /\ c.kind = "set" /\ c.kind \in Declares[c.as]
          /\ store' = [store EXCEPT ![c.as] = c.from]
          /\ calls' = [calls EXCEPT ![n].at = "done"] /\ UNCHANGED queue
       \/ /\ c.kind = "set"
          /\ calls' = [calls EXCEPT ![n].at = "refused"] /\ UNCHANGED <<queue, store>>
  /\ UNCHANGED <<viewVars, pending, posts, mixed, raceVars>>

\* closeCurrentUiView
CloseView ==
  /\ queue # <<>> /\ queue' = Tail(queue)
  /\ calls' = [calls EXCEPT ![Head(queue)].at = "done"]
  /\ UNCHANGED <<viewVars, pending, store, posts, mixed, raceVars>>

\* To the window of the frame, whatever document is in it by now.
PostReply(n) ==
  /\ n \in DOMAIN calls /\ calls[n].at \in {"done", "refused"}
  /\ calls' = Without(calls, n)
  /\ LET id == calls[n].id IN
     IF calls[n].frame = doc.frame /\ id \in DOMAIN pending
       THEN /\ pending' = Without(pending, id)
            /\ mixed' = (mixed \/ pending[id].post # n)
       ELSE UNCHANGED <<pending, mixed>>
  /\ UNCHANGED <<viewVars, queue, store, posts, raceVars>>

-----------------------------------------------------------------------------
HostAnswers ==
  \/ \E p \in reads : EntryRead(p)
  \/ \E n \in DOMAIN calls : Execute(n) \/ PostReply(n)

PageNext ==
  \/ \E p \in ClientPlugins : Mount(p) \/ Switch(p) \/ SaveEntry(p)
  \/ Back
  \/ \E kind \in CallKinds : PostCall(kind)
  \/ CloseView
  \/ HostAnswers

\* Commands answer; nothing makes the user do anything.
PageFairness == WF_pluginPageVars(HostAnswers)
PageSpec == PageInit /\ [][PageNext]_pluginPageVars /\ PageFairness

-----------------------------------------------------------------------------
(* Properties                                                              *)

\* A plugin's storage is written by its own page only, however often the user
\* opens and leaves pages while calls are under way.  Going from one plugin
\* to the next without going back leaves the old entry in the frame until the
\* new one is read, and its calls are made for the new plugin.
StoresAreApart ==
  \A p \in ClientPlugins : store[p] \in {NoPlugin, p} \/ switched

\* A promise is resolved with the answer to its own call, also when answers
\* come in any order and views are closed late.  Where a document takes the
\* place of another one, ids begin again and late answers of the old document
\* are taken for those of the new one.
AnswersAreOwn == mixed => replaced

\* A plugin that is opened is shown with its own entry, or the page says that
\* it could not be read, whatever was shown before; a read of another entry
\* that answers late may overwrite it.
PageArrives ==
  shown # NoPlugin ~> doc.of = shown \/ shown = NoPlugin \/ failed \/ overtaken
=============================================================================
