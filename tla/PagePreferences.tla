---------------------------- MODULE PagePreferences ----------------------------
(***************************************************************************)
(* Pinned and recent plugins: two lists on screen, each kept as ids in the *)
(* browser's storage.  The start of the application, and each change of    *)
(* the installations it is told of, reads the ids, asks which of them are  *)
(* installed, loads those and puts the result in the place of the list.    *)
(* Meanwhile the user works with it.  The lists have nothing in common     *)
(* but this code, so a behaviour is about one of them.                     *)
(***************************************************************************)
EXTENDS Sublists, SequencesExt

CONSTANTS
  Listable, \* plugins that may be installed
  RecentMax,   \* RECENT_MAX
  MaxInstalls,  \* bound: installations and uninstallations
  MaxClicks,   \* bound: runs, removals and unpins
  MaxPageLoads \* bound: starts of the application

Lists == {"pins", "recent"}

ASSUME PreferencesAssumption ==
  RecentMax \in Nat \ {0} /\ MaxInstalls \in Nat /\ MaxClicks \in Nat /\ MaxPageLoads \in Nat

VARIABLES
  list,      \* which of the two
  installed, \* the ledger
  onScreen,  \* the plugins on screen
  stored,    \* the ids in storage
  hydrating, \* hydrations under way: by number
  counts,    \* changes, clicks, page loads and hydrations so far
  spoilt     \* history: since the start a load failed, a click came while one
             \* was under way, or two were under way together

preferenceVars == <<list, installed, onScreen, stored, hydrating, counts, spoilt>>

IdLists == {s \in SeqOf(Listable, RecentMax) : IsInjective(s)}

PreferencesTypeOK ==
  /\ list \in Lists /\ installed \subseteq Listable
  /\ IsInjective(onScreen) /\ ToSet(onScreen) \subseteq Listable
  /\ IsInjective(stored) /\ ToSet(stored) \subseteq Listable
  /\ list = "recent" => Len(onScreen) <= RecentMax
  /\ \A n \in DOMAIN hydrating : hydrating[n].at \in {"list", "load"}
  /\ spoilt \in BOOLEAN

PreferencesInit ==
  /\ list \in Lists /\ installed \in SUBSET Listable
  /\ stored \in IdLists
  /\ onScreen = <<>> /\ hydrating = <<>> /\ spoilt = FALSE
  /\ counts = [changes |-> 0, clicks |-> 0, loads |-> 0, hydrations |-> 0]

-----------------------------------------------------------------------------
(* hydrateInstallationPreferences                                          *)

\* With the ids that are stored now.
Begin(others) ==
  LET n == counts.hydrations + 1 IN
    hydrating' = [x \in DOMAIN others \cup {n} |->
                    IF x = n THEN [ids |-> stored, at |-> "list"] ELSE others[x]]

\* The application starts, or the page is loaded again.
LoadPage ==
  /\ counts.loads < MaxPageLoads
  /\ onScreen' = <<>>
  /\ Begin(<<>>)
  /\ counts' = [counts EXCEPT !.loads = @ + 1, !.hydrations = @ + 1]
  /\ spoilt' = FALSE
  /\ UNCHANGED <<list, installed, stored>>

Changed(p) ==
  /\ counts.loads > 0 /\ counts.changes < MaxInstalls
  /\ installed' = IF p \in installed THEN installed \ {p} ELSE installed \cup {p}
  /\ counts' = [counts EXCEPT !.changes = @ + 1, !.hydrations = @ + 1]

\* An installation or uninstallation has ended, and the event is sent.
\* Mutant: nobody is told.
ChangeUntold(p) == Changed(p) /\ UNCHANGED <<list, onScreen, stored, hydrating, spoilt>>
Change(p) ==
  /\ Changed(p) /\ Begin(hydrating)
  /\ spoilt' = (spoilt \/ DOMAIN hydrating # {})
  /\ UNCHANGED <<list, onScreen, stored>>

Without(n) == [x \in DOMAIN hydrating \ {n} |-> hydrating[x]]
Replace(plugins) == onScreen' = plugins /\ stored' = plugins

\* list_plugin_installations; when it fails the list is empty.
ListAnswers(n) ==
  /\ n \in DOMAIN hydrating /\ hydrating[n].at = "list"
  /\ LET ids == hydrating[n].ids IN
     \/ /\ hydrating' = [hydrating EXCEPT ![n] = [at |-> "load",
                           ids |-> Those(ids, installed)]]
        /\ UNCHANGED <<onScreen, stored, spoilt>>
     \/ /\ ids # <<>>
        /\ Replace(<<>>) /\ hydrating' = Without(n) /\ spoilt' = TRUE
  /\ UNCHANGED <<list, installed, counts>>

\* load_installed_plugin for each of them; one that fails is left out.
\* Mutant: a full list loses its last one.
LoadsAnswerCut(n) ==
  /\ n \in DOMAIN hydrating /\ hydrating[n].at = "load"
  /\ LET plugins == Those(hydrating[n].ids, installed) IN
       Replace(SubSeq(plugins, 1, IF Len(plugins) = RecentMax THEN RecentMax - 1 ELSE Len(plugins)))
  /\ hydrating' = Without(n)
  /\ UNCHANGED <<list, installed, spoilt, counts>>

LoadsAnswer(n) ==
  /\ n \in DOMAIN hydrating /\ hydrating[n].at = "load"
  /\ \E fails \in SUBSET ToSet(hydrating[n].ids) :
       /\ Replace(Those(hydrating[n].ids, installed \ fails))
       /\ spoilt' = (spoilt \/ fails \cap installed # {})
  /\ hydrating' = Without(n)
  /\ UNCHANGED <<list, installed, counts>>

-----------------------------------------------------------------------------
(* The user                                                                *)

Click ==
  /\ counts.loads > 0 /\ counts.clicks < MaxClicks
  /\ counts' = [counts EXCEPT !.clicks = @ + 1]
  /\ spoilt' = (spoilt \/ DOMAIN hydrating # {})
  /\ UNCHANGED <<list, installed, hydrating>>

MovedToFront(p, s) == <<p>> \o Those(s, Listable \ {p})

\* setRunningPlugin; the center lists what is installed.
Run(p) ==
  /\ list = "recent" /\ p \in installed
  /\ Click
  /\ LET longer == MovedToFront(p, onScreen) IN
       Replace(SubSeq(longer, 1, IF Len(longer) > RecentMax THEN RecentMax ELSE Len(longer)))

\* removeFromRecent, unpinPlugin.  A pin is only ever taken away: no button
\* of this build pins a plugin.
TakeAway(p) ==
  /\ p \in ToSet(onScreen)
  /\ Click
  /\ Replace(Those(onScreen, Listable \ {p}))

-----------------------------------------------------------------------------
PreferencesNext ==
  \/ LoadPage
  \/ \E p \in Listable : Change(p) \/ Run(p) \/ TakeAway(p)
  \/ \E n \in DOMAIN hydrating : ListAnswers(n) \/ LoadsAnswer(n)

PreferencesSpec == PreferencesInit /\ [][PreferencesNext]_preferenceVars

-----------------------------------------------------------------------------
(* Properties                                                              *)

\* A plugin that is uninstalled disappears, on screen and for the next start,
\* once the page has heard of it and whatever was under way before the page
\* was loaded.  Two hydrations at a time, or a click in between, may bring it
\* back, until the next start.
ListedIsInstalled ==
  DOMAIN hydrating = {} /\ counts.loads > 0 /\ ~ spoilt =>
    ToSet(onScreen) \cup ToSet(stored) \subseteq installed

\* Only the user, an uninstallation or RECENT_MAX takes a plugin from a list;
\* a load that fails once takes it away for good, and so may one that was
\* overtaken.
KeptUnlessTaken ==
  [][~ spoilt' /\ counts'.clicks = counts.clicks =>
       ToSet(stored) \cap installed' \subseteq ToSet(stored')]_preferenceVars
=============================================================================
