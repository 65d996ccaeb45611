-------------------------- MODULE PluginDependencies --------------------------
(***************************************************************************)
(* The preparation of a plugin directory before its process is spawned:    *)
(* the Python venv with its packages and the marker that says they were    *)
(* verified, or node_modules with its marker.                              *)
(*                                                                         *)
(* A launch reads the dependency files and then runs one child process     *)
(* after another; nothing locks the directory.  The dependency files, the  *)
(* runtimes inside the application and the directory itself may change     *)
(* between two steps.  Contents are numbers: text is what the files say    *)
(* now, has is the content the installed packages belong to (0: some       *)
(* mixture).                                                               *)
(***************************************************************************)
EXTENDS Naturals

CONSTANTS
  Launches,   \* preparations that may be under way together
  Settings,   \* the kinds of plugin and host that are considered
  MaxText,    \* bound on the contents of the dependency files
  MaxMoves    \* bound on the places of the bundled runtime

VARIABLES
  setting,    \* runtime, dependency files, lock file and tools: does not change
  text,       \* content of the dependency files
  home,       \* where the bundled Python lives; it never moves back
  venv,       \* the virtual environment
  mods,       \* node_modules
  prep,       \* each launch: its step, the content it read, whether it rebuilds
  disturbed   \* history: something happened to the packages behind a launch's back

depVars == <<setting, text, home, venv, mods, prep, disturbed>>

\* runtime_type, the files that name dependencies, and what the host bundles.
PluginSetting ==
  [runtime : {"python", "nodejs"}, files : SUBSET {"uv.lock", "requirements.txt", "package.json"},
   lock : {"pnpm", "npm", "none"}, tools : SUBSET {"python", "uv", "wheel", "pnpm", "npm"}]

ASSUME DependencyAssumption ==
  /\ MaxText \in Nat \ {0} /\ MaxMoves \in Nat \ {0}
  /\ Settings \subseteq PluginSetting

NoVenv == [there |-> FALSE, py |-> FALSE, pip |-> FALSE, home |-> 0, has |-> 0, mark |-> 0]
NoMods == [at |-> "none", has |-> 0, mark |-> FALSE]

NotYet == [at |-> "idle", text |-> 0, again |-> FALSE]
PrepSteps == {"idle", "look", "clear", "make", "plain", "pip", "sync", "install", "smoke", "mark",
          "check", "link", "node", "nodemark", "finish"}
Texts == 0 .. MaxText

VenvRec == [there : BOOLEAN, py : BOOLEAN, pip : BOOLEAN, home : 0 .. MaxMoves,
            has : Texts, mark : Texts]
ModsRec == [at : {"none", "link", "dir"}, has : Texts, mark : BOOLEAN]
PrepRec == [at : PrepSteps, text : Texts, again : BOOLEAN]

DepTypeOK ==
  /\ setting \in Settings
  /\ text \in Texts \ {0} /\ home \in 1 .. MaxMoves
  /\ venv \in VenvRec /\ (venv.py \/ venv.pip \/ venv.mark # 0 => venv.there)
  /\ mods \in ModsRec
  /\ prep \in [Launches -> PrepRec]
  /\ disturbed \in BOOLEAN

\* An earlier version left a link to environments/ in place of node_modules.
DepInit ==
  /\ setting \in Settings
  /\ text = 1 /\ home = 1
  /\ venv = NoVenv
  /\ mods \in {NoMods} \cup IF setting.runtime = "nodejs" THEN {[NoMods EXCEPT !.at = "link"]} ELSE {}
  /\ prep = [s \in Launches |-> NotYet]
  /\ disturbed = FALSE

-----------------------------------------------------------------------------
Busy(s)   == prep[s].at # "idle"
Others(s) == {o \in Launches \ {s} : Busy(o)}
Tool(t)   == t \in setting.tools
Goes(s, place) == prep' = [prep EXCEPT ![s].at = place]
Ends(s)       == prep' = [prep EXCEPT ![s] = NotYet]
GoesIf(may, s, place) == IF may THEN Goes(s, place) ELSE Ends(s)

\* The interpreter is there, pip is there, and pyvenv.cfg names this runtime.
Usable == venv.py /\ venv.pip /\ venv.home = home /\ Tool("python")

\* uv.lock goes before requirements.txt; the marker holds a fingerprint of
\* the one that was installed.
Governing == IF "uv.lock" \in setting.files THEN "uv.lock" ELSE "requirements.txt"

NeedsVenv ==
  \/ ~Usable
  \/ \E f \in setting.files : ~(f = Governing /\ venv.mark = text)

NeedsNodeInstall == "package.json" \in setting.files /\ ~mods.mark

\* What a removal that failed half-way leaves: enough to be taken for a venv,
\* or not; with the marker, or without it.
Remains(v) == [there : {v.there}, py : {FALSE, v.py}, pip : {v.pip}, home : {v.home},
               has : {0}, mark : {0, v.mark}]

\* What a removal leaves of node_modules: nothing, or, when it failed half-way,
\* some of the packages, with the marker or without it; a link stays or goes.
ModRemains(m) ==
  {NoMods, m} \cup IF m.at = "dir" THEN [at : {"dir"}, has : {0}, mark : {FALSE, m.mark}] ELSE {}

\* A venv that is being made starts clean, unless somebody else has been at work on
\* it meanwhile or what was read has been taken back.
Fresh(s) == IF Others(s) = {} /\ prep[s].text <= text /\ venv.mark = 0 THEN FALSE ELSE disturbed

-----------------------------------------------------------------------------
(* ensure_python_venv, ensure_node_dependencies                            *)

Read(s) ==
  /\ ~Busy(s)
  /\ prep' = [prep EXCEPT ![s] =
       [at |-> IF setting.runtime = "python" THEN (IF Usable THEN "look" ELSE "clear")
               ELSE IF NeedsNodeInstall THEN "link" ELSE "finish",
        text |-> text, again |-> FALSE]]
  /\ disturbed' = (disturbed \/ Others(s) # {})
  /\ UNCHANGED <<setting, text, home, venv, mods>>

\* create_python_venv: what is left of an older venv goes first.
Clear(s) ==
  /\ prep[s].at = "clear"
  /\ IF Tool("python")
     THEN \/ venv' = NoVenv /\ Goes(s, "make")
          \/ venv.there /\ venv' \in Remains(venv) /\ Ends(s)
     ELSE Ends(s) /\ UNCHANGED venv
  /\ UNCHANGED <<setting, text, home, mods, disturbed>>

HalfMade == {[NoVenv EXCEPT !.there = TRUE, !.py = p, !.home = home] : p \in BOOLEAN}

MakeVenv(s) ==
  /\ prep[s].at = "make"
  /\ \/ /\ venv' = [NoVenv EXCEPT !.there = TRUE, !.py = TRUE, !.pip = TRUE, !.home = home]
        /\ disturbed' = Fresh(s)
        /\ Goes(s, "look")
     \/ venv' \in {NoVenv} \cup HalfMade /\ Goes(s, "plain") /\ UNCHANGED disturbed
     \/ Ends(s) /\ UNCHANGED <<venv, disturbed>>
  /\ UNCHANGED <<setting, text, home, mods>>

\* create_python_venv_without_pip
MakePlainVenv(s) ==
  /\ prep[s].at = "plain"
  /\ \/ /\ Tool("wheel")
        /\ venv' = [NoVenv EXCEPT !.there = TRUE, !.py = TRUE, !.home = home]
        /\ Goes(s, "pip")
     \/ venv' \in {NoVenv} \cup HalfMade /\ Ends(s)
  /\ UNCHANGED <<setting, text, home, mods, disturbed>>

AddPip(s) ==
  /\ prep[s].at = "pip"
  /\ \/ /\ venv.there
        /\ venv' = [venv EXCEPT !.pip = TRUE]
        /\ disturbed' = Fresh(s)
        /\ Goes(s, "look")
     \/ venv' \in {NoVenv} \cup HalfMade /\ Ends(s) /\ UNCHANGED disturbed
  /\ UNCHANGED <<setting, text, home, mods>>

\* A hit skips the installation.
Onward(s, hit) ==
  IF setting.files = {} THEN Goes(s, "check")
  ELSE IF hit THEN Goes(s, "finish")
  ELSE IF Governing = "requirements.txt" THEN Goes(s, "install")
  ELSE GoesIf(Tool("uv"), s, "sync")

\* Mutant: any marker will do.
LookAtAnyMarker(s) ==
  /\ prep[s].at = "look" /\ Onward(s, venv.mark # 0)
  /\ UNCHANGED <<setting, text, home, venv, mods, disturbed>>

\* Mutant: the marker is not looked at.
LookAtNoMarker(s) ==
  /\ prep[s].at = "look" /\ Onward(s, FALSE)
  /\ UNCHANGED <<setting, text, home, venv, mods, disturbed>>

\* The marker has the fingerprint of what was read.
LookAtMarker(s) ==
  /\ prep[s].at = "look"
  /\ Onward(s, venv.mark = prep[s].text /\ (Governing = "uv.lock" \/ venv.py))
  /\ UNCHANGED <<setting, text, home, venv, mods, disturbed>>

\* uv sync --frozen reads the lock file as it is now.
Sync(s) ==
  /\ prep[s].at = "sync"
  /\ \/ venv' = [venv EXCEPT !.has = text, !.there = TRUE] /\ Goes(s, "mark")
     \/ venv' \in {venv, [venv EXCEPT !.has = 0]} /\ Ends(s)
  /\ UNCHANGED <<setting, text, home, mods, disturbed>>

\* Mutant: a rebuilt venv may be rebuilt again.
RebuildAgain(s) == Goes(s, "clear")

\* The first failure removes the venv and starts over; the second is final.
Rebuild(s) ==
  IF prep[s].again THEN Ends(s) ELSE prep' = [prep EXCEPT ![s].at = "clear", ![s].again = TRUE]

\* install_and_smoke: uv pip install, or pip of the venv.
Install(s) ==
  /\ prep[s].at = "install"
  /\ \/ venv.py /\ venv' = [venv EXCEPT !.has = text] /\ Goes(s, "smoke")
     \/ venv' \in {venv, [venv EXCEPT !.has = 0]} /\ Rebuild(s)
  /\ UNCHANGED <<setting, text, home, mods, disturbed>>

\* Clean and inconclusive are the same; broken files rebuild.
Smoke(s) ==
  /\ prep[s].at = "smoke"
  /\ Goes(s, "mark") \/ Rebuild(s)
  /\ UNCHANGED <<setting, text, home, venv, mods, disturbed>>

\* Mutant: the fingerprint of the files as they are now.
MarkLate(s) ==
  /\ prep[s].at = "mark"
  /\ venv' \in {venv} \cup IF venv.there THEN {[venv EXCEPT !.mark = text]} ELSE {}
  /\ Goes(s, IF Governing = "uv.lock" THEN "finish" ELSE "check")
  /\ UNCHANGED <<setting, text, home, mods, disturbed>>

\* write_deps_verified: of the content that was read; a failure is ignored.
Mark(s) ==
  /\ prep[s].at = "mark"
  /\ venv' \in {venv} \cup IF venv.there THEN {[venv EXCEPT !.mark = prep[s].text]} ELSE {}
  /\ Goes(s, IF Governing = "uv.lock" THEN "finish" ELSE "check")
  /\ UNCHANGED <<setting, text, home, mods, disturbed>>

CheckInterpreter(s) ==
  /\ prep[s].at = "check"
  /\ GoesIf(venv.py, s, "finish")
  /\ UNCHANGED <<setting, text, home, venv, mods, disturbed>>

\* A link out of the plugin is removed, if that is possible; the lock file
\* chooses the installer, and without it any will do.
Installers == CASE setting.lock = "pnpm" -> {"pnpm"}
                [] setting.lock = "npm"  -> {"npm"}
                [] OTHER -> {"pnpm", "npm"}

Unlink(s) ==
  /\ prep[s].at = "link"
  /\ mods' \in {mods} \cup IF mods.at = "link" THEN {NoMods} ELSE {}
  /\ GoesIf(Installers \cap setting.tools # {}, s, "node")
  /\ UNCHANGED <<setting, text, home, venv, disturbed>>

NodeInstall(s) ==
  /\ prep[s].at = "node"
  /\ \/ mods' \in [at : {IF mods.at = "none" THEN "dir" ELSE mods.at}, has : {text}, mark : {FALSE, mods.mark}]
        /\ Goes(s, "nodemark")
     \/ mods' \in {mods} \cup [at : {mods.at, "dir"}, has : {0}, mark : {FALSE, mods.mark}] /\ Ends(s)
  /\ UNCHANGED <<setting, text, home, venv, disturbed>>

\* This marker names no content.
MarkNode(s) ==
  /\ prep[s].at = "nodemark"
  /\ \/ mods.at # "none" /\ mods' = [mods EXCEPT !.mark = TRUE] /\ Goes(s, "finish")
     \/ Ends(s) /\ UNCHANGED mods
  /\ UNCHANGED <<setting, text, home, venv, disturbed>>

\* ensure_playwright_browsers, the entry file and the launch command: any of
\* them may be missing.  The preparation is over either way.
Finish(s) ==
  /\ prep[s].at = "finish"
  /\ Ends(s)
  /\ UNCHANGED <<setting, text, home, venv, mods, disturbed>>

-----------------------------------------------------------------------------
(* What happens around the launches                                        *)

\* The plugin's files are edited or replaced, or put back as they were.
Edit ==
  /\ text < MaxText /\ text' = text + 1
  /\ UNCHANGED <<setting, home, venv, mods, prep, disturbed>>

Revert ==
  /\ text > 1 /\ text' = text - 1
  /\ disturbed' = TRUE
  /\ UNCHANGED <<setting, home, venv, mods, prep>>

\* The application is installed elsewhere.
Move ==
  /\ home < MaxMoves /\ home' = home + 1
  /\ UNCHANGED <<setting, text, venv, mods, prep, disturbed>>

\* delete_plugin_dir: the venv outside the directory is removed without
\* looking at the result, and the directory as far as that can be done; it may
\* come back with the same plugin.
Purge ==
  /\ venv' \in {NoVenv} \cup Remains(venv)
  /\ mods' \in ModRemains(mods)
  /\ disturbed' = (disturbed \/ venv' # NoVenv \/ (mods'.mark /\ mods'.has = 0) \/ \E s \in Launches : Busy(s))
  /\ UNCHANGED <<setting, text, home, prep>>

\* The application ends; a step that was writing has written some of it.
Quit ==
  /\ \E s \in Launches : Busy(s)
  /\ LET At(places) == \E s \in Launches : prep[s].at \in places IN
       /\ venv' \in {venv} \cup (IF At({"clear"}) THEN Remains(venv) ELSE {})
                           \cup (IF At({"make", "plain", "pip"}) THEN HalfMade ELSE {})
                           \cup (IF At({"sync", "install"}) THEN {[venv EXCEPT !.has = 0]} ELSE {})
       /\ mods' \in {mods} \cup IF At({"node"}) THEN {[mods EXCEPT !.at = "dir", !.has = 0]} ELSE {}
  /\ prep' = [s \in Launches |-> NotYet]
  /\ UNCHANGED <<setting, text, home, disturbed>>

-----------------------------------------------------------------------------
Prepare(s) ==
  \/ Clear(s) \/ MakeVenv(s) \/ MakePlainVenv(s) \/ AddPip(s) \/ LookAtMarker(s)
  \/ Sync(s) \/ Install(s) \/ Smoke(s) \/ Mark(s) \/ CheckInterpreter(s)
  \/ Unlink(s) \/ NodeInstall(s) \/ MarkNode(s) \/ Finish(s)

DepNext ==
  \/ \E s \in Launches : Read(s) \/ Prepare(s)
  \/ Edit \/ Revert \/ Move \/ Purge \/ Quit

DepSpec == DepInit /\ [][DepNext]_depVars

\* Every child process has a timeout, so every step ends.
DepFairness == \A s \in Launches : WF_depVars(Prepare(s))

-----------------------------------------------------------------------------
(* Properties                                                              *)

\* A marker is never a lie: when the marker in a usable venv names what the
\* dependency files say, the packages in it are those, so that the fast path
\* that skips the installation and the import test is right.  Files that
\* change while pip runs, failed installations and rebuilds, kills in the
\* middle and moves of the application do not break it; only two launches at
\* a time, a removal of the plugin that fails half-way and leaves its venv, or
\* node_modules with the marker, and a change that is taken back can
\* (disturbed).
SkipIsSound ==
  /\ setting.runtime = "python" /\ setting.files # {} /\ Usable /\ ~disturbed
     /\ venv.mark = text => venv.has = text
  /\ setting.runtime = "nodejs" /\ ~disturbed /\ mods.mark => mods.has # 0

\* A launch that goes on to the process has the packages it read about, or
\* newer ones, however it got there: past the marker, or after a rebuild.
LaunchesAreProvided ==
  \A s \in Launches :
    prep[s].at = "finish" /\ ~disturbed =>
      IF setting.runtime = "python"
        THEN setting.files # {} => venv.has >= prep[s].text
        ELSE "package.json" \in setting.files => mods.has # 0

\* When the question asked for the progress display says that nothing is
\* needed, the preparation that follows installs nothing (the comments of
\* needs_python_venv and needs_node_install: aligned with the ensure functions).
QuietLaunches ==
  [][\A s \in Launches :
       IF setting.runtime = "python"
       THEN ~NeedsVenv /\ prep[s].text = text /\ prep[s].at = "look"
              => prep'[s].at \notin {"clear", "sync", "install"}
       ELSE ~NeedsNodeInstall /\ ~Busy(s) => prep'[s].at # "link"]_depVars

\* A preparation ends: a venv is rebuilt once, never again and again.
PreparationEnds == \A s \in Launches : Busy(s) ~> ~Busy(s)
=============================================================================
