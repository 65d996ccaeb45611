------------------------------- MODULE ScriptRuns -------------------------------
(***************************************************************************)
(* One-off runs: a script of the developer in its sandbox, a command of    *)
(* the agent's shell, the probe of a runtime, an installation of           *)
(* dependencies.  All of them have a child process captured: its output    *)
(* goes through a pipe that is only emptied once the child has ended, or   *)
(* by threads while it runs; its time is limited; it may leave processes   *)
(* behind that hold the pipe or the sandbox.                               *)
(*                                                                         *)
(* The first three run on the main thread, so that one is under way at a   *)
(* time; the installation is a capture of its own that shares nothing.     *)
(***************************************************************************)
EXTENDS Naturals, FiniteSets

CONSTANTS
  Scripts,    \* plugin ids of scripts
  KeepBoxes,  \* SANDBOX_KEEP_DIRS
  PipeCap,    \* what a pipe holds
  MaxOutput,  \* bound on what a child writes
  MaxRuns     \* bound on runs

ASSUME RunsAssumption ==
  KeepBoxes \in Nat /\ PipeCap \in Nat \ {0} /\ MaxOutput \in Nat /\ MaxRuns \in Nat

VARIABLES
  run,     \* what is under way: its step, kind, script
  runs,    \* how many there were
  used,    \* sandbox -> the run that filled it last, 0 when there is none
  files,   \* sandbox -> runs whose files are in it
  tokens,  \* runs with a bridge session
  cap,     \* the capture: step, whether time was up, what was read, exit code
  child,   \* the captured process: whether it is up, what it still writes and wrote
  helper,  \* a process the child started: how it goes on, whether it holds the pipe
  lasting, \* scripts of which such a process has outlived the run
  held     \* history: sandboxes that could not be deleted as a whole

boxVars   == <<used, files, held>>
childVars == <<cap, child, helper>>
scriptVars == <<run, runs, boxVars, tokens, childVars, lasting>>

Kinds    == {"script", "shell", "probe", "install"}
\* What of them captures a child.
Captures == {"probing", "installing", "running"}
NoRun    == [at |-> "idle", kind |-> "probe", script |-> 0]
NoChild  == [up |-> FALSE, todo |-> 0, wrote |-> 0]
NoCap    == [at |-> "off", late |-> FALSE, got |-> 0, ok |-> FALSE]
NoHelper == [at |-> "none", holds |-> FALSE]

\* What is written and not read.
Piped == child.wrote - cap.got

RunRec    == [at : Captures \cup {"sandbox", "session"}, kind : Kinds, script : Scripts \cup {0}]
CapRec    == [at : {"off", "polling", "collecting", "grace", "ended"}, late : BOOLEAN,
              got : 0 .. MaxOutput, ok : BOOLEAN]
ChildRec  == [up : BOOLEAN, todo : 0 .. MaxOutput, wrote : 0 .. MaxOutput]
HelperRec == [at : {"none", "below", "apart"}, holds : BOOLEAN]

Boxes == {s \in Scripts : used[s] # 0}

ScriptTypeOK ==
  /\ run = NoRun \/ run \in RunRec
  /\ run.at \in {"sandbox", "session"} => run.kind = "script"
  /\ runs \in 0 .. MaxRuns
  /\ used \in [Scripts -> 0 .. MaxRuns]
  /\ files \in [Scripts -> SUBSET (1 .. MaxRuns)] /\ held \subseteq Boxes
  /\ \A s \in Scripts : files[s] # {} => s \in Boxes
  /\ tokens \subseteq 1 .. MaxRuns
  /\ cap \in CapRec /\ child \in ChildRec /\ helper \in HelperRec
  /\ Piped \in 0 .. PipeCap
  /\ child.up => cap.at = "polling"
  /\ lasting \subseteq Scripts

ScriptInit ==
  /\ run = NoRun /\ runs = 0
  /\ used = [s \in Scripts |-> 0] /\ files = [s \in Scripts |-> {}] /\ held = {}
  /\ tokens = {}
  /\ cap = NoCap /\ child = NoChild /\ helper = NoHelper
  /\ lasting = {}

\* Threads empty the pipe only while dependencies are installed for a start.
Streamed == run.kind = "install"

-----------------------------------------------------------------------------
(* The child and what it starts                                            *)

ChildWrites ==
  /\ child.up /\ child.todo > 0 /\ Piped < PipeCap
  /\ child' = [child EXCEPT !.todo = @ - 1, !.wrote = @ + 1]
  /\ UNCHANGED <<run, runs, boxVars, tokens, cap, helper, lasting>>

ChildExits ==
  /\ child.up /\ child.todo = 0
  /\ child' = [child EXCEPT !.up = FALSE]
  /\ \E ok \in BOOLEAN : cap' = [cap EXCEPT !.ok = ok]
  /\ UNCHANGED <<run, runs, boxVars, tokens, helper, lasting>>

HelperExits ==
  \/ /\ helper # NoHelper /\ helper' = NoHelper
     /\ UNCHANGED <<run, runs, boxVars, tokens, cap, child, lasting>>
  \/ \E s \in lasting :
       /\ lasting' = lasting \ {s}
       /\ UNCHANGED <<run, runs, boxVars, tokens, childVars>>

-----------------------------------------------------------------------------
(* run_captured_inner, wait_for_capture, run_streamed_with_env             *)

\* A process of its own group, with any plans: to write so much, to start a
\* process that is killed with it or one that is not found any more.
Launch ==
  /\ run.at \in Captures /\ cap.at = "off"
  /\ cap' = [cap EXCEPT !.at = "polling"]
  /\ \E n \in 0 .. MaxOutput : child' = [NoChild EXCEPT !.up = TRUE, !.todo = n]
  /\ helper' \in {NoHelper} \cup [at : {"below", "apart"}, holds : BOOLEAN]
  /\ UNCHANGED <<run, runs, boxVars, tokens, lasting>>

\* It cannot be started, or its files are not there.
LaunchFails ==
  /\ run.at \in Captures /\ cap.at = "off"
  /\ cap' = [NoCap EXCEPT !.at = "ended"]
  /\ UNCHANGED <<run, runs, boxVars, tokens, child, helper, lasting>>

\* Mutant: what is in the pipe is not waited for.
SeeExitOnly ==
  /\ cap.at = "polling" /\ ~ child.up
  /\ cap' = [cap EXCEPT !.at = "ended"]
  /\ UNCHANGED <<run, runs, boxVars, tokens, child, helper, lasting>>

SeeExit ==
  /\ cap.at = "polling" /\ ~ child.up
  /\ cap' = [cap EXCEPT !.at = IF Streamed THEN "grace" ELSE "collecting"]
  /\ UNCHANGED <<run, runs, boxVars, tokens, child, helper, lasting>>

\* Mutant: the child alone is killed.
KillTreeTop == child' = [child EXCEPT !.up = FALSE, !.todo = 0] /\ UNCHANGED helper

\* kill_child_tree
KillTree ==
  /\ child' = [child EXCEPT !.up = FALSE, !.todo = 0]
  /\ helper' = IF helper.at = "below" THEN NoHelper ELSE helper

\* Mutant: the result is given and the child goes on.
TimeUpOnly ==
  /\ cap.at = "polling" /\ child.up
  /\ cap' = [cap EXCEPT !.at = IF Streamed THEN "grace" ELSE "collecting", !.late = TRUE]
  /\ UNCHANGED <<run, runs, boxVars, tokens, child, helper, lasting>>

TimeUp ==
  /\ cap.at = "polling" /\ child.up
  /\ KillTree
  /\ cap' = [cap EXCEPT !.at = IF Streamed THEN "grace" ELSE "collecting", !.late = TRUE]
  /\ UNCHANGED <<run, runs, boxVars, tokens, lasting>>

Read ==
  /\ Piped > 0 /\ cap.at \in (IF Streamed THEN {"polling", "grace"} ELSE {"collecting"})
  /\ cap' = [cap EXCEPT !.got = @ + 1]
  /\ UNCHANGED <<run, runs, boxVars, tokens, child, helper, lasting>>

\* wait_with_output: the end of the pipe is when nobody holds it any more.
\* The threads are given a tenth of a second, whatever they have read.
Collected ==
  /\ \/ cap.at = "collecting" /\ Piped = 0 /\ ~ helper.holds
     \/ cap.at = "grace"
  /\ cap' = [cap EXCEPT !.at = "ended"]
  /\ UNCHANGED <<run, runs, boxVars, tokens, child, helper, lasting>>

-----------------------------------------------------------------------------
(* The commands                                                            *)

Begin(kind, s, stage) ==
  /\ run = NoRun /\ runs < MaxRuns
  /\ runs' = runs + 1
  /\ run' = [at |-> stage, kind |-> kind, script |-> s]
  /\ UNCHANGED <<boxVars, tokens, childVars, lasting>>

RunPluginScript(s)  == Begin("script", s, "probing")
RunPluginShell      == Begin("shell", 0, "running")
GetRuntimeStatus    == Begin("probe", 0, "probing")
InstallDependencies == Begin("install", 0, "installing")

\* What was captured is done with; a process that lasts is on its own.
CaptureOver ==
  /\ cap' = NoCap /\ child' = NoChild /\ helper' = NoHelper
  /\ lasting' = IF helper # NoHelper /\ run.script # 0 THEN lasting \cup {run.script} ELSE lasting
GoesOn(stage) == run' = [run EXCEPT !.at = stage]

Return == run' = NoRun /\ tokens' = {}

\* An interpreter that does not answer ends the run.
Probed ==
  /\ run.at = "probing" /\ cap.at = "ended"
  /\ IF run.kind = "script" /\ cap.ok /\ ~ cap.late
       THEN GoesOn("sandbox") /\ UNCHANGED tokens
       ELSE Return
  /\ CaptureOver
  /\ UNCHANGED <<runs, boxVars>>

\* cleanup_sandbox_lru: what is beyond the most recent ones goes; of those a
\* process of an earlier run works in, what can.
Recent == {s \in Boxes : Cardinality({t \in Boxes : used[t] > used[s]}) < KeepBoxes}

\* materialize_sandbox: old directories, then its own; stay and left are what
\* could not be deleted.  Mutant: its own is only written over.
FillOnly(s, stay, left) ==
  /\ used' = [t \in Scripts |-> IF t = s THEN runs ELSE IF t \in Recent \cup stay THEN used[t] ELSE 0]
  /\ files' = [t \in Scripts |-> IF t = s THEN files[s] \cup {runs}
                                 ELSE IF t \in Boxes' THEN files[t] ELSE {}]
  /\ held' = (held \cap Boxes') \cup stay
Fill(s, stay, left) ==
  /\ used' = [t \in Scripts |-> IF t = s THEN runs ELSE IF t \in Recent \cup stay THEN used[t] ELSE 0]
  /\ files' = [t \in Scripts |-> IF t = s THEN left \cup {runs}
                                 ELSE IF t \in Boxes' THEN files[t] ELSE {}]
  /\ held' = ((held \cap Boxes') \cup stay \cup {s}) \ IF left = {} THEN {s} ELSE {}

\* The last check is whether the script needs a start of its own; before it, a
\* path may be refused or a file not be written: the sandbox is half full.
Materialize ==
  LET s == run.script IN
  /\ run.at = "sandbox"
  /\ \E stay \in SUBSET ((lasting \cap Boxes) \ Recent),
        left \in {{}} \cup IF s \in lasting THEN {files[s]} ELSE {} : Fill(s, stay, left)
  /\ \/ GoesOn("installing") /\ UNCHANGED tokens
     \/ Return
  /\ UNCHANGED <<runs, childVars, lasting>>

Prepared ==
  /\ run.at = "installing" /\ cap.at = "ended"
  /\ IF run.kind = "script" /\ cap.ok /\ ~ cap.late
       THEN GoesOn("session") /\ UNCHANGED tokens
       ELSE Return
  /\ CaptureOver
  /\ UNCHANGED <<runs, boxVars>>

\* register_session gives none without credentials; it may also fail.
RegisterRun ==
  /\ run.at = "session"
  /\ \/ tokens' \in {tokens, tokens \cup {runs}} /\ GoesOn("running")
     \/ Return
  /\ UNCHANGED <<runs, boxVars, childVars, lasting>>

RanToEnd ==
  /\ run.at = "running" /\ cap.at = "ended"
  /\ Return /\ CaptureOver
  /\ UNCHANGED <<runs, boxVars>>

HostActs == \/ Launch \/ LaunchFails \/ SeeExit \/ TimeUp \/ Read \/ Collected
            \/ Probed \/ Materialize \/ Prepared \/ RegisterRun \/ RanToEnd
ChildActs == ChildWrites \/ ChildExits \/ HelperExits

ScriptNext ==
  \/ HostActs \/ ChildActs
  \/ \E s \in Scripts : RunPluginScript(s)
  \/ RunPluginShell \/ GetRuntimeStatus \/ InstallDependencies

\* The host goes on and looks at its clock; children may do nothing for ever.
ScriptFairness == WF_scriptVars(HostActs) /\ WF_scriptVars(TimeUp)
ScriptSpec == ScriptInit /\ [][ScriptNext]_scriptVars /\ ScriptFairness

-----------------------------------------------------------------------------
(* Properties                                                              *)

\* What a child has written before it ended is in the result, although the
\* pipe is emptied after it ended; where threads do it, the last lines may
\* be missing.
OutputIsWhole ==
  cap.at = "ended" /\ ~ Streamed => Piped = 0

\* A script runs in what was sent with it: nothing of an earlier version is
\* left, unless a process of an earlier run kept it from being deleted.
RunsWhatWasSent ==
  run.kind = "script" /\ run.at \in {"installing", "session", "running"} =>
    files[run.script] = {runs} \/ run.script \in held

\* Every run ends, also of a child that loops or writes more than the pipe
\* holds, and its session with it, in whichever of its steps it gives up.  But
\* while the pipe is emptied no clock runs any more: a process that holds it
\* and was not killed, because its parent had ended in time or because it could
\* not be found, keeps the run, and the main thread, for as long as it likes.
PipeKept == cap.at = "collecting" /\ helper.holds /\ (helper.at = "apart" \/ ~ cap.late)
EveryRunEnds == run # NoRun ~> (run = NoRun /\ tokens = {}) \/ PipeKept
=============================================================================
