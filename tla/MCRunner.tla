------------------------------- MODULE MCRunner -------------------------------
(***************************************************************************)
(* Small instances of the two halves of plugin_runner, one after the       *)
(* other: the preparation of a plugin directory, and the processes and     *)
(* sessions of one plugin id.  A behaviour is about one of them.           *)
(***************************************************************************)
EXTENDS PluginProcess, PluginDependencies

Python(files, tools) == [runtime |-> "python", files |-> files, lock |-> "none", tools |-> tools]
Node(lock, tools) == [runtime |-> "nodejs", files |-> {"package.json"}, lock |-> lock, tools |-> tools]

FewSettings ==
  {Python({"requirements.txt"}, {"python", "wheel"}), Python({"uv.lock"}, {"python", "uv"}),
   Node("pnpm", {"pnpm", "npm"}), Node("npm", {"pnpm"})}

VARIABLE focus

RunnerVars == <<focus, processVars, depVars>>

RunnerInit ==
  /\ focus \in {"process", "packages"}
  /\ ProcessInit
  /\ DepInit /\ (focus = "process" => setting = Node("npm", {"pnpm"}) /\ mods = NoMods)

RunnerNext ==
  \/ focus = "process" /\ ProcessNext /\ UNCHANGED <<focus, depVars>>
  \/ focus = "packages" /\ DepNext /\ UNCHANGED <<focus, processVars>>

RunnerSpec == RunnerInit /\ [][RunnerNext]_RunnerVars /\ ProcessFairness /\ DepFairness

\* The state of both halves keeps to its type.
RunnerTypeOK == ProcessTypeOK /\ DepTypeOK
=============================================================================
