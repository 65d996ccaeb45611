----------------------------- MODULE ProcessClaims -----------------------------
(***************************************************************************)
(* What a comment of plugin_runner says of the sessions of a plugin and    *)
(* the code does not do.                                                   *)
(***************************************************************************)
EXTENDS PluginProcess

\* A process that replaced another of the same id has its session, unless
\* somebody stopped the plugin (the comment in start_plugin_from_dir: when a
\* process of the same id is replaced, only the session of this start is kept,
\* and the old watcher does no harm to the new session).
EveryNewSessionKept ==
  \A a \in TokenStarts \ stopped :
    table = a /\ proc[a] = "up" /\ (\A b \in Starts : start[b] # "alone") => a \in tokens
=============================================================================
