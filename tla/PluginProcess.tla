---------------------------- MODULE PluginProcess -----------------------------
(***************************************************************************)
(* The processes of one plugin id: the in-memory process table of          *)
(* plugin_runner and the bridge sessions (tokens) of plugin_llm_bridge.    *)
(*                                                                         *)
(* A start registers a session, spawns the process, watches it for 800 ms, *)
(* revokes the other sessions of the plugin and puts the process in the    *)
(* table, killing the one it replaces.  Each registered process has a      *)
(* watcher.  Stops, deletions and status queries run on other threads.     *)
(* Table, sessions and each child handle have a mutex of their own, so     *)
(* everything can happen between two steps.                                *)
(*                                                                         *)
(* A start stands for its process and its token, too.                      *)
(***************************************************************************)
CONSTANTS
  Starts,       \* the starts of one behaviour
  TokenStarts,  \* those whose manifest asks for a bridge session
  Stops,        \* threads that stop the plugin
  Deletes,      \* threads that delete the plugin
  Lookers,      \* threads that ask whether it runs
  ActionStarts, \* the starts for an action invocation, which need one as well
  None

ASSUME ProcessAssumption ==
  /\ TokenStarts \subseteq Starts
  /\ Stops \cap Deletes = {}
  /\ ActionStarts \subseteq TokenStarts
  /\ None \notin Starts

Killers == Stops \cup Deletes
NoOne   == [at |-> "idle", of |-> None]

VARIABLES
  start,    \* how far each start is
  proc,     \* its process: "none", "up" or "down"
  child,    \* its Child: "none", "in" its shared handle, or "taken" out of it
  watch,    \* its exit watcher: "off", "on", "exited" (saw the exit) or "done"
  tokens,   \* the starts whose session is registered
  table,    \* the start whose handle is in the process table, or None
  killer,   \* each stop or deletion: where it is and the Child it took
  looker,   \* each query: where it is and the handle it cloned
  stopped,  \* history: starts whose session was taken from them on purpose
  mixed     \* history: whether starts overlapped, and whether there was a deletion

processVars == <<start, proc, child, watch, tokens, table, killer, looker, stopped, mixed>>

Steps   == {"unused", "session", "spawned", "lives", "alone", "registered", "failed"}
Someone == Starts \cup {None}

ProcessTypeOK ==
  /\ start \in [Starts -> Steps]
  /\ proc \in [Starts -> {"none", "up", "down"}]
  /\ child \in [Starts -> {"none", "in", "taken"}]
  /\ watch \in [Starts -> {"off", "on", "exited", "done"}]
  /\ \A a \in Starts : watch[a] = "off" <=> start[a] # "registered"
  /\ tokens \in SUBSET Starts
  /\ table \in Someone
  /\ killer \in [Killers -> [at : {"idle", "take", "kill", "revoke"}, of : Someone]]
  /\ looker \in [Lookers -> [at : {"idle", "got", "gone"}, of : Someone]]
  /\ stopped \in SUBSET Starts
  /\ mixed \subseteq {"overlap", "deletion"}

ProcessInit ==
  /\ start = [a \in Starts |-> "unused"]
  /\ proc = [a \in Starts |-> "none"]
  /\ child = [a \in Starts |-> "none"]
  /\ watch = [a \in Starts |-> "off"]
  /\ tokens = {}
  /\ table = None
  /\ killer = [k \in Killers |-> NoOne]
  /\ looker = [l \in Lookers |-> NoOne]
  /\ stopped = {}
  /\ mixed = {}

UnderWay(a) == start[a] \in {"session", "spawned", "lives", "alone"}

-----------------------------------------------------------------------------
(* start_plugin_from_dir                                                   *)

NoteOverlap ==
  mixed' = mixed \cup IF \E b \in Starts : UnderWay(b) THEN {"overlap"} ELSE {}

\* Dependencies are ready; the session is registered, if one is needed.
RegisterSession(a) ==
  /\ a \notin ActionStarts
  /\ start[a] = "unused"
  /\ start' = [start EXCEPT ![a] = "session"]
  /\ tokens' = tokens \cup ({a} \cap TokenStarts)
  /\ NoteOverlap
  /\ UNCHANGED <<proc, child, watch, table, killer, looker, stopped>>

\* start_builtin_action_invocation: the builtin must be in the ledger.
RegisterActionSession(a) ==
  /\ a \in ActionStarts
  /\ start[a] = "unused"
  /\ \/ /\ start' = [start EXCEPT ![a] = "session"]
        /\ tokens' = tokens \cup {a}
        /\ NoteOverlap
     \/ start' = [start EXCEPT ![a] = "failed"] /\ UNCHANGED <<tokens, mixed>>
  /\ UNCHANGED <<proc, child, watch, table, killer, looker, stopped>>

Spawn(a) ==
  /\ start[a] = "session"
  /\ start' = [start EXCEPT ![a] = "spawned"]
  /\ proc' = [proc EXCEPT ![a] = "up"]
  /\ UNCHANGED <<child, watch, tokens, table, killer, looker, stopped, mixed>>

\* The process cannot be spawned, or it is gone within 800 ms.
StartFails(a) ==
  /\ start[a] = "session" \/ (start[a] = "spawned" /\ proc[a] = "down")
  /\ start' = [start EXCEPT ![a] = "failed"]
  /\ tokens' = tokens \ {a}
  /\ UNCHANGED <<proc, child, watch, table, killer, looker, stopped, mixed>>

Survives(a) ==
  /\ start[a] = "spawned" /\ proc[a] = "up"
  /\ start' = [start EXCEPT ![a] = "lives"]
  /\ UNCHANGED <<proc, child, watch, tokens, table, killer, looker, stopped, mixed>>

\* revoke_plugin_except
KeepOwnSession(a) ==
  /\ start[a] = "lives"
  /\ start' = [start EXCEPT ![a] = "alone"]
  /\ tokens' = tokens \cap {a}
  /\ UNCHANGED <<proc, child, watch, table, killer, looker, stopped, mixed>>

\* Mutant: no exit watcher.
RegisterUnwatched(a) ==
  /\ start[a] = "alone"
  /\ start' = [start EXCEPT ![a] = "registered"]
  /\ table' = a
  /\ LET old == {b \in Starts : b = table /\ child[b] = "in"} IN
       /\ proc' = [b \in Starts |-> IF b \in old THEN "down" ELSE proc[b]]
       /\ child' = [b \in Starts |-> IF b \in old THEN "taken"
                                     ELSE IF b = a THEN "in" ELSE child[b]]
  /\ UNCHANGED <<watch, tokens, killer, looker, stopped, mixed>>

\* register_with_handle replaces and kills under the lock of the table; the
\* watcher starts.
Register(a) ==
  /\ start[a] = "alone"
  /\ start' = [start EXCEPT ![a] = "registered"]
  /\ table' = a
  /\ LET old == {b \in Starts : b = table /\ child[b] = "in"} IN
       /\ proc' = [b \in Starts |-> IF b \in old THEN "down" ELSE proc[b]]
       /\ child' = [b \in Starts |-> IF b \in old THEN "taken"
                                     ELSE IF b = a THEN "in" ELSE child[b]]
  /\ watch' = [watch EXCEPT ![a] = "on"]
  /\ UNCHANGED <<tokens, killer, looker, stopped, mixed>>

-----------------------------------------------------------------------------
(* The process, and its watcher                                            *)

Exits(a) ==
  /\ proc[a] = "up"
  /\ proc' = [proc EXCEPT ![a] = "down"]
  /\ UNCHANGED <<start, child, watch, tokens, table, killer, looker, stopped, mixed>>

\* A Child that was taken is somebody else's business.
WatcherLooks(a) ==
  /\ watch[a] = "on"
  /\ \/ child[a] = "taken" /\ watch' = [watch EXCEPT ![a] = "done"]
     \/ child[a] = "in" /\ proc[a] = "down" /\ watch' = [watch EXCEPT ![a] = "exited"]
  /\ UNCHANGED <<start, proc, child, tokens, table, killer, looker, stopped, mixed>>

\* Mutant: revokes by plugin, not by token.
WatcherRevokesAll(a) ==
  /\ watch[a] = "exited"
  /\ watch' = [watch EXCEPT ![a] = "done"]
  /\ tokens' = {}
  /\ UNCHANGED <<start, proc, child, table, killer, looker, stopped, mixed>>

WatcherRevokes(a) ==
  /\ watch[a] = "exited"
  /\ watch' = [watch EXCEPT ![a] = "done"]
  /\ tokens' = tokens \ {a}
  /\ UNCHANGED <<start, proc, child, table, killer, looker, stopped, mixed>>

-----------------------------------------------------------------------------
(* stop_plugin_by_id: take, kill, revoke.  delete_plugin: revoke, take, kill *)

KillerAt(k, place, a) == killer' = [killer EXCEPT ![k] = [at |-> place, of |-> a]]

RevokePlugin ==
  /\ tokens' = {}
  /\ stopped' = stopped \cup tokens

DeleteBegins(k) ==
  /\ k \in Deletes /\ killer[k].at = "idle"
  /\ RevokePlugin
  /\ KillerAt(k, "take", None)
  /\ mixed' = mixed \cup {"deletion"}
  /\ UNCHANGED <<start, proc, child, watch, table, looker>>

\* take removes the entry and gets the Child, if the handle still has it.
TakeChild(k) ==
  /\ IF k \in Stops THEN killer[k].at = "idle" ELSE killer[k].at = "take"
  /\ LET got == {b \in Starts : b = table /\ child[b] = "in"} IN
       /\ child' = [b \in Starts |-> IF b \in got THEN "taken" ELSE child[b]]
       /\ KillerAt(k, "kill", IF got = {} THEN None ELSE table)
  /\ table' = None
  /\ UNCHANGED <<start, proc, watch, tokens, looker, stopped, mixed>>

\* Mutant: a stop returns without revoking.
KillChildOnly(k) ==
  /\ killer[k].at = "kill"
  /\ proc' = [b \in Starts |-> IF b = killer[k].of THEN "down" ELSE proc[b]]
  /\ KillerAt(k, "idle", None)
  /\ UNCHANGED <<start, child, watch, tokens, table, looker, stopped, mixed>>

\* kill_child_tree and wait, if it got one.
KillChild(k) ==
  /\ killer[k].at = "kill"
  /\ proc' = [b \in Starts |-> IF b = killer[k].of THEN "down" ELSE proc[b]]
  /\ KillerAt(k, IF k \in Stops THEN "revoke" ELSE "idle", None)
  /\ UNCHANGED <<start, child, watch, tokens, table, looker, stopped, mixed>>

StopRevokes(k) ==
  /\ killer[k].at = "revoke"
  /\ RevokePlugin
  /\ KillerAt(k, "idle", None)
  /\ UNCHANGED <<start, proc, child, watch, table, looker, mixed>>

-----------------------------------------------------------------------------
(* is_running                                                              *)

LookerAt(l, place, a) == looker' = [looker EXCEPT ![l] = [at |-> place, of |-> a]]

CloneHandle(l) ==
  /\ looker[l].at = "idle" /\ table # None
  /\ LookerAt(l, "got", table)
  /\ UNCHANGED <<start, proc, child, watch, tokens, table, killer, stopped, mixed>>

TryWait(l) ==
  /\ looker[l].at = "got"
  /\ LET a == looker[l].of IN
       IF child[a] = "in" /\ proc[a] = "up" THEN LookerAt(l, "idle", None)
                                            ELSE LookerAt(l, "gone", a)
  /\ UNCHANGED <<start, proc, child, watch, tokens, table, killer, stopped, mixed>>

\* Mutant: removes whatever entry the plugin has now.
RemoveAny(l) ==
  /\ looker[l].at = "gone"
  /\ table' = None
  /\ LookerAt(l, "idle", None)
  /\ UNCHANGED <<start, proc, child, watch, tokens, killer, stopped, mixed>>

\* Arc::ptr_eq: only the entry it looked at.
RemoveIfSame(l) ==
  /\ looker[l].at = "gone"
  /\ table' = IF table = looker[l].of THEN None ELSE table
  /\ LookerAt(l, "idle", None)
  /\ UNCHANGED <<start, proc, child, watch, tokens, killer, stopped, mixed>>

-----------------------------------------------------------------------------
(* Sessions that end by themselves, and all of them together by a command  *)
(* (revoke_all_plugin_bridge_sessions) that no page sends yet              *)

Expire(a) ==
  /\ a \in tokens
  /\ tokens' = tokens \ {a}
  /\ stopped' = stopped \cup {a}
  /\ UNCHANGED <<start, proc, child, watch, table, killer, looker, mixed>>

RevokeAll ==
  /\ tokens # {}
  /\ RevokePlugin
  /\ UNCHANGED <<start, proc, child, watch, table, killer, looker, mixed>>

-----------------------------------------------------------------------------
StartStep(a) ==
  \/ RegisterSession(a) \/ RegisterActionSession(a) \/ Spawn(a) \/ StartFails(a) \/ Survives(a)
  \/ KeepOwnSession(a) \/ Register(a)

Watcher(a) == WatcherLooks(a) \/ WatcherRevokes(a)

\* A stop or deletion that has begun.
KillerGoesOn(k) ==
  \/ k \in Deletes /\ TakeChild(k)
  \/ KillChild(k) \/ StopRevokes(k)

Look(l) == CloneHandle(l) \/ TryWait(l) \/ RemoveIfSame(l)

ProcessNext ==
  \/ \E a \in Starts : StartStep(a) \/ Exits(a) \/ Watcher(a) \/ Expire(a)
  \/ RevokeAll
  \/ \E k \in Killers : KillerGoesOn(k) \/ DeleteBegins(k)
  \/ \E k \in Stops : TakeChild(k)
  \/ \E l \in Lookers : Look(l)

ProcessSpec == ProcessInit /\ [][ProcessNext]_processVars

\* Watchers poll, and stops run to their end.
ProcessFairness ==
  /\ \A a \in Starts : WF_processVars(Watcher(a))
  /\ \A k \in Killers : WF_processVars(KillerGoesOn(k))

LiveProcessSpec == ProcessSpec /\ ProcessFairness

-----------------------------------------------------------------------------
(* Properties                                                              *)

\* No process escapes: a running process whose start was completed is in the
\* table, where the next start, stop or deletion finds it, or a stop has
\* taken it and is about to kill it.  A query that removes a dead entry, a
\* replacement and a stop all write the table; none may lose a live one.
NoProcessEscapes ==
  \A a \in Starts :
    start[a] = "registered" /\ proc[a] = "up" =>
      \/ table = a /\ child[a] = "in"
      \/ \E k \in Killers : killer[k] = [at |-> "kill", of |-> a]

\* The running process in the table keeps the session it was given, unless a
\* stop, a deletion, the command or its age took it, or it is being replaced:
\* the watcher of the process it replaced revokes its own token only.  Starts
\* that overlap do take each other's session away.
NewSessionKept ==
  "overlap" \notin mixed =>
    \A a \in TokenStarts \ stopped :
      table = a /\ proc[a] = "up" /\ (\A b \in Starts : start[b] # "alone") => a \in tokens

\* A session does not outlive its process: the watcher revokes it, or whoever
\* took the Child away from the watcher does.  A deletion revokes before it
\* takes, and with overlapping starts the order is nobody's.
SessionEndsWithProcess ==
  \A a \in Starts :
    (mixed = {} /\ a \in tokens /\ start[a] = "registered" /\ proc[a] = "down")
      ~> (a \notin tokens \/ mixed # {})
=============================================================================
