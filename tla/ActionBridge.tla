----------------------------- MODULE ActionBridge -----------------------------
(***************************************************************************)
(* A process plugin calls an action of a client plugin: POST /actions/call *)
(* on the local bridge.  The bridge thread of the connection stores a      *)
(* channel under a fresh request id, emits an event to the page and waits  *)
(* for 24 hours and 30 seconds.  The page looks up the handler, runs it in *)
(* a sandboxed frame for at most 24 hours and answers with a command that  *)
(* takes the channel out of the map and sends.                             *)
(*                                                                         *)
(* The page listens only once a plugin has been opened, fills its table of *)
(* handlers asynchronously, and can reload; the bridge knows nothing of    *)
(* all this.  The map and each channel have a lock of their own.           *)
(***************************************************************************)
EXTENDS Integers, FiniteSets

CONSTANTS
  Calls,       \* the calls of one behaviour, each with its request id
  Actions,     \* action ids
  Plugins,     \* client plugins
  Builtins,    \* those that are part of the build
  Exports,     \* plugin -> the actions its manifest declares
  MaxReloads,  \* bound: reloads of the page
  None

ASSUME BridgeAssumption ==
  /\ Builtins \subseteq Plugins
  /\ Exports \in [Plugins -> SUBSET Actions]
  /\ MaxReloads \in Nat
  /\ None \notin Plugins /\ None \notin Actions

VARIABLES
  (* the bridge *)
  call,      \* each bridge thread: where it is
  wants,     \* the action it asks for
  requests,  \* action_requests: the calls whose sender is in the map
  channel,   \* what was sent to it: "empty", "result" or "error"
  outcome,   \* what the plugin got
  (* the page *)
  listener,  \* "off", "asked" (listen is on its way) or "on"
  handlers,  \* action -> the plugin whose handler is registered, or None
  reading,   \* <<plugin, action>> whose source is being read
  mail,      \* events the page has not processed yet
  exec,      \* what the page does about each call
  reloads,   \* how often the page was reloaded
  lost       \* history: calls whose event or execution the page lost

threadVars == <<call, wants, outcome>>
pageVars   == <<listener, handlers, reading, reloads>>
bridgeVars == <<call, wants, requests, channel, outcome,
                listener, handlers, reading, mail, exec, reloads, lost>>

Threads  == {"unused", "stored", "waiting", "expired", "done"}
Answers  == {"result", "error"}
\* result, error: to be answered so; taken-*: the command has the sender.
Doings   == {"none", "running", "result", "error", "taken-result", "taken-error", "over"}
Declared == {x \in Plugins \X Actions : x[2] \in Exports[x[1]]}

BridgeTypeOK ==
  /\ call \in [Calls -> Threads]
  /\ wants \in [Calls -> Actions \cup {None}]
  /\ requests \in SUBSET Calls
  /\ channel \in [Calls -> Answers \cup {"empty"}]
  /\ outcome \in [Calls -> Answers \cup {"none", "unsent", "timeout"}]
  /\ \A c \in Calls : call[c] = "done" <=> outcome[c] # "none"
  /\ listener \in {"off", "asked", "on"}
  /\ handlers \in [Actions -> Plugins \cup {None}]
  /\ reading \in SUBSET Declared
  /\ mail \in SUBSET Calls
  /\ exec \in [Calls -> Doings]
  /\ reloads \in 0..MaxReloads
  /\ lost \in SUBSET Calls

\* When it starts, the page registers the builtins and the plugins used last.
ReadAtStart(recent) == {x \in Declared : x[1] \in Builtins \cup recent}

BridgeInit ==
  /\ call = [c \in Calls |-> "unused"]
  /\ wants = [c \in Calls |-> None]
  /\ requests = {}
  /\ channel = [c \in Calls |-> "empty"]
  /\ outcome = [c \in Calls |-> "none"]
  /\ listener = "off"
  /\ handlers = [a \in Actions |-> None]
  /\ \E recent \in SUBSET Plugins : reading = ReadAtStart(recent)
  /\ mail = {}
  /\ exec = [c \in Calls |-> "none"]
  /\ reloads = 0
  /\ lost = {}

-----------------------------------------------------------------------------
(* route_action_call                                                       *)

Stands(c, place) == call' = [call EXCEPT ![c] = place]
Returns(c, what) ==
  /\ Stands(c, "done")
  /\ outcome' = [outcome EXCEPT ![c] = what]
  /\ UNCHANGED wants

\* Session, body and caller are accepted; a refusal leaves no trace.
Ask(c, a) ==
  /\ call[c] = "unused"
  /\ Stands(c, "stored")
  /\ wants' = [wants EXCEPT ![c] = a]
  /\ requests' = requests \cup {c}
  /\ UNCHANGED <<channel, outcome, pageVars, mail, exec, lost>>

\* An event nobody listens to is dropped.
Emit(c) ==
  /\ call[c] = "stored"
  /\ Stands(c, "waiting")
  /\ IF listener = "on" THEN mail' = mail \cup {c} /\ UNCHANGED lost
                        ELSE lost' = lost \cup {c} /\ UNCHANGED mail
  /\ UNCHANGED <<wants, requests, channel, outcome, pageVars, exec>>

\* Mutant: the thread ends without telling the plugin.
EmitFailsSilently(c) ==
  /\ call[c] = "stored"
  /\ requests' = requests \ {c}
  /\ Stands(c, "done")
  /\ UNCHANGED <<wants, outcome, channel, pageVars, mail, exec, lost>>

EmitFails(c) ==
  /\ call[c] = "stored"
  /\ requests' = requests \ {c}
  /\ Returns(c, "unsent")
  /\ UNCHANGED <<channel, pageVars, mail, exec, lost>>

Receive(c) ==
  /\ call[c] = "waiting"
  /\ channel[c] # "empty"
  /\ Returns(c, channel[c])
  /\ UNCHANGED <<requests, channel, pageVars, mail, exec, lost>>

\* Mutant: no time limit once the page has the request.
ExpireUnlessTaken(c) ==
  /\ call[c] = "waiting"
  /\ channel[c] = "empty"
  /\ c \in requests
  /\ exec[c] # "running" /\ c \notin mail
  /\ c \notin lost
  /\ Stands(c, "expired")
  /\ UNCHANGED <<wants, requests, channel, outcome, pageVars, mail, exec, lost>>

\* 24 hours and 30 seconds after the event: the page, which takes less than
\* 30 seconds to process an event and gives a handler 24 hours, is no longer
\* working on the call.  Its answer may be under way.
Expire(c) ==
  /\ call[c] = "waiting"
  /\ channel[c] = "empty"
  /\ exec[c] # "running" /\ c \notin mail
  /\ Stands(c, "expired")
  /\ UNCHANGED <<wants, requests, channel, outcome, pageVars, mail, exec, lost>>

\* Mutant: the sender stays in the map.
GiveUpOnly(c) ==
  /\ call[c] = "expired"
  /\ Returns(c, "timeout")
  /\ UNCHANGED <<requests, channel, pageVars, mail, exec, lost>>

GiveUp(c) ==
  /\ call[c] = "expired"
  /\ requests' = requests \ {c}
  /\ Returns(c, "timeout")
  /\ UNCHANGED <<channel, pageVars, mail, exec, lost>>

-----------------------------------------------------------------------------
(* clientActionBridge: the listener and what it does with an event         *)

Does(c, what) == exec' = [exec EXCEPT ![c] = what]

\* Mutant: an action without handler is ignored.
DeliverToHandler(c) ==
  /\ c \in mail
  /\ mail' = mail \ {c}
  /\ IF handlers[wants[c]] = None THEN UNCHANGED exec ELSE Does(c, "running")
  /\ UNCHANGED <<threadVars, requests, channel, pageVars, lost>>

\* runClientAction: an action without handler is answered with an error.
Deliver(c) ==
  /\ c \in mail
  /\ mail' = mail \ {c}
  /\ Does(c, IF handlers[wants[c]] = None THEN "error" ELSE "running")
  /\ UNCHANGED <<threadVars, requests, channel, pageVars, lost>>

\* The handler returns an object; or it throws, navigates its frame, returns
\* something else, or its 24 hours are over.
Finish(c) ==
  /\ exec[c] = "running"
  /\ \E answer \in Answers : Does(c, answer)
  /\ UNCHANGED <<threadVars, requests, channel, pageVars, mail, lost>>

\* respond_plugin_action_bridge takes the sender.  When there is none it
\* fails, and a failed result is reported once more, as an error.
Fails(c) == Does(c, IF exec[c] \in {"result", "taken-result"} THEN "error" ELSE "over")

Respond(c) ==
  /\ exec[c] \in Answers
  /\ requests' = requests \ {c}
  /\ IF c \in requests
       THEN Does(c, IF exec[c] = "result" THEN "taken-result" ELSE "taken-error")
       ELSE Fails(c)
  /\ UNCHANGED <<threadVars, channel, pageVars, mail, lost>>

\* It sends, unless the thread has returned and the receiver is gone.
Send(c) ==
  /\ exec[c] \in {"taken-result", "taken-error"}
  /\ IF call[c] # "done"
       THEN /\ channel' = [channel EXCEPT ![c] = IF exec[c] = "taken-result" THEN "result" ELSE "error"]
            /\ Does(c, "over")
       ELSE /\ Fails(c)
            /\ UNCHANGED channel
  /\ UNCHANGED <<threadVars, requests, pageVars, mail, lost>>

-----------------------------------------------------------------------------
(* The page: PluginRunner, App and the table of handlers                   *)

\* PluginRunner is mounted: the first time it asks for the event, and every
\* time it reads the sources of the plugin's actions.
OpenPlugin(p) ==
  /\ listener' = IF listener = "off" THEN "asked" ELSE listener
  /\ reading' = reading \cup {x \in Declared : x[1] = p}
  /\ UNCHANGED <<threadVars, requests, channel, handlers, mail, exec, reloads, lost>>

Listens ==
  /\ listener = "asked"
  /\ listener' = "on"
  /\ UNCHANGED <<threadVars, requests, channel, handlers, reading, mail, exec, reloads, lost>>

\* The source of one action arrives, or cannot be read and is skipped.
ReadEnds(p, a) ==
  /\ <<p, a>> \in reading
  /\ reading' = reading \ {<<p, a>>}
  /\ handlers' \in {handlers, [handlers EXCEPT ![a] = p]}
  /\ UNCHANGED <<threadVars, requests, channel, listener, mail, exec, reloads, lost>>

\* The page is reloaded (after a rendering error, for one): what it was doing
\* is gone, except for a command the host already executes.
Reload ==
  /\ reloads < MaxReloads
  /\ reloads' = reloads + 1
  /\ listener' = "off"
  /\ handlers' = [a \in Actions |-> None]
  /\ \E recent \in SUBSET Plugins : reading' = ReadAtStart(recent)
  /\ LET gone == mail \cup {c \in Calls : exec[c] \in {"running", "result", "error"}} IN
       /\ exec' = [c \in Calls |-> IF c \in gone THEN "over" ELSE exec[c]]
       /\ lost' = lost \cup gone
  /\ mail' = {}
  /\ UNCHANGED <<threadVars, requests, channel>>

-----------------------------------------------------------------------------
\* A thread that waits, and what the page does about a call.
Thread(c) == Emit(c) \/ EmitFails(c) \/ Receive(c) \/ Expire(c) \/ GiveUp(c)
PageOn(c) == Deliver(c) \/ Finish(c) \/ Respond(c) \/ Send(c)

BridgeNext ==
  \/ \E c \in Calls : Thread(c) \/ PageOn(c) \/ \E a \in Actions : Ask(c, a)
  \/ \E p \in Plugins : OpenPlugin(p) \/ \E a \in Actions : ReadEnds(p, a)
  \/ Listens \/ Reload

BridgeSpec == BridgeInit /\ [][BridgeNext]_bridgeVars

\* Threads run and time passes; the page processes its events and its timers.
BridgeFairness ==
  \A c \in Calls : WF_bridgeVars(Thread(c)) /\ WF_bridgeVars(PageOn(c))

LiveBridgeSpec == BridgeSpec /\ BridgeFairness

-----------------------------------------------------------------------------
(* Properties                                                              *)

\* A sender in the map has a thread that waits for it: whoever comes second,
\* the answer of the page or the time limit of the thread, finds nothing.  So
\* the map does not grow with calls nobody waits for, and an answer that is
\* accepted is accepted once.
NoOrphanRequest ==
  \A c \in requests : call[c] \in {"stored", "waiting", "expired"}

\* A call whose event reached the page is not left to its time limit: the page
\* answers, also when it knows no handler (the comment in clientActionBridge:
\* an unregistered action is answered so that the process does not hang).
\* A time-out means that the event met no listener, that the page was
\* reloaded, or that its answer was under way.
NoSilentHang ==
  \A c \in Calls :
    outcome[c] = "timeout" => c \in lost \/ exec[c] # "none"

\* Every call ends, whatever the page does.
EveryCallEnds ==
  \A c \in Calls : call[c] = "stored" ~> call[c] = "done"
=============================================================================
