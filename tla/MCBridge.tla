------------------------------- MODULE MCBridge -------------------------------
(***************************************************************************)
(* Small instances of the ways plugins call: the connections of the local  *)
(* bridge, calls of actions in particular, and the page of a client        *)
(* plugin.  A behaviour is about one of the three.                         *)
(***************************************************************************)
EXTENDS ActionBridge, BridgeRoutes, PluginPage

CONSTANTS p1, p2, demo, other, t1, t2, g1, g2

\* A builtin, and a plugin that declares the same action and one more.
TwoExports == [p \in {p1, p2} |-> IF p = p1 THEN {demo} ELSE {demo, other}]

\* A session with some abilities, and one for an invocation of an action.
TwoGrants ==
  [t \in {t1, t2} |->
     IF t = t1 THEN [may |-> Abilities \ {"audio.generate"}, login |-> TRUE,
                     invocation |-> FALSE, context |-> FALSE]
               ELSE [may |-> {}, login |-> TRUE, invocation |-> TRUE, context |-> TRUE]]

Sent(path, method, token, flaw, size) ==
  [path |-> path, method |-> method, token |-> token, flaw |-> flaw, size |-> size]

\* Sound requests to all routes, and one of each kind of unsound ones.
SomeRequests ==
  {Sent(r.path, r.method, IF "invocation" \in r.needs THEN t2 ELSE t1, "none", "fits") : r \in Routes}
    \cup {Sent("/llm/chat", "POST", t1, "messages", "fits"), Sent("/llm/chat", "GET", t1, "none", "fits"),
          Sent("/llm/chat", "POST", Nothing, "none", "fits"), Sent("/other", "POST", t1, "none", "fits"),
          Sent("/actions/call", "POST", t1, "none", "fits"),
          Sent("/image/edit", "POST", t1, "none", "huge"), Sent("/image/edit", "POST", t1, "none", "broken")}
    \cup {Sent(c.path, "INVOKE", Nothing, flaw, "fits") : c \in Commands, flaw \in {"none", "data"}}

\* A client plugin that declares all but one of them.
OnePage == [may |-> Abilities \ {"audio.generate"}, login |-> TRUE, invocation |-> FALSE, context |-> FALSE]

\* One plugin may do everything, the other may not write.
OneMayWrite == [p \in {g1, g2} |-> IF p = g1 THEN CallKinds ELSE CallKinds \ {"set"}]

\* For the claim: one chat of one plugin.
NoExports == [p \in {} |-> {}]
OneGrant == [t \in {t1} |-> TwoGrants[t]]
ChatRequest == {Sent("/llm/chat", "POST", t1, "none", "fits")}

VARIABLE focus

AllBridgeVars == <<focus, bridgeVars, routeVars, pluginPageVars>>

AllBridgeInit ==
  focus \in {"calls", "routes", "page"} /\ BridgeInit /\ RoutesInit /\ PageInit

AllBridgeNext ==
  \/ focus = "calls" /\ BridgeNext /\ UNCHANGED <<focus, routeVars, pluginPageVars>>
  \/ focus = "routes" /\ RoutesNext /\ UNCHANGED <<focus, bridgeVars, pluginPageVars>>
  \/ focus = "page" /\ PageNext /\ UNCHANGED <<focus, bridgeVars, routeVars>>

AllBridgeSpec ==
  AllBridgeInit /\ [][AllBridgeNext]_AllBridgeVars
    /\ BridgeFairness /\ RoutesFairness /\ PageFairness

\* The state of each part keeps to its type.
AllBridgeTypeOK == BridgeTypeOK /\ RoutesTypeOK /\ PageTypeOK

\* Nobody who calls waits for ever: the caller of an action whose page is gone,
\* a plugin whose request the platform does not answer, and the user who
\* switches pages.
NobodyWaitsForever == EveryCallEnds /\ EveryRequestAnswered /\ PageArrives
=============================================================================
