----------------------------- MODULE BridgeRoutes -----------------------------
(***************************************************************************)
(* The local bridge as an HTTP server: how it comes up when sessions are   *)
(* registered, and what one connection of a plugin process goes through    *)
(* from its request to its answer.  A request is checked against a copy of *)
(* its session and relayed to the platform, which bills what it executes;  *)
(* a failed attempt is repeated.  The platform is external: it executes a  *)
(* request or not, and its answer arrives or not.                          *)
(*                                                                         *)
(* The page of a client plugin has no session: the host relays its AI      *)
(* calls for it, with what the plugin declares and the login of the user.  *)
(*                                                                         *)
(* A listening socket is named after the registration that bound it, a     *)
(* session after its token.                                                *)
(***************************************************************************)
EXTENDS Integers, FiniteSets

CONSTANTS
  Tokens,    \* the sessions registered in one behaviour
  Grants,    \* token -> what its session allows
  Conns,     \* the connections of one behaviour
  Requests,  \* what plugins may send
  Page,      \* what the page of a client plugin declares, and whether a login is set
  Nothing    \* no token

Abilities == {"llm.chat", "image.generate", "image.edit", "video.generate", "audio.generate"}
Grant == [may : SUBSET Abilities, login : BOOLEAN, invocation : BOOLEAN, context : BOOLEAN]

ASSUME RoutesAssumption ==
  /\ Nothing \notin Tokens
  /\ Grants \in [Tokens -> Grant]
  /\ Page \in Grant

-----------------------------------------------------------------------------
(* The routes.  A request has at most one flaw; a route lists the flaws it *)
(* refuses.  via: relayed with repetition ("retried") or without ("once"), *)
(* a question about a task ("task"), or an action of another plugin.       *)
(* empty: whether an answer without a result counts as a success.          *)

Post(path, needs, flaws, via, empty) ==
  [path |-> path, method |-> "POST", needs |-> needs, refuses |-> {"json"} \cup flaws,
   via |-> via, billed |-> TRUE, empty |-> empty]

Chat   == Post("/llm/chat", {"llm.chat"}, {"messages", "stream", "model"}, "retried", TRUE)
V1Chat == Post("/v1/chat/completions", {"llm.chat"}, {"messages", "model"}, "retried", TRUE)
Image  == Post("/image/generate", {"image.generate"}, {"prompt", "model"}, "retried", TRUE)
V1Image == Post("/v1/images/generations", {"image.generate"}, {"prompt", "model"}, "retried", TRUE)
Edit   == Post("/image/edit", {"image.edit"}, {"prompt", "images", "model", "data"}, "once", FALSE)
Video  == Post("/video/generate", {"video.generate"}, {"seconds", "model", "data"}, "retried", FALSE)
Audio  == Post("/audio/generate", {"audio.generate"}, {"prompt", "model", "data"}, "retried", FALSE)

\* Unless the plugin runs for an invocation, these two are refused.
Nested   == [Post("/actions/call", {"invocation", "context"}, {"dependency", "input"}, "action", TRUE)
               EXCEPT !.billed = FALSE]
Artifact == [Post("/artifacts", {"invocation"}, {}, "retried", TRUE) EXCEPT !.billed = FALSE]

Get(path, needs, flaws, via, empty) ==
  [Post(path, needs, flaws, via, empty) EXCEPT !.method = "GET", !.refuses = flaws, !.billed = FALSE]

Models   == Get("/v1/models", {}, {}, "retried", TRUE)
Progress == {Get("/video/stream", {"video.generate"}, {"task_id"}, "task", TRUE),
             Get("/audio/stream", {"audio.generate"}, {"task_id"}, "task", TRUE)}
Download == {Get("/video/download", {"video.generate"}, {"task_id"}, "task", FALSE),
             Get("/audio/download", {"audio.generate"}, {"task_id"}, "task", FALSE)}

\* Commands for the pages of client plugins, which take any answer about a
\* video or a voice for a result.
Invoked(path, needs, flaws, via, empty) ==
  [Post(path, needs, flaws, via, empty) EXCEPT !.method = "INVOKE", !.refuses = flaws]

ClientChat  == Invoked("client_llm_chat", {"llm.chat"}, {"messages", "model"}, "retried", TRUE)
ClientImage == Invoked("client_image_generate", {"image.generate"}, {"prompt", "model"}, "retried", TRUE)
ClientEdit  == Invoked("client_image_edit", {"image.edit"}, {"prompt", "images", "model", "data"}, "once", FALSE)
ClientVideo == Invoked("client_video_generate", {"video.generate"}, {"seconds", "model", "data"}, "retried", TRUE)
ClientAudio == Invoked("client_audio_generate", {"audio.generate"}, {"prompt", "model", "data"}, "retried", TRUE)

Commands == {ClientChat, ClientImage, ClientEdit, ClientVideo, ClientAudio}

Routes == {Chat, V1Chat, Image, V1Image, Edit, Video, Audio, Nested, Artifact, Models}
            \cup Progress \cup Download
GetPaths == {r.path : r \in {s \in Routes : s.method = "GET"}}

\* Capability, login, invocation and its context, body: in this order.
Refusal(grant, route, flaw) ==
  CASE ~ (route.needs \cap Abilities \subseteq grant.may)       -> 403
    [] ~ grant.login                                            -> 401
    [] "invocation" \in route.needs /\ ~ grant.invocation       -> 403
    [] "context" \in route.needs /\ ~ grant.context             -> 503
    [] flaw \in route.refuses                                   -> 400
    [] OTHER                                                    -> 0

-----------------------------------------------------------------------------
VARIABLES
  endpoint,   \* the published address: the listener it belongs to, or Nothing
  signup,     \* each registration: "new", "binding", "bound", "served", "open" or "revoked"
  url,        \* the address its plugin was given
  listeners,  \* sockets that are open
  accepting,  \* those with a thread that accepts connections
  conn        \* each connection

serverVars == <<endpoint, signup, url, listeners, accepting>>
routeVars  == <<endpoint, signup, url, listeners, accepting, conn>>

MaxRetries == 3
Least(m, n) == IF m < n THEN m ELSE n

\* at: step; session: the copied session; asked, ran, lost: attempts made,
\* those the platform executed, whether an answer went missing.
Blank == [at |-> "new", request |-> Nothing, session |-> Nothing,
          asked |-> 0, ran |-> 0, lost |-> FALSE, status |-> 0]
ConnSteps == {"new", "sent", "read", "ask", "pause", "task", "action", "answered"}

RoutesTypeOK ==
  /\ endpoint \in Tokens \cup {Nothing}
  /\ signup \in [Tokens -> {"new", "binding", "bound", "served", "open", "revoked"}]
  /\ url \in [Tokens -> Tokens \cup {Nothing}]
  /\ listeners \in SUBSET Tokens /\ accepting \subseteq listeners
  /\ \A k \in Conns :
       /\ conn[k].at \in ConnSteps
       /\ conn[k].request \in Requests \cup {Nothing}
       /\ conn[k].session \in Tokens \cup {Nothing}
       /\ conn[k].asked \in 0 .. MaxRetries + 1 /\ conn[k].ran \in 0 .. conn[k].asked
       /\ conn[k].at = "answered" <=> conn[k].status # 0

RoutesInit ==
  /\ endpoint = Nothing
  /\ signup = [t \in Tokens |-> "new"]
  /\ url = [t \in Tokens |-> Nothing]
  /\ listeners = {} /\ accepting = {}
  /\ conn = [k \in Conns |-> Blank]

-----------------------------------------------------------------------------
(* register_session and register_action_session, with ensure_server: the   *)
(* lock of the address is released while the socket is bound               *)

SignupAt(t, place) == signup' = [signup EXCEPT ![t] = place]

FindServer(t) ==
  /\ signup[t] = "new"
  /\ IF endpoint = Nothing
       THEN SignupAt(t, "binding") /\ UNCHANGED url
       ELSE SignupAt(t, "served") /\ url' = [url EXCEPT ![t] = endpoint]
  /\ UNCHANGED <<endpoint, listeners, accepting, conn>>

Bind(t) ==
  /\ signup[t] = "binding"
  /\ \/ SignupAt(t, "bound") /\ listeners' = listeners \cup {t}
     \/ SignupAt(t, "revoked") /\ UNCHANGED listeners  \* no socket: no session
  /\ UNCHANGED <<endpoint, url, accepting, conn>>

\* Mutant: does not look again; the last one publishes its address.
PublishAnyway(t) ==
  /\ signup[t] = "bound"
  /\ SignupAt(t, "served")
  /\ endpoint' = t /\ accepting' = accepting \cup {t}
  /\ url' = [url EXCEPT ![t] = t]
  /\ UNCHANGED <<listeners, conn>>

\* Looks again under the lock: the second one drops its socket.
Publish(t) ==
  /\ signup[t] = "bound"
  /\ SignupAt(t, "served")
  /\ IF endpoint = Nothing
       THEN /\ endpoint' = t /\ accepting' = accepting \cup {t}
            /\ url' = [url EXCEPT ![t] = t]
            /\ UNCHANGED listeners
       ELSE /\ listeners' = listeners \ {t}
            /\ url' = [url EXCEPT ![t] = endpoint]
            /\ UNCHANGED <<endpoint, accepting>>
  /\ UNCHANGED conn

OpenSession(t) ==
  /\ signup[t] = "served"
  /\ SignupAt(t, "open")
  /\ UNCHANGED <<endpoint, url, listeners, accepting, conn>>

\* A stop, the exit of the process, or the age of the session.
CloseSession(t) ==
  /\ signup[t] = "open"
  /\ SignupAt(t, "revoked")
  /\ UNCHANGED <<endpoint, url, listeners, accepting, conn>>

-----------------------------------------------------------------------------
(* handle_connection: one thread for each                                  *)

ConnAt(k, place) == conn' = [conn EXCEPT ![k].at = place]
Reply(k, status) == conn' = [conn EXCEPT ![k].at = "answered", ![k].status = status]

\* A plugin uses the token it was given, or a wrong one, or none.
Connect(k) ==
  /\ conn[k].at = "new"
  /\ accepting # {}
  /\ \E r \in Requests :
       /\ r.method # "INVOKE"
       /\ r.token \in Tokens => signup[r.token] \in {"open", "revoked"} /\ url[r.token] \in accepting
       /\ conn' = [conn EXCEPT ![k].at = "sent", ![k].request = r]
  /\ UNCHANGED serverVars

\* A body that ends early is taken as it is; its flaw shows when it is parsed.
ReadRequest(k) ==
  /\ conn[k].at = "sent"
  /\ CASE conn[k].request.size = "broken" -> Reply(k, 400)
       [] conn[k].request.size = "huge"   -> Reply(k, 413)
       [] OTHER                           -> ConnAt(k, "read")
  /\ UNCHANGED serverVars

\* Where an accepted request goes.
Begin(k, route, t) ==
  conn' = [conn EXCEPT ![k].session = t,
                       ![k].at = IF route.via = "action" THEN "action" ELSE "ask"]

RouteRequest(k) ==
  /\ conn[k].at = "read"
  /\ LET r == conn[k].request
         found == {s \in Routes : s.path = r.path /\ s.method = r.method}
     IN  IF ~ (r.method = "POST" \/ (r.method = "GET" /\ r.path \in GetPaths)) THEN Reply(k, 404)
         ELSE IF r.token \notin Tokens THEN Reply(k, 401)
         ELSE IF signup[r.token] # "open" THEN Reply(k, 401)
         ELSE IF found = {} THEN Reply(k, 404)
         ELSE LET route == CHOOSE s \in found : TRUE
                  refusal == Refusal(Grants[r.token], route, r.flaw)
              IN  IF refusal # 0 THEN Reply(k, refusal) ELSE Begin(k, route, r.token)
  /\ UNCHANGED serverVars

\* A command of a page: login first, then the declared capabilities.
Invoke(k) ==
  /\ conn[k].at = "new"
  /\ \E r \in Requests, command \in Commands :
       /\ r.path = command.path /\ r.method = "INVOKE"
       /\ LET status == IF Page.login THEN Refusal(Page, command, r.flaw) ELSE 401 IN
            conn' = [conn EXCEPT ![k].request = r, ![k].status = status,
                                 ![k].at = IF status = 0 THEN "ask" ELSE "answered"]
  /\ UNCHANGED serverVars

RouteOf(k) == CHOOSE s \in Routes \cup Commands : s.path = conn[k].request.path

-----------------------------------------------------------------------------
(* relay_post_json, relay_post_json_timeout, relay_get_json, relay_post_raw *)

\* status: what the bridge makes of it.  No connection, an answer that does
\* not come in time, cannot be read or is no JSON: 502, all alike.
Outcome(status, ran, lost, full) == [status |-> status, ran |-> ran, lost |-> lost, full |-> full]
Outcomes ==
  {Outcome(200, 1, FALSE, TRUE), Outcome(200, 1, FALSE, FALSE),
   Outcome(502, 0, FALSE, FALSE), Outcome(502, 1, TRUE, FALSE),
   Outcome(503, 0, FALSE, FALSE), Outcome(402, 0, FALSE, FALSE),
   Outcome(504, 0, FALSE, FALSE), Outcome(504, 1, FALSE, FALSE)}

\* relay_with_retry: the platform was not available, and tries are left.
\* Mutants: forget the limit; take a timeout of the gateway for one of these.
AgainAlways(route, asked, status) == route.via # "once" /\ status \in {502, 503}
AgainAfterTimeout(route, asked, status) ==
  route.via # "once" /\ status \in {502, 503, 504} /\ asked <= MaxRetries

Again(route, asked, status) == route.via # "once" /\ status \in {502, 503} /\ asked <= MaxRetries

\* What the plugin is told in the end.  The answer about the credentials of a
\* task service is not the answer to the request.

Final(route, o) == IF o.status = 200 /\ ~ o.full /\ ~ route.empty THEN 502 ELSE o.status

\* The platform names a task service, and its keys.
Configured(o) == o.status = 200 /\ o.full

\* The count stops behind the last try.
AskRelay(k) ==
  /\ conn[k].at = "ask"
  /\ \E o \in Outcomes :
       LET route == RouteOf(k)
           asked == Least(conn[k].asked + 1, MaxRetries + 1)
           ran   == IF route.billed THEN Least(conn[k].ran + o.ran, asked) ELSE 0
           step(place, status) ==
             conn' = [conn EXCEPT ![k].asked = asked, ![k].ran = ran, ![k].lost = @ \/ o.lost,
                                  ![k].at = place, ![k].status = status]
       IN  IF Again(route, asked, o.status) THEN step("pause", 0)
           ELSE IF route.via # "task" THEN step("answered", Final(route, o))
           ELSE IF Configured(o) THEN step("task", 0) ELSE step("answered", 503)
  /\ UNCHANGED serverVars

\* 1, 2 and 4 seconds.
Pause(k) ==
  /\ conn[k].at = "pause"
  /\ ConnAt(k, "ask")
  /\ UNCHANGED serverVars

\* One question to the service of the task, with the key of its account: its
\* state now, or its result, which must not be empty.
AskProgress(k) ==
  /\ conn[k].at = "task" /\ RouteOf(k) \in Progress
  /\ \E status \in {200, 502} : Reply(k, status)
  /\ UNCHANGED serverVars

FetchResult(k) ==
  /\ conn[k].at = "task" /\ RouteOf(k) \in Download
  /\ \E o \in {p \in Outcomes : p.status \in {200, 502}} : Reply(k, Final(RouteOf(k), o))
  /\ UNCHANGED serverVars

\* The other plugin answers, or the time limit is over: see ActionBridge.
AwaitAction(k) ==
  /\ conn[k].at = "action"
  /\ \E status \in {200, 500, 503, 504} : Reply(k, status)
  /\ UNCHANGED serverVars

-----------------------------------------------------------------------------
Signup(t) == FindServer(t) \/ Bind(t) \/ Publish(t) \/ OpenSession(t)
Handle(k) == \/ ReadRequest(k) \/ RouteRequest(k) \/ AskRelay(k) \/ Pause(k)
             \/ AskProgress(k) \/ FetchResult(k) \/ AwaitAction(k)

RoutesNext ==
  \/ \E t \in Tokens : Signup(t) \/ CloseSession(t)
  \/ \E k \in Conns : Connect(k) \/ Invoke(k) \/ Handle(k)

RoutesSpec == RoutesInit /\ [][RoutesNext]_routeVars

\* Each connection has a thread; reads and relay calls have time limits.
RoutesFairness == \A k \in Conns : WF_routeVars(Handle(k))

LiveRoutesSpec == RoutesSpec /\ RoutesFairness

-----------------------------------------------------------------------------
(* Properties                                                              *)

\* However many registrations find no server and bind a socket, one server
\* comes out of it, and every plugin got its address: no plugin is left with
\* the address of a socket that was dropped.
OneServer ==
  /\ Cardinality(accepting) <= 1
  /\ \A t \in Tokens : signup[t] \in {"served", "open"} => url[t] \in accepting

\* Repetition does not bill twice, unless an answer went missing on its way
\* (which the bridge takes for an unavailable platform); an edit of an image,
\* which is not repeated, is never executed twice.
BilledOnce ==
  \A k \in Conns :
    /\ ~ conn[k].lost => conn[k].ran <= 1
    /\ conn[k].ran > 1 => conn[k].request.path \notin {Edit.path, ClientEdit.path}

\* Every request that arrives is answered, whatever the platform does.
EveryRequestAnswered ==
  \A k \in Conns : conn[k].at # "new" ~> conn[k].at = "answered"
=============================================================================
