----------------------------- MODULE Bridge_proofs -----------------------------
(***************************************************************************)
(* Proofs about the ways plugins call: the local bridge as a server, the   *)
(* page of a client plugin, and both with the calls of actions beside      *)
(* them.                                                                   *)
(***************************************************************************)
EXTENDS MCBridge, ActionBridge_proofs, FiniteSetTheorems

-----------------------------------------------------------------------------
(* The server: the strengthening                                           *)

\* The published address is that of the one listener with a thread, and every
\* registration that is through got it; one that has bound a socket of its own
\* has not published it.
ServerInv ==
  /\ endpoint \in Tokens \cup {Nothing}
  /\ signup \in [Tokens -> {"new", "binding", "bound", "served", "open", "revoked"}]
  /\ url \in [Tokens -> Tokens \cup {Nothing}]
  /\ listeners \subseteq Tokens
  /\ accepting = {endpoint} \ {Nothing} /\ accepting \subseteq listeners
  /\ \A t \in Tokens : signup[t] \in {"new", "binding", "bound"} => t # endpoint
  /\ \A t \in Tokens : signup[t] = "bound" => t \in listeners
  /\ \A t \in Tokens : signup[t] \in {"served", "open"} => endpoint # Nothing /\ url[t] = endpoint

\* What is asked at a connection of the bridge.
ConnRec == [at : ConnSteps, request : Requests \cup {Nothing}, session : Tokens \cup {Nothing},
            asked : 0 .. MaxRetries + 1, ran : Nat, lost : BOOLEAN, status : Nat]

\* A connection is asked again only while nothing was executed that was not
\* lost; the edit of an image is asked once.
ConnInv ==
  /\ conn \in [Conns -> ConnRec]
  /\ \A k \in Conns :
       /\ conn[k].ran <= conn[k].asked
       /\ conn[k].at = "answered" <=> conn[k].status # 0
       /\ conn[k].at \in {"new", "sent", "read"} =>
            conn[k].asked = 0 /\ conn[k].session = Nothing /\ ~ conn[k].lost
       /\ conn[k].at \in {"ask", "pause"} /\ ~ conn[k].lost => conn[k].ran = 0
       /\ ~ conn[k].lost => conn[k].ran <= 1
       /\ conn[k].at # "new" /\ conn[k].request.path \in {Edit.path, ClientEdit.path} =>
            /\ conn[k].ran <= 1
            /\ conn[k].at # "pause" /\ (conn[k].at = "ask" => conn[k].ran = 0)

RoutesInv == ServerInv /\ ConnInv

-----------------------------------------------------------------------------
(* The page of a client plugin: the strengthening                          *)

CallRec == [id : Nat, kind : CallKinds, from : ClientPlugins, as : ClientPlugins, frame : Nat,
            at : {"asked", "waiting", "done", "refused"}]

\* What the page shows, reads and has opened; promises and calls are numbered
\* within the document and the behaviour.
PageShape ==
  /\ PageTypeOK
  /\ posts \in 0 .. MaxPosts
  /\ doc = NoDoc \/ doc \in [of : ClientPlugins, save : Nat, ids : 0 .. posts, frame : {mount}]
  /\ doc.of # NoPlugin => doc.of \in opened
  /\ shown # NoPlugin => mount # 0 /\ shown \in opened
  /\ shown = NoPlugin => reads = {}
  /\ doc = NoDoc => DOMAIN pending = {}
  /\ \A i \in DOMAIN pending : i \in 1 .. doc.ids
  /\ \A n \in DOMAIN calls : calls[n] \in CallRec /\ calls[n].frame \in 1 .. mount

\* A view that waits is in the queue once.
QueueHolds ==
  /\ queue \in Seq(1 .. MaxPosts)
  /\ \A i, j \in 1 .. Len(queue) : queue[i] = queue[j] => i = j
  /\ \A n \in DOMAIN calls : calls[n].at = "waiting" <=> \E i \in 1 .. Len(queue) : queue[i] = n

\* Until the user goes from one plugin to another, everything about the page is
\* about the plugin that is shown.
OnePluginShown ==
  ~ switched =>
    /\ reads \subseteq {shown}
    /\ doc # NoDoc => doc.of = shown
    /\ \A n \in DOMAIN calls : calls[n].from = calls[n].as
    /\ \A p \in ClientPlugins : store[p] \in {NoPlugin, p}

\* Until a document takes another one's place, a call of this frame has an id
\* of this document, and the promise of that id is its own.
OneDocumentAFrame ==
  ~ replaced =>
    /\ doc = NoDoc /\ shown # NoPlugin /\ ~ failed => \A n \in DOMAIN calls : calls[n].frame # mount
    /\ doc # NoDoc =>
         \A n \in DOMAIN calls : calls[n].frame = mount =>
           /\ calls[n].id <= doc.ids
           /\ calls[n].id \in DOMAIN pending => pending[calls[n].id].post = n
    /\ ~ mixed

PageInv == PageShape /\ QueueHolds /\ OnePluginShown /\ OneDocumentAFrame

-----------------------------------------------------------------------------
(* The server: the proof                                                   *)

LEMMA RoutesAtStart == RoutesInit => RoutesInv
BY RoutesAssumption
   DEF RoutesInit, RoutesInv, ServerInv, ConnInv, ConnRec, Blank, ConnSteps, MaxRetries

\* A registration finds the server, or becomes it, or drops its socket.
LEMMA RegistrationStep ==
  ASSUME ServerInv, NEW t \in Tokens, Signup(t) \/ CloseSession(t)
  PROVE  ServerInv' /\ conn' = conn
<1>. USE RoutesAssumption DEF ServerInv, SignupAt
<1>1. CASE FindServer(t)    BY <1>1 DEF FindServer
<1>2. CASE Bind(t)          BY <1>2 DEF Bind
<1>3. CASE Publish(t)
  <2>1. CASE endpoint = Nothing
    <3>1. /\ endpoint' = t /\ accepting' = accepting \cup {t} /\ UNCHANGED <<listeners, conn>>
          /\ url' = [url EXCEPT ![t] = t] /\ signup' = [signup EXCEPT ![t] = "served"]
          /\ t \in listeners
      BY <1>3, <2>1 DEF Publish
    <3>2. accepting' = {endpoint'} \ {Nothing} /\ accepting' \subseteq listeners'
      BY <2>1, <3>1
    <3>. QED BY <2>1, <3>1, <3>2
  <2>2. CASE endpoint # Nothing
    <3>1. /\ UNCHANGED <<endpoint, accepting, conn>> /\ listeners' = listeners \ {t} /\ t # endpoint
          /\ url' = [url EXCEPT ![t] = endpoint] /\ signup' = [signup EXCEPT ![t] = "served"]
      BY <1>3, <2>2 DEF Publish
    <3>2. accepting' \subseteq listeners'
      BY <3>1
    <3>. QED BY <2>2, <3>1, <3>2
  <2>. QED BY <2>1, <2>2
<1>4. CASE OpenSession(t)   BY <1>4 DEF OpenSession
<1>5. CASE CloseSession(t)  BY <1>5 DEF CloseSession
<1>. QED BY <1>1, <1>2, <1>3, <1>4, <1>5 DEF Signup

\* Both ways to edit an image are relayed once, and each path is of one route.
LEMMA EditsAreOnce ==
  ASSUME NEW k \in Conns, conn[k].request.path \in {Edit.path, ClientEdit.path}
  PROVE  RouteOf(k).via = "once"
<1>1. \A s \in Routes \cup Commands : s.path \in {Edit.path, ClientEdit.path} => s.via = "once"
  <2>1. Edit.path = "/image/edit" /\ ClientEdit.path = "client_image_edit"
    BY DEF Edit, ClientEdit, Invoked, Post
  <2>2. Edit.via = "once" /\ ClientEdit.via = "once"
    BY DEF Edit, ClientEdit, Invoked, Post
  <2>3. \A s \in {Chat, V1Chat, Image, V1Image, Video, Audio} : s.path \notin {"/image/edit", "client_image_edit"}
    BY DEF Chat, V1Chat, Image, V1Image, Video, Audio, Post
  <2>4. /\ Nested.path = "/actions/call"
        /\ Artifact.path = "/artifacts"
        /\ Models.path = "/v1/models"
    <3>1. Nested.path = "/actions/call"
      BY DEF Nested, Post
    <3>2. Artifact.path = "/artifacts"
      BY DEF Artifact, Post
    <3>3. Models.path = "/v1/models"
      BY DEF Models, Get, Post
    <3>. QED BY <3>1, <3>2, <3>3
  <2>5. \A s \in Progress \cup Download : s.path \notin {"/image/edit", "client_image_edit"}
    BY DEF Progress, Download, Get, Post
  <2>6. \A s \in {ClientChat, ClientImage, ClientVideo, ClientAudio} :
          s.path \notin {"/image/edit", "client_image_edit"}
    BY DEF ClientChat, ClientImage, ClientVideo, ClientAudio, Invoked, Post
  <2>. QED BY <2>1, <2>2, <2>3, <2>4, <2>5, <2>6 DEF Routes, Commands
<1>2. \E s \in Routes \cup Commands : s.path = conn[k].request.path
  BY DEF Routes, Commands
<1>. QED BY <1>1, <1>2 DEF RouteOf

\* What the invariant says of one connection.
ConnHolds(k) ==
  /\ conn[k].ran <= conn[k].asked
  /\ conn[k].at = "answered" <=> conn[k].status # 0
  /\ conn[k].at \in {"new", "sent", "read"} =>
       conn[k].asked = 0 /\ conn[k].session = Nothing /\ ~ conn[k].lost
  /\ conn[k].at \in {"ask", "pause"} /\ ~ conn[k].lost => conn[k].ran = 0
  /\ ~ conn[k].lost => conn[k].ran <= 1
  /\ conn[k].at # "new" /\ conn[k].request.path \in {Edit.path, ClientEdit.path} =>
       /\ conn[k].ran <= 1
       /\ conn[k].at # "pause" /\ (conn[k].at = "ask" => conn[k].ran = 0)

\* A step of one connection is one of that connection only.
LEMMA OneConnection ==
  ASSUME ConnInv, NEW k \in Conns, NEW c \in ConnRec,
         conn' = [conn EXCEPT ![k] = c], ConnHolds(k)'
  PROVE  ConnInv'
BY DEF ConnInv, ConnHolds

\* Up to the question to the platform nothing was asked.
LEMMA ArrivalSteps ==
  ASSUME ConnInv, NEW k \in Conns, Connect(k) \/ ReadRequest(k) \/ RouteRequest(k) \/ Invoke(k)
  PROVE  ConnInv' /\ UNCHANGED serverVars
<1>1. conn \in [Conns -> ConnRec] /\ conn[k] \in ConnRec /\ ConnHolds(k)
  BY DEF ConnInv, ConnHolds
<1>2. /\ conn[k].at \in {"new", "sent", "read"}
      /\ UNCHANGED serverVars
  BY DEF Connect, ReadRequest, RouteRequest, Invoke
<1>. DEFINE Same(c) == /\ c.asked = conn[k].asked /\ c.ran = conn[k].ran /\ c.lost = conn[k].lost
                       /\ c.at # "pause"
                       /\ c.at \in {"new", "sent", "read"} => c.session = Nothing
                       /\ c.at = "answered" <=> c.status # 0
<1>3. conn' = [conn EXCEPT ![k] = conn'[k]] /\ conn'[k] \in ConnRec /\ Same(conn'[k])
  <2>r. \A grant, route, flaw : Refusal(grant, route, flaw) \in Nat
    BY DEF Refusal
  <2>1. CASE Connect(k)
    <3>1. PICK r \in Requests : /\ conn' = [conn EXCEPT ![k].at = "sent", ![k].request = r]
                                /\ conn[k].at = "new"
      BY <2>1 DEF Connect
    <3>2. conn'[k] = [conn[k] EXCEPT !.at = "sent", !.request = r] /\ conn' = [conn EXCEPT ![k] = conn'[k]]
      BY <3>1, <1>1
    <3>. QED BY <3>1, <3>2, <1>1 DEF ConnRec, ConnSteps, ConnHolds
  <2>2. ASSUME NEW status \in Nat \ {0}, Reply(k, status)
        PROVE  conn' = [conn EXCEPT ![k] = conn'[k]] /\ conn'[k] \in ConnRec /\ Same(conn'[k])
    <3>2. /\ conn'[k] = [conn[k] EXCEPT !.at = "answered", !.status = status]
          /\ conn' = [conn EXCEPT ![k] = conn'[k]]
      BY <2>2, <1>1 DEF Reply
    <3>. QED BY <3>2, <1>1 DEF ConnRec, ConnSteps
  <2>3. CASE ReadRequest(k)
    <3>1. CASE ConnAt(k, "read")
      BY <2>3, <3>1, <1>1 DEF ReadRequest, ConnAt, ConnRec, ConnSteps, ConnHolds
    <3>. QED BY <2>2, <2>3, <3>1 DEF ReadRequest
  <2>4. CASE RouteRequest(k)
    <3>1. \/ \E status \in Nat \ {0} : Reply(k, status)
          \/ \E route, t : t \in Tokens /\ Begin(k, route, t)
      BY <2>4, <2>r DEF RouteRequest
    <3>2. ASSUME NEW route, NEW t \in Tokens, Begin(k, route, t)
          PROVE  conn' = [conn EXCEPT ![k] = conn'[k]] /\ conn'[k] \in ConnRec /\ Same(conn'[k])
      <4>1. PICK place \in {"action", "ask"} : conn' = [conn EXCEPT ![k].session = t, ![k].at = place]
        BY <3>2 DEF Begin
      <4>2. conn'[k] = [conn[k] EXCEPT !.session = t, !.at = place] /\ conn' = [conn EXCEPT ![k] = conn'[k]]
        BY <4>1, <1>1
      <4>3. conn[k].at = "read"
        BY <2>4 DEF RouteRequest
      <4>. QED BY <4>2, <4>3, <1>1 DEF ConnRec, ConnSteps, ConnHolds
    <3>. QED BY <3>1, <3>2, <2>2
  <2>5. CASE Invoke(k)
    <3>1. PICK r \in Requests, status \in Nat :
            conn' = [conn EXCEPT ![k].request = r, ![k].status = status,
                                 ![k].at = IF status = 0 THEN "ask" ELSE "answered"]
      <4>1. PICK r \in Requests, command \in Commands :
              LET status == IF Page.login THEN Refusal(Page, command, r.flaw) ELSE 401 IN
                conn' = [conn EXCEPT ![k].request = r, ![k].status = status,
                                     ![k].at = IF status = 0 THEN "ask" ELSE "answered"]
        BY <2>5 DEF Invoke
      <4>2. PICK status \in Nat : status = IF Page.login THEN Refusal(Page, command, r.flaw) ELSE 401
        BY <2>r
      <4>. QED BY <4>1, <4>2, ZenonT(40)
    <3>2. PICK place : place = IF status = 0 THEN "ask" ELSE "answered"
      OBVIOUS
    <3>3. /\ conn'[k] = [conn[k] EXCEPT !.request = r, !.status = status, !.at = place]
          /\ conn' = [conn EXCEPT ![k] = conn'[k]]
      BY <3>1, <3>2, <1>1
    <3>. QED BY <3>2, <3>3, <1>1 DEF ConnRec, ConnSteps
  <2>. QED BY <2>1, <2>3, <2>4, <2>5
<1>6. conn[k].asked = 0 /\ ~ conn[k].lost /\ conn[k].ran = 0
  BY <1>1, <1>2 DEF ConnHolds, ConnRec
<1>7. ConnHolds(k)'
  BY <1>3, <1>6 DEF ConnHolds
<1>. QED BY <1>2, <1>3, <1>7, OneConnection

\* What an outcome of a relay call is, and what the plugin is told of it.
LEMMA OutcomeFacts ==
  ASSUME NEW o \in Outcomes, NEW route
  PROVE  /\ o.status \in Nat \ {0} /\ o.ran \in {0, 1} /\ o.lost \in BOOLEAN
         /\ Final(route, o) \in Nat \ {0}
         /\ o.status \in {502, 503} /\ ~ o.lost => o.ran = 0
<1>1. Outcomes \subseteq [status : Nat \ {0}, ran : {0, 1}, lost : BOOLEAN, full : BOOLEAN]
  BY DEF Outcomes, Outcome
<1>2. o.status \in {502, 503} /\ ~ o.lost => o.ran = 0
  BY DEF Outcomes, Outcome
<1>3. Final(route, o) = 502 \/ Final(route, o) = o.status
  BY DEF Final
<1>. QED BY <1>1, <1>2, <1>3

\* One more question to the platform: repeated only if the last one was not
\* executed, or its answer is lost.
LEMMA RelayStep ==
  ASSUME ConnInv, NEW k \in Conns, AskRelay(k)
  PROVE  ConnInv' /\ UNCHANGED serverVars
<1>1. /\ conn \in [Conns -> ConnRec] /\ conn[k] \in ConnRec /\ ConnHolds(k)
      /\ conn[k].at = "ask" /\ UNCHANGED serverVars
  BY DEF ConnInv, ConnHolds, AskRelay
<1>2. PICK route : route = RouteOf(k)
  OBVIOUS
<1>3. PICK asked : asked = Least(conn[k].asked + 1, MaxRetries + 1)
  OBVIOUS
<1>4. PICK o \in Outcomes :
        LET ran == IF route.billed THEN Least(conn[k].ran + o.ran, asked) ELSE 0
            step(place, status) ==
              conn' = [conn EXCEPT ![k].asked = asked, ![k].ran = ran, ![k].lost = @ \/ o.lost,
                                   ![k].at = place, ![k].status = status]
        IN  IF Again(route, asked, o.status) THEN step("pause", 0)
            ELSE IF route.via # "task" THEN step("answered", Final(route, o))
            ELSE IF Configured(o) THEN step("task", 0) ELSE step("answered", 503)
  BY <1>2, <1>3, ZenonT(60) DEF AskRelay
<1>5. PICK ran : ran = IF route.billed THEN Least(conn[k].ran + o.ran, asked) ELSE 0
  OBVIOUS
<1>. DEFINE step(place, status) ==
       conn' = [conn EXCEPT ![k].asked = asked, ![k].ran = ran, ![k].lost = @ \/ o.lost,
                            ![k].at = place, ![k].status = status]
<1>s. \/ Again(route, asked, o.status) /\ step("pause", 0)
      \/ step("answered", Final(route, o))
      \/ step("task", 0)
      \/ step("answered", 503)
  BY <1>4, <1>5
<1>. HIDE DEF step
<1>6. PICK place, status :
        /\ status \in Nat
        /\ step(place, status)
        /\ \/ place = "pause" /\ status = 0 /\ Again(route, asked, o.status)
           \/ place = "answered" /\ status # 0
           \/ place = "task" /\ status = 0
  <2>1. Final(route, o) \in Nat \ {0}
    BY OutcomeFacts
  <2>. QED BY <1>s, <2>1
<1>7. PICK missed \in BOOLEAN : missed = (conn[k].lost \/ o.lost)
  BY <1>1, OutcomeFacts DEF ConnRec
<1>8. /\ conn'[k] = [conn[k] EXCEPT !.asked = asked, !.ran = ran, !.lost = missed, !.at = place, !.status = status]
      /\ conn' = [conn EXCEPT ![k] = conn'[k]]
  BY <1>1, <1>6, <1>7 DEF step
<1>9. asked \in 0 .. MaxRetries + 1 /\ ran \in Nat /\ ran <= asked /\ ran <= conn[k].ran + o.ran
  <2>1. conn[k].asked \in 0 .. MaxRetries + 1 /\ conn[k].ran \in Nat /\ conn[k].ran <= conn[k].asked
    BY <1>1 DEF ConnRec, ConnHolds
  <2>2. asked \in 0 .. MaxRetries + 1 /\ asked >= conn[k].asked
    BY <1>3, <2>1 DEF Least, MaxRetries
  <2>. QED BY <1>5, <2>1, <2>2, OutcomeFacts DEF Least, MaxRetries
<1>10. conn'[k] \in ConnRec
  BY <1>1, <1>6, <1>7, <1>8, <1>9 DEF ConnRec, ConnSteps
<1>11. /\ ~ missed => ran <= 1
       /\ place = "pause" /\ ~ missed => ran = 0
  BY <1>1, <1>6, <1>7, <1>9, OutcomeFacts DEF ConnHolds, ConnRec, Again
<1>12. conn[k].request.path \in {Edit.path, ClientEdit.path} => place # "pause" /\ ran <= 1
  <2>1. ASSUME conn[k].request.path \in {Edit.path, ClientEdit.path}
        PROVE  place # "pause" /\ ran <= 1
    <3>1. route.via = "once"
      BY <1>2, <2>1, EditsAreOnce
    <3>. QED BY <1>1, <1>6, <1>9, <2>1, <3>1, OutcomeFacts DEF ConnHolds, Again
  <2>. QED BY <2>1
<1>13. /\ conn'[k].asked = asked /\ conn'[k].ran = ran /\ conn'[k].lost = missed
       /\ conn'[k].at = place /\ conn'[k].status = status /\ conn'[k].request = conn[k].request
  BY <1>1, <1>8 DEF ConnRec
<1>14. ConnHolds(k)'
  BY <1>6, <1>9, <1>11, <1>12, <1>13 DEF ConnHolds
<1>. QED BY <1>1, <1>8, <1>10, <1>14, OneConnection

\* What is left of a connection asks the platform nothing more.
LEMMA OtherConnSteps ==
  ASSUME ConnInv, NEW k \in Conns, Pause(k) \/ AskProgress(k) \/ FetchResult(k) \/ AwaitAction(k)
  PROVE  ConnInv' /\ UNCHANGED serverVars
<1>1. /\ conn \in [Conns -> ConnRec] /\ conn[k] \in ConnRec /\ ConnHolds(k)
      /\ UNCHANGED serverVars
  BY DEF ConnInv, ConnHolds, Pause, AskProgress, FetchResult, AwaitAction
<1>2. CASE Pause(k)
  <2>1. /\ conn'[k] = [conn[k] EXCEPT !.at = "ask"] /\ conn' = [conn EXCEPT ![k] = conn'[k]]
        /\ conn[k].at = "pause"
    BY <1>1, <1>2 DEF Pause, ConnAt
  <2>2. ConnHolds(k)' /\ conn'[k] \in ConnRec
    BY <1>1, <2>1 DEF ConnHolds, ConnRec, ConnSteps
  <2>. QED BY <1>1, <2>1, <2>2, OneConnection
<1>3. CASE \E status \in Nat \ {0} : Reply(k, status) /\ conn[k].at \in {"task", "action"}
  <2>1. PICK status \in Nat \ {0} : Reply(k, status) /\ conn[k].at \in {"task", "action"}
    BY <1>3
  <2>2. /\ conn'[k] = [conn[k] EXCEPT !.at = "answered", !.status = status]
        /\ conn' = [conn EXCEPT ![k] = conn'[k]]
    BY <1>1, <2>1 DEF Reply
  <2>3. ConnHolds(k)' /\ conn'[k] \in ConnRec
    BY <1>1, <2>1, <2>2 DEF ConnHolds, ConnRec, ConnSteps
  <2>. QED BY <1>1, <2>2, <2>3, OneConnection
<1>4. AskProgress(k) \/ FetchResult(k) \/ AwaitAction(k)
        => \E status \in Nat \ {0} : Reply(k, status) /\ conn[k].at \in {"task", "action"}
  BY OutcomeFacts DEF AskProgress, FetchResult, AwaitAction
<1>. QED BY <1>2, <1>3, <1>4

LEMMA RoutesInvStep ==
  ASSUME RoutesInv, [RoutesNext]_routeVars
  PROVE  RoutesInv'
<1>1. ASSUME NEW t \in Tokens, Signup(t) \/ CloseSession(t)
      PROVE  RoutesInv'
  BY <1>1, RegistrationStep DEF RoutesInv, ConnInv
<1>2. ASSUME NEW k \in Conns, Connect(k) \/ Invoke(k) \/ Handle(k)
      PROVE  RoutesInv'
  BY <1>2, ArrivalSteps, RelayStep, OtherConnSteps DEF RoutesInv, Handle, ServerInv, serverVars
<1>3. CASE UNCHANGED routeVars
  BY <1>3 DEF routeVars, RoutesInv, ServerInv, ConnInv
<1>. QED BY <1>1, <1>2, <1>3 DEF RoutesNext

LEMMA RoutesInvariant == RoutesSpec => []RoutesInv
BY RoutesAtStart, RoutesInvStep, PTL DEF RoutesSpec

\* Registrations, sockets and connections keep to their types.
THEOREM RoutesTypeCorrect == RoutesSpec => []RoutesTypeOK
<1>1. RoutesInv => RoutesTypeOK
  BY DEF RoutesInv, ServerInv, ConnInv, ConnRec, RoutesTypeOK, MaxRetries
<1>. QED BY <1>1, RoutesInvariant, PTL

\* Any number of registrations that find no server and bind a socket leave one
\* server, and every plugin has the address of that one (ensure_server).
THEOREM OneServerOnly == RoutesSpec => []OneServer
<1>1. RoutesInv => OneServer
  <2>1. SUFFICES ASSUME RoutesInv PROVE OneServer
    OBVIOUS
  <2>2. CASE endpoint = Nothing
    <3>1. accepting = {}
      BY <2>1, <2>2 DEF RoutesInv, ServerInv
    <3>. QED BY <2>1, <2>2, <3>1, FS_EmptySet DEF RoutesInv, ServerInv, OneServer
  <2>3. CASE endpoint # Nothing
    <3>1. accepting = {endpoint}
      BY <2>1, <2>3 DEF RoutesInv, ServerInv
    <3>2. Cardinality(accepting) = 1
      BY <3>1, FS_Singleton
    <3>. QED BY <2>1, <3>1, <3>2 DEF RoutesInv, ServerInv, OneServer
  <2>. QED BY <2>2, <2>3
<1>. QED BY <1>1, RoutesInvariant, PTL

\* For any requests and sessions, what a plugin asks once is executed once,
\* repetition included, unless an answer was lost on its way; the edit of an
\* image is never executed twice (relay_with_retry, relay_post_raw).
THEOREM AskedOnceBilledOnce == RoutesSpec => []BilledOnce
<1>1. RoutesInv => BilledOnce
  BY DEF RoutesInv, ConnInv, ConnRec, BilledOnce
<1>. QED BY <1>1, RoutesInvariant, PTL

-----------------------------------------------------------------------------
(* The page of a client plugin: the proof                                  *)

LEMMA PageAtStart == PageInit => PageInv
<1>. SUFFICES ASSUME PageInit PROVE PageInv
  OBVIOUS
<1>1. DOMAIN pending = {} /\ DOMAIN calls = {} /\ queue = <<>> /\ DOMAIN queue = {} /\ Len(queue) = 0
  BY DEF PageInit
<1>2. PageTypeOK
  <2>1. /\ shown \in ClientPlugins \cup {NoPlugin} /\ opened \subseteq ClientPlugins
        /\ mount \in 0 .. MaxMounts /\ failed \in BOOLEAN
        /\ saves \in [ClientPlugins -> 0 .. MaxSaves]
        /\ store \in [ClientPlugins -> ClientPlugins \cup {NoPlugin}]
    <3>1. mount \in 0 .. MaxMounts
      BY PageAssumption DEF PageInit
    <3>2. failed \in BOOLEAN
      BY DEF PageInit
    <3>. QED BY <3>1, <3>2, PageAssumption DEF PageInit
  <2>2. doc.of = NoPlugin /\ doc.frame = 0 /\ doc = NoDoc /\ reads = {}
    BY DEF PageInit, NoDoc
  <2>. QED BY <1>1, <2>1, <2>2 DEF PageTypeOK
<1>3. PageShape
  BY <1>1, <1>2, PageAssumption DEF PageInit, PageShape, NoDoc
<1>4. QueueHolds
  <2>1. queue \in Seq(1 .. MaxPosts)
    BY <1>1
  <2>2. 1 .. Len(queue) = {}
    BY <1>1
  <2>. QED BY <1>1, <2>1, <2>2 DEF QueueHolds
<1>5. OnePluginShown /\ OneDocumentAFrame
  BY <1>1 DEF PageInit, OnePluginShown, OneDocumentAFrame
<1>. QED BY <1>3, <1>4, <1>5 DEF PageInv

\* Opening, switching, saving and leaving.
LEMMA ViewSteps ==
  ASSUME PageInv, NEW p \in ClientPlugins, Mount(p) \/ Switch(p) \/ SaveEntry(p) \/ Back
  PROVE  PageInv'
<1>. USE PageAssumption DEF PageInv, PageShape, PageTypeOK, NoDoc, ReadEntry, promiseVars, raceVars
<1>1. PageShape'
  <2>1. CASE Mount(p)
    <3>1. mount \in Nat /\ mount' = mount + 1 /\ mount' \in 0 .. MaxMounts /\ doc = NoDoc /\ UNCHANGED <<calls, doc>>
      BY <2>1 DEF Mount
    <3>2. \A n \in DOMAIN calls' : calls'[n] \in CallRec /\ calls'[n].frame \in 1 .. mount'
      BY <3>1 DEF CallRec
    <3>3. PageTypeOK'
      BY <2>1, <3>1 DEF Mount
    <3>. QED BY <2>1, <3>1, <3>2, <3>3 DEF Mount
  <2>2. CASE Switch(p)     BY <2>2 DEF Switch
  <2>3. CASE SaveEntry(p)  BY <2>3 DEF SaveEntry
  <2>4. CASE Back          BY <2>4 DEF Back
  <2>. QED BY <2>1, <2>2, <2>3, <2>4
<1>2. QueueHolds'
  BY DEF QueueHolds, Mount, Switch, SaveEntry, Back
<1>3. OnePluginShown'
  BY DEF OnePluginShown, Mount, Switch, SaveEntry, Back
<1>4. OneDocumentAFrame'
  BY DEF OneDocumentAFrame, Mount, Switch, SaveEntry, Back, CallRec
<1>. QED BY <1>1, <1>2, <1>3, <1>4

\* The entry of a plugin is read, or is not.
LEMMA EntryStep ==
  ASSUME PageInv, NEW p \in reads, EntryRead(p)
  PROVE  PageInv'
<1>. USE PageAssumption DEF PageInv, PageShape, PageTypeOK, NoDoc, EntryRead, ShowEntry
<1>1. PageShape'
  <2>1. /\ UNCHANGED <<shown, opened, mount, saves, calls, queue, store, posts>>
        /\ reads' \subseteq reads /\ p \in ClientPlugins /\ p \in opened /\ shown # NoPlugin
        /\ saves[p] \in Nat /\ posts \in Nat
    OBVIOUS
  <2>2. CASE UNCHANGED <<doc, pending>> /\ (failed' = failed)
    BY <2>1, <2>2
  <2>3. CASE /\ doc' = [of |-> p, save |-> saves[p], ids |-> 0, frame |-> mount]
             /\ pending' = <<>> /\ failed' = failed /\ ~ failed
    <3>1. DOMAIN pending' = {}
      BY <2>3
    <3>2. /\ doc' \in [of : ClientPlugins, save : Nat, ids : 0 .. posts, frame : {mount}]
          /\ doc'.of = p /\ doc'.frame = mount
      BY <2>1, <2>3
    <3>. QED BY <2>1, <2>3, <3>1, <3>2
  <2>4. CASE doc' = NoDoc /\ pending' = <<>> /\ failed' = TRUE
    <3>1. DOMAIN pending' = {}
      BY <2>4
    <3>. QED BY <2>1, <2>4, <3>1
  <2>. QED BY <2>2, <2>3, <2>4
<1>2. QueueHolds'
  BY DEF QueueHolds
<1>3. OnePluginShown'
  BY DEF OnePluginShown
<1>4. OneDocumentAFrame'
  BY DEF OneDocumentAFrame
<1>. QED BY <1>1, <1>2, <1>3, <1>4

\* A call gets the number of its post and the id of its document.
LEMMA PostStep ==
  ASSUME PageInv, NEW kind \in CallKinds, PostCall(kind)
  PROVE  PageInv'
<1>. DEFINE c == [id |-> doc.ids + 1, kind |-> kind, from |-> doc.of, as |-> shown,
                  frame |-> mount, at |-> "asked"]
<1>1. /\ shown # NoPlugin /\ doc # NoDoc /\ posts < MaxPosts /\ posts' = posts + 1
      /\ doc' = [doc EXCEPT !.ids = @ + 1]
      /\ pending' = With(pending, doc.ids + 1, [kind |-> kind, post |-> posts + 1])
      /\ calls' = With(calls, posts + 1, c)
      /\ UNCHANGED <<shown, opened, mount, failed, reads, saves, queue, store, mixed, raceVars>>
  BY DEF PostCall, PostAs
<1>2. /\ doc \in [of : ClientPlugins, save : Nat, ids : 0 .. posts, frame : {mount}]
      /\ posts \in 0 .. MaxPosts /\ MaxPosts \in Nat /\ DOMAIN calls \subseteq 1 .. posts
      /\ shown \in opened /\ doc.of \in opened /\ opened \subseteq ClientPlugins /\ mount \in Nat \ {0}
  BY <1>1, PageAssumption DEF PageInv, PageShape, PageTypeOK
<1>3. /\ doc'.of = doc.of /\ doc'.save = doc.save /\ doc'.frame = doc.frame /\ doc'.ids = doc.ids + 1
      /\ doc' \in [of : ClientPlugins, save : Nat, ids : 0 .. posts', frame : {mount'}]
      /\ doc' # NoDoc /\ doc.ids \in Nat
  BY <1>1, <1>2, PageAssumption DEF NoDoc
<1>4. /\ DOMAIN pending' = DOMAIN pending \cup {doc.ids + 1}
      /\ pending'[doc.ids + 1] = [kind |-> kind, post |-> posts + 1]
      /\ \A i \in DOMAIN pending : i # doc.ids + 1 => pending'[i] = pending[i]
  BY <1>1 DEF With
<1>5. /\ DOMAIN calls' = DOMAIN calls \cup {posts + 1} /\ calls'[posts + 1] = c
      /\ \A n \in DOMAIN calls : n # posts + 1 => calls'[n] = calls[n]
      /\ posts + 1 \notin DOMAIN calls
  BY <1>1, <1>2 DEF With
<1>6. c \in CallRec /\ c.at = "asked" /\ c.frame = mount /\ c.id = doc.ids + 1 /\ c.from = doc.of /\ c.as = shown
  BY <1>2, <1>3 DEF CallRec
<1>. HIDE DEF c
<1>7. \A i \in DOMAIN pending' : /\ i \in 1 .. MaxPosts /\ pending'[i].kind \in CallKinds /\ i \in 1 .. doc'.ids
  <2>1. doc.ids \in 0 .. posts /\ doc'.ids = doc.ids + 1 /\ doc.ids + 1 \in 1 .. MaxPosts
    BY <1>1, <1>2, <1>3
  <2>2. \A i \in DOMAIN pending : i \in 1 .. doc.ids /\ pending[i].kind \in CallKinds
    BY DEF PageInv, PageShape, PageTypeOK
  <2>3. ASSUME NEW i \in DOMAIN pending
        PROVE  i \in 1 .. MaxPosts /\ pending'[i].kind \in CallKinds /\ i \in 1 .. doc'.ids
    <3>1. i \in 1 .. doc.ids /\ i # doc.ids + 1
      BY <2>1, <2>2
    <3>. QED BY <1>2, <1>4, <2>1, <2>2, <3>1
  <2>4. pending'[doc.ids + 1].kind \in CallKinds
    BY <1>4
  <2>. QED BY <1>4, <2>1, <2>3, <2>4
<1>8. \A n \in DOMAIN calls' : /\ calls'[n].as \in opened' /\ calls'[n].from \in opened'
                               /\ calls'[n] \in CallRec /\ calls'[n].frame \in 1 .. mount'
  BY <1>1, <1>2, <1>5, <1>6 DEF PageInv, PageShape, PageTypeOK
<1>9. PageTypeOK'
  <2>1. DOMAIN calls' \subseteq 1 .. posts' /\ \A i \in DOMAIN queue' : queue'[i] \in DOMAIN calls'
    BY <1>1, <1>2, <1>5 DEF PageInv, PageShape, PageTypeOK
  <2>2. UNCHANGED <<shown, opened, mount, failed, reads, saves, store>> /\ doc' # NoDoc /\ ~ failed
    BY <1>1, <1>3 DEF PageInv, PageShape, PageTypeOK
  <2>3. doc'.of \in ClientPlugins \cup {NoPlugin} /\ doc'.frame \in {0, mount'}
    BY <1>2, <1>3, <2>2
  <2>4. PageTypeOK
    BY DEF PageInv, PageShape
  <2>. QED BY <1>1, <1>7, <1>8, <2>1, <2>2, <2>3, <2>4 DEF PageTypeOK
<1>10. PageShape'
  BY <1>1, <1>2, <1>3, <1>7, <1>8, <1>9 DEF PageInv, PageShape
<1>11. QueueHolds'
  <2>1. \A n \in DOMAIN calls : calls'[n] = calls[n]
    BY <1>5
  <2>2. ~ \E i \in 1 .. Len(queue) : queue[i] = posts + 1
    <3>1. \A i \in 1 .. Len(queue) : queue[i] \in DOMAIN calls
      BY DEF PageInv, PageShape, PageTypeOK, QueueHolds
    <3>. QED BY <3>1, <1>5
  <2>. QED BY <1>1, <1>5, <1>6, <2>1, <2>2 DEF PageInv, QueueHolds
<1>12. OnePluginShown'
  BY <1>1, <1>3, <1>5, <1>6 DEF PageInv, OnePluginShown, raceVars
<1>13. OneDocumentAFrame'
  <2>1. SUFFICES ASSUME ~ replaced
                 PROVE  /\ \A n \in DOMAIN calls' : calls'[n].frame = mount =>
                             /\ calls'[n].id <= doc.ids + 1
                             /\ calls'[n].id \in DOMAIN pending' => pending'[calls'[n].id].post = n
                        /\ ~ mixed
    BY <1>1, <1>3 DEF OneDocumentAFrame, raceVars
  <2>2. /\ \A n \in DOMAIN calls : calls[n].frame = mount =>
             /\ calls[n].id <= doc.ids
             /\ calls[n].id \in DOMAIN pending => pending[calls[n].id].post = n
        /\ ~ mixed
    BY <1>1, <2>1 DEF PageInv, OneDocumentAFrame
  <2>3. SUFFICES ASSUME NEW n \in DOMAIN calls', calls'[n].frame = mount
                 PROVE  /\ calls'[n].id <= doc.ids + 1
                        /\ calls'[n].id \in DOMAIN pending' => pending'[calls'[n].id].post = n
    BY <2>2
  <2>4. CASE n = posts + 1
    BY <1>3, <1>4, <1>5, <1>6, <2>4
  <2>5. CASE n # posts + 1
    <3>1. n \in DOMAIN calls /\ calls'[n] = calls[n] /\ calls[n].id \in Nat
      BY <1>5, <2>5 DEF PageInv, PageShape, CallRec
    <3>2. calls[n].id <= doc.ids
      BY <2>2, <2>3, <3>1
    <3>. QED BY <1>3, <1>4, <2>2, <2>3, <3>1, <3>2
  <2>. QED BY <2>4, <2>5
<1>. QED BY <1>10, <1>11, <1>12, <1>13 DEF PageInv

\* What the host has done of a call is all that changes: the document and its
\* promises do not notice.
LEMMA CallMoves ==
  ASSUME PageInv, NEW n \in DOMAIN calls, NEW place \in {"waiting", "done", "refused"},
         calls' = [calls EXCEPT ![n].at = place],
         UNCHANGED <<viewVars, pending, posts, mixed, raceVars>>,
         store' \in [ClientPlugins -> ClientPlugins \cup {NoPlugin}],
         \A i \in DOMAIN queue' : queue'[i] \in DOMAIN calls
  PROVE  /\ PageShape' /\ OneDocumentAFrame'
         /\ DOMAIN calls' = DOMAIN calls /\ calls'[n].at = place
         /\ \A m \in DOMAIN calls : calls'[m].from = calls[m].from /\ calls'[m].as = calls[m].as
         /\ \A m \in DOMAIN calls : m # n => calls'[m] = calls[m]
<1>1. /\ DOMAIN calls' = DOMAIN calls
      /\ \A m \in DOMAIN calls : m # n => calls'[m] = calls[m]
      /\ calls'[n] = [calls[n] EXCEPT !.at = place]
  OBVIOUS
<1>2. \A m \in DOMAIN calls : calls[m] \in CallRec
  BY DEF PageInv, PageShape
<1>3. \A m \in DOMAIN calls :
        /\ calls'[m] \in CallRec /\ calls'[m].id = calls[m].id /\ calls'[m].frame = calls[m].frame
        /\ calls'[m].from = calls[m].from /\ calls'[m].as = calls[m].as
  BY <1>1, <1>2 DEF CallRec
<1>4. calls'[n].at = place
  BY <1>1, <1>2 DEF CallRec
<1>5. UNCHANGED <<shown, opened, mount, failed, doc, reads, saves, pending, posts, mixed, replaced>>
  BY DEF viewVars, raceVars
<1>6. PageTypeOK'
  BY <1>1, <1>3, <1>5 DEF PageInv, PageShape, PageTypeOK
<1>7. PageShape'
  BY <1>1, <1>3, <1>5, <1>6 DEF PageInv, PageShape
<1>8. OneDocumentAFrame'
  BY <1>1, <1>3, <1>5 DEF PageInv, OneDocumentAFrame
<1>. QED BY <1>1, <1>3, <1>4, <1>7, <1>8

\* The host makes a call, or leaves it to the user.
LEMMA ExecuteStep ==
  ASSUME PageInv, NEW n \in DOMAIN calls, Execute(n)
  PROVE  PageInv'
<1>1. /\ calls[n].at = "asked" /\ UNCHANGED <<viewVars, pending, posts, mixed, raceVars>>
      /\ calls[n] \in CallRec /\ n \in 1 .. MaxPosts /\ queue \in Seq(1 .. MaxPosts)
      /\ \A i \in DOMAIN queue : queue[i] \in DOMAIN calls
      /\ store \in [ClientPlugins -> ClientPlugins \cup {NoPlugin}]
  BY PageAssumption DEF Execute, PageInv, PageShape, PageTypeOK, QueueHolds
<1>2. CASE queue' = Append(queue, n) /\ calls' = [calls EXCEPT ![n].at = "waiting"] /\ store' = store
  <2>1. /\ Len(queue') = Len(queue) + 1 /\ queue' \in Seq(1 .. MaxPosts)
        /\ queue'[Len(queue) + 1] = n /\ \A i \in 1 .. Len(queue) : queue'[i] = queue[i]
        /\ Len(queue) \in Nat /\ DOMAIN queue = 1 .. Len(queue) /\ DOMAIN queue' = 1 .. Len(queue) + 1
    BY <1>1, <1>2
  <2>2. \A i \in DOMAIN queue' : queue'[i] \in DOMAIN calls
    BY <1>1, <2>1
  <2>3. /\ PageShape' /\ OneDocumentAFrame'
        /\ DOMAIN calls' = DOMAIN calls /\ calls'[n].at = "waiting"
        /\ \A m \in DOMAIN calls : calls'[m].from = calls[m].from /\ calls'[m].as = calls[m].as
        /\ \A m \in DOMAIN calls : m # n => calls'[m] = calls[m]
    BY <1>1, <1>2, <2>2, CallMoves
  <2>4. \A i \in 1 .. Len(queue) : queue[i] # n
    BY <1>1 DEF PageInv, QueueHolds
  <2>5. QueueHolds'
    <3>1. \A i, j \in 1 .. Len(queue') : queue'[i] = queue'[j] => i = j
      BY <2>1, <2>4 DEF PageInv, QueueHolds
    <3>2. ASSUME NEW m \in DOMAIN calls
          PROVE  calls'[m].at = "waiting" <=> \E i \in 1 .. Len(queue') : queue'[i] = m
      <4>1. CASE m = n
        BY <2>1, <2>3, <4>1
      <4>2. CASE m # n
        <5>1. calls[m].at = "waiting" <=> \E i \in 1 .. Len(queue) : queue[i] = m
          BY DEF PageInv, QueueHolds
        <5>2. (\E i \in 1 .. Len(queue) : queue[i] = m) <=> (\E i \in 1 .. Len(queue') : queue'[i] = m)
          BY <2>1, <4>2
        <5>. QED BY <2>3, <4>2, <5>1, <5>2
      <4>. QED BY <4>1, <4>2
    <3>. QED BY <2>1, <2>3, <3>1, <3>2 DEF QueueHolds
  <2>6. OnePluginShown'
    BY <1>1, <1>2, <2>3 DEF PageInv, OnePluginShown, viewVars, raceVars
  <2>. QED BY <2>3, <2>5, <2>6 DEF PageInv
<1>3. ASSUME NEW place \in {"done", "refused"}, calls' = [calls EXCEPT ![n].at = place], queue' = queue,
             store' = [store EXCEPT ![calls[n].as] = calls[n].from] \/ store' = store
      PROVE  PageInv'
  <2>1. store' \in [ClientPlugins -> ClientPlugins \cup {NoPlugin}]
    BY <1>1, <1>3 DEF CallRec
  <2>2. \A i \in DOMAIN queue' : queue'[i] \in DOMAIN calls
    BY <1>1, <1>3
  <2>3. /\ PageShape' /\ OneDocumentAFrame'
        /\ DOMAIN calls' = DOMAIN calls /\ calls'[n].at = place
        /\ \A m \in DOMAIN calls : calls'[m].from = calls[m].from /\ calls'[m].as = calls[m].as
        /\ \A m \in DOMAIN calls : m # n => calls'[m] = calls[m]
    BY <1>1, <1>3, <2>1, <2>2, CallMoves
  <2>4. QueueHolds'
    BY <1>1, <1>3, <2>3 DEF PageInv, QueueHolds
  <2>5. OnePluginShown'
    <3>1. ASSUME ~ switched, NEW p \in ClientPlugins
          PROVE  store'[p] \in {NoPlugin, p}
      BY <1>1, <1>3, <3>1 DEF PageInv, OnePluginShown, CallRec
    <3>. QED BY <1>1, <2>3, <3>1 DEF PageInv, OnePluginShown, viewVars, raceVars
  <2>. QED BY <2>3, <2>4, <2>5 DEF PageInv
<1>. QED BY <1>2, <1>3 DEF Execute

\* The user closes the view on screen.
LEMMA CloseStep ==
  ASSUME PageInv, CloseView
  PROVE  PageInv'
<1>1. /\ queue # <<>> /\ queue' = Tail(queue) /\ calls' = [calls EXCEPT ![Head(queue)].at = "done"]
      /\ UNCHANGED <<viewVars, pending, store, posts, mixed, raceVars>>
      /\ queue \in Seq(1 .. MaxPosts)
      /\ \A i \in DOMAIN queue : queue[i] \in DOMAIN calls
      /\ store \in [ClientPlugins -> ClientPlugins \cup {NoPlugin}]
  BY DEF CloseView, PageInv, PageShape, PageTypeOK, QueueHolds
<1>2. /\ Len(queue) \in Nat \ {0} /\ Len(queue') = Len(queue) - 1 /\ queue' \in Seq(1 .. MaxPosts)
      /\ Head(queue) = queue[1] /\ \A i \in 1 .. Len(queue') : queue'[i] = queue[i + 1]
      /\ DOMAIN queue = 1 .. Len(queue) /\ DOMAIN queue' = 1 .. Len(queue')
  BY <1>1
<1>3. PICK n : n = Head(queue)
  OBVIOUS
<1>4. n \in DOMAIN calls /\ n = queue[1]
  BY <1>1, <1>2, <1>3
<1>5. \A i \in DOMAIN queue' : queue'[i] \in DOMAIN calls
  BY <1>1, <1>2
<1>6. /\ PageShape' /\ OneDocumentAFrame'
      /\ DOMAIN calls' = DOMAIN calls /\ calls'[n].at = "done"
      /\ \A m \in DOMAIN calls : calls'[m].from = calls[m].from /\ calls'[m].as = calls[m].as
      /\ \A m \in DOMAIN calls : m # n => calls'[m] = calls[m]
  BY <1>1, <1>3, <1>4, <1>5, CallMoves
<1>7. QueueHolds'
  <2>1. \A i, j \in 1 .. Len(queue') : queue'[i] = queue'[j] => i = j
    BY <1>2 DEF PageInv, QueueHolds
  <2>2. \A i \in 1 .. Len(queue') : queue'[i] # n
    BY <1>2, <1>4 DEF PageInv, QueueHolds
  <2>3. ASSUME NEW m \in DOMAIN calls, m # n
        PROVE  (\E i \in 1 .. Len(queue) : queue[i] = m) <=> (\E i \in 1 .. Len(queue') : queue'[i] = m)
    <3>1. ASSUME NEW i \in 1 .. Len(queue), queue[i] = m
          PROVE  \E j \in 1 .. Len(queue') : queue'[j] = m
      <4>1. i - 1 \in 1 .. Len(queue') /\ queue'[i - 1] = queue[i - 1 + 1]
        BY <1>2, <1>4, <2>3, <3>1
      <4>. QED BY <3>1, <4>1
    <3>2. ASSUME NEW i \in 1 .. Len(queue'), queue'[i] = m
          PROVE  \E j \in 1 .. Len(queue) : queue[j] = m
      BY <1>2, <3>2
    <3>. QED BY <3>1, <3>2
  <2>4. ASSUME NEW m \in DOMAIN calls
        PROVE  calls'[m].at = "waiting" <=> \E i \in 1 .. Len(queue') : queue'[i] = m
    BY <1>6, <2>2, <2>3 DEF PageInv, QueueHolds
  <2>. QED BY <1>2, <1>6, <2>1, <2>4 DEF QueueHolds
<1>8. OnePluginShown'
  BY <1>1, <1>6 DEF PageInv, OnePluginShown, viewVars, raceVars
<1>. QED BY <1>6, <1>7, <1>8 DEF PageInv

\* The answer goes to the window of the frame: to the promise with its id.
LEMMA ReplyStep ==
  ASSUME PageInv, NEW n \in DOMAIN calls, PostReply(n)
  PROVE  PageInv'
<1>1. /\ calls[n].at \in {"done", "refused"} /\ calls' = Without(calls, n)
      /\ UNCHANGED <<viewVars, queue, store, posts, raceVars>>
  BY DEF PostReply
<1>2. /\ DOMAIN calls' = DOMAIN calls \ {n}
      /\ \A m \in DOMAIN calls' : calls'[m] = calls[m]
  BY <1>1 DEF Without
<1>3. /\ DOMAIN pending' \subseteq DOMAIN pending
      /\ \A i \in DOMAIN pending' : pending'[i] = pending[i]
  BY DEF PostReply, Without
<1>4. UNCHANGED <<shown, opened, mount, failed, doc, reads, saves, switched, replaced, queue, store, posts>>
  BY <1>1 DEF viewVars, raceVars
<1>5. \A i \in 1 .. Len(queue) : queue[i] # n /\ queue[i] \in DOMAIN calls
  BY <1>1 DEF PageInv, PageShape, PageTypeOK, QueueHolds
<1>6. PageTypeOK'
  <2>1. \A i \in DOMAIN queue : queue[i] \in DOMAIN calls'
    BY <1>2, <1>5 DEF PageInv, QueueHolds
  <2>. QED BY <1>2, <1>3, <1>4, <2>1 DEF PageInv, PageShape, PageTypeOK
<1>7. PageShape'
  BY <1>2, <1>3, <1>4, <1>6 DEF PageInv, PageShape
<1>8. QueueHolds'
  BY <1>1, <1>2, <1>4, <1>5 DEF PageInv, QueueHolds
<1>9. OnePluginShown'
  BY <1>2, <1>4 DEF PageInv, OnePluginShown
<1>10. OneDocumentAFrame'
  <2>1. ASSUME ~ replaced
        PROVE  ~ mixed'
    <3>1. CASE calls[n].frame = doc.frame /\ calls[n].id \in DOMAIN pending
      <4>1. doc # NoDoc
        BY <3>1 DEF PageInv, PageShape
      <4>2. doc.frame = mount
        BY <4>1 DEF PageInv, PageShape
      <4>3. pending[calls[n].id].post = n /\ ~ mixed
        BY <2>1, <3>1, <4>1, <4>2 DEF PageInv, OneDocumentAFrame
      <4>. QED BY <3>1, <4>3 DEF PostReply
    <3>2. CASE ~ (calls[n].frame = doc.frame /\ calls[n].id \in DOMAIN pending)
      BY <2>1, <3>2 DEF PostReply, PageInv, OneDocumentAFrame
    <3>. QED BY <3>1, <3>2
  <2>. QED BY <1>2, <1>3, <1>4, <2>1 DEF PageInv, OneDocumentAFrame
<1>. QED BY <1>7, <1>8, <1>9, <1>10 DEF PageInv

LEMMA PageInvStep ==
  ASSUME PageInv, [PageNext]_pluginPageVars
  PROVE  PageInv'
<1>1. CASE UNCHANGED pluginPageVars
  <2>1. UNCHANGED <<shown, opened, mount, failed, doc, reads, saves, pending, calls, queue, store, posts,
                    mixed, switched, replaced, overtaken>>
    BY <1>1 DEF pluginPageVars, viewVars, promiseVars, raceVars
  <2>. QED BY <2>1 DEF PageInv, PageShape, PageTypeOK, QueueHolds, OnePluginShown, OneDocumentAFrame
<1>2. CASE Back
  <2>1. \E p \in ClientPlugins : TRUE
    BY <1>2 DEF Back, PageInv, PageShape, PageTypeOK
  <2>. QED BY <1>2, <2>1, ViewSteps
<1>. QED BY <1>1, <1>2, ViewSteps, EntryStep, PostStep, ExecuteStep, CloseStep, ReplyStep
     DEF PageNext, HostAnswers

LEMMA PageInvariant == PageInit /\ [][PageNext]_pluginPageVars => []PageInv
BY PageAtStart, PageInvStep, PTL

\* The page, its promises and the calls at the host keep to their types.
THEOREM PageTypeCorrect == PageSpec => []PageTypeOK
<1>1. PageInv => PageTypeOK
  BY DEF PageInv, PageShape
<1>. QED BY <1>1, PageInvariant, PTL DEF PageSpec

\* Until the user goes from one plugin to another without going back, the
\* storage of a plugin is written by its own page only, whatever is under way
\* when pages are opened and left (invokeRuntime, client_kv_set).
THEOREM StoresKeptApart == PageSpec => []StoresAreApart
<1>1. PageInv => StoresAreApart
  BY DEF PageInv, OnePluginShown, StoresAreApart
<1>. QED BY <1>1, PageInvariant, PTL DEF PageSpec

\* Until a document takes another one's place, each promise is resolved with
\* the answer to its own call, in whatever order the answers come.
THEOREM PromisesGetTheirOwn == PageSpec => []AnswersAreOwn
<1>1. PageInv => AnswersAreOwn
  BY DEF PageInv, OneDocumentAFrame, AnswersAreOwn
<1>. QED BY <1>1, PageInvariant, PTL DEF PageSpec

-----------------------------------------------------------------------------
(* All three together                                                      *)

\* Calls, server and page keep to their types also side by side.
THEOREM AllBridgeTypeCorrect == AllBridgeSpec => []AllBridgeTypeOK
<1>1. AllBridgeInit => BridgeInv /\ RoutesInv /\ PageInv
  BY InitBridge, RoutesAtStart, PageAtStart DEF AllBridgeInit
<1>2. ASSUME BridgeInv, RoutesInv, PageInv, [AllBridgeNext]_AllBridgeVars
      PROVE  BridgeInv' /\ RoutesInv' /\ PageInv'
  <2>1. [BridgeNext]_bridgeVars /\ [RoutesNext]_routeVars /\ [PageNext]_pluginPageVars
    BY <1>2 DEF AllBridgeNext, AllBridgeVars
  <2>2. BridgeInv'
    <3>1. CASE BridgeNext
      BY <1>2, <3>1, AskStep, ThreadSteps, AnswerSteps, PageSteps DEF BridgeNext
    <3>2. CASE UNCHANGED bridgeVars
      BY <1>2, <3>2 DEF bridgeVars, BridgeInv, BridgeTypeOK, NoOrphanRequest, NoSilentHang,
                        PageUnaware, AnswerTaken, EventAccounted
    <3>. QED BY <2>1, <3>1, <3>2
  <2>. QED BY <1>2, <2>1, <2>2, RoutesInvStep, PageInvStep
<1>3. BridgeInv /\ RoutesInv /\ PageInv => AllBridgeTypeOK
  BY DEF BridgeInv, RoutesInv, ServerInv, ConnInv, ConnRec, RoutesTypeOK, MaxRetries, PageInv, PageShape,
         AllBridgeTypeOK
<1>. QED BY <1>1, <1>2, <1>3, PTL DEF AllBridgeSpec
=============================================================================
