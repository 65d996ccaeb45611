-------------------------- MODULE ActionBridge_proofs --------------------------
(***************************************************************************)
(* ActionBridge for any number of calls, plugins and reloads: no sender    *)
(* stays in the map without a thread, and a call whose event reached the   *)
(* page is not left to its time limit.                                     *)
(***************************************************************************)
EXTENDS ActionBridge, TLAPS

\* Before its event is emitted the page knows nothing of a call.
PageUnaware ==
  \A c \in Calls : call[c] \in {"unused", "stored"} =>
    /\ c \notin mail /\ exec[c] = "none" /\ channel[c] = "empty"
    /\ call[c] = "unused" => c \notin requests

\* The command has the sender, or has sent: it is no longer in the map.
AnswerTaken ==
  \A c \in Calls :
    exec[c] \in {"taken-result", "taken-error"} \/ channel[c] # "empty" => c \notin requests

\* An event is with the page, lost, or was processed; before a thread gives up,
\* it is no longer with the page.
EventAccounted ==
  \A c \in Calls :
    /\ call[c] = "waiting" => c \in mail \/ c \in lost \/ exec[c] # "none"
    /\ call[c] = "expired" => c \in lost \/ exec[c] # "none"

BridgeInv ==
  /\ BridgeTypeOK /\ NoOrphanRequest /\ NoSilentHang
  /\ PageUnaware /\ AnswerTaken /\ EventAccounted

LEMMA InitBridge == BridgeInit => BridgeInv
BY BridgeAssumption
   DEF BridgeInit, BridgeInv, BridgeTypeOK, NoOrphanRequest, NoSilentHang, PageUnaware,
       AnswerTaken, EventAccounted, Threads, Answers, Doings, Declared, ReadAtStart

LEMMA AskStep ==
  ASSUME BridgeInv, NEW c \in Calls, NEW a \in Actions, Ask(c, a)
  PROVE  BridgeInv'
BY DEF Ask, BridgeInv, BridgeTypeOK, NoOrphanRequest, NoSilentHang, PageUnaware,
       AnswerTaken, EventAccounted, Threads, Answers, Doings, Stands, pageVars

LEMMA ThreadSteps ==
  ASSUME BridgeInv, NEW c \in Calls, Thread(c)
  PROVE  BridgeInv'
<1> USE DEF BridgeInv, BridgeTypeOK, NoOrphanRequest, NoSilentHang, PageUnaware,
            AnswerTaken, EventAccounted, Threads, Answers, Doings, Stands, pageVars
<1>1. CASE Emit(c)
  BY <1>1 DEF Emit
<1>2. CASE EmitFails(c)
  BY <1>2 DEF EmitFails, Returns
<1>3. CASE Receive(c)
  BY <1>3 DEF Receive, Returns
<1>4. CASE Expire(c)
  BY <1>4 DEF Expire
<1>5. CASE GiveUp(c)
  BY <1>5 DEF GiveUp, Returns
<1> QED BY <1>1, <1>2, <1>3, <1>4, <1>5 DEF Thread

LEMMA AnswerSteps ==
  ASSUME BridgeInv, NEW c \in Calls, PageOn(c)
  PROVE  BridgeInv'
<1> USE DEF BridgeInv, BridgeTypeOK, NoOrphanRequest, NoSilentHang, PageUnaware,
            AnswerTaken, EventAccounted, Threads, Answers, Doings, Does, threadVars, pageVars
<1>1. CASE Deliver(c)
  BY <1>1 DEF Deliver
<1>2. CASE Finish(c)
  BY <1>2 DEF Finish
<1>3. CASE Respond(c)
  BY <1>3 DEF Respond, Fails
<1>4. CASE Send(c)
  BY <1>4 DEF Send, Fails
<1> QED BY <1>1, <1>2, <1>3, <1>4 DEF PageOn

LEMMA PageSteps ==
  ASSUME BridgeInv,
         \/ \E p \in Plugins : OpenPlugin(p) \/ \E a \in Actions : ReadEnds(p, a)
         \/ Listens \/ Reload
  PROVE  BridgeInv'
<1> USE DEF BridgeInv, BridgeTypeOK, NoOrphanRequest, NoSilentHang, PageUnaware,
            AnswerTaken, EventAccounted, Threads, Answers, Doings, Declared, threadVars
<1>1. ASSUME NEW p \in Plugins, OpenPlugin(p) PROVE BridgeInv'
  BY <1>1 DEF OpenPlugin
<1>2. ASSUME NEW p \in Plugins, NEW a \in Actions, ReadEnds(p, a) PROVE BridgeInv'
  BY <1>2 DEF ReadEnds
<1>3. CASE Listens
  BY <1>3 DEF Listens
<1>4. CASE Reload
  BY <1>4, BridgeAssumption DEF Reload, ReadAtStart
<1> QED BY <1>1, <1>2, <1>3, <1>4

\* The invariant holds in every reachable state.
THEOREM BridgeInvCorrect == BridgeSpec => []BridgeInv
<1>1. BridgeInit => BridgeInv
  BY InitBridge
<1>2. BridgeInv /\ [BridgeNext]_bridgeVars => BridgeInv'
  <2> SUFFICES ASSUME BridgeInv, [BridgeNext]_bridgeVars PROVE BridgeInv'
    OBVIOUS
  <2>1. CASE BridgeNext
    BY <2>1, AskStep, ThreadSteps, AnswerSteps, PageSteps DEF BridgeNext
  <2>2. CASE UNCHANGED bridgeVars
    BY <2>2 DEF bridgeVars, BridgeInv, BridgeTypeOK, NoOrphanRequest, NoSilentHang,
                PageUnaware, AnswerTaken, EventAccounted
  <2> QED BY <2>1, <2>2
<1> QED BY <1>1, <1>2, PTL DEF BridgeSpec

\* Threads, channels and the page stay well-typed, and a thread is done exactly
\* when the plugin has its outcome.
THEOREM BridgeTypeCorrect == BridgeSpec => []BridgeTypeOK
<1>1. BridgeInv => BridgeTypeOK
  BY DEF BridgeInv
<1> QED BY <1>1, BridgeInvCorrect, PTL

\* For any number of calls and reloads, a sender in the map has a thread that
\* waits for it.
THEOREM RequestsHaveThreads == BridgeSpec => []NoOrphanRequest
<1>1. BridgeInv => NoOrphanRequest
  BY DEF BridgeInv
<1> QED BY <1>1, BridgeInvCorrect, PTL

\* For any number of calls and reloads, a time-out means that the page lost the
\* call or its answer was under way.
THEOREM HangsExplained == BridgeSpec => []NoSilentHang
<1>1. BridgeInv => NoSilentHang
  BY DEF BridgeInv
<1> QED BY <1>1, BridgeInvCorrect, PTL
=============================================================================
