----------------------------- MODULE Runner_proofs -----------------------------
(***************************************************************************)
(* Proofs about plugin_runner, for any number of starts, stops, deletions, *)
(* queries and launches, overlapping in any way: no process escapes the    *)
(* process table and none in it loses its session; the marker of a venv or *)
(* of node_modules is never a lie.                                         *)
(***************************************************************************)
EXTENDS MCRunner, TLAPS

-----------------------------------------------------------------------------
(* The process table                                                       *)

\* The Child of a completed start is in its handle or was taken out.
ChildOfRegistered == \A a \in Starts : child[a] # "none" <=> start[a] = "registered"

\* Entries and cloned handles are those of completed starts.
HandlesRegistered ==
  /\ table # None => child[table] # "none"
  /\ \A l \in Lookers : looker[l].at # "idle" =>
       looker[l].of \in Starts /\ child[looker[l].of] # "none"

\* A running process whose Child is in its handle is the one in the table.
LiveInTable == \A a \in Starts : child[a] = "in" /\ proc[a] = "up" => table = a

\* One whose Child was taken is about to be killed.
TakenDies ==
  \A a \in Starts : child[a] = "taken" /\ proc[a] = "up" =>
    \E k \in Killers : killer[k] = [at |-> "kill", of |-> a]

\* What a query is about to remove is over for good.
GoneIsGone ==
  \A l \in Lookers : looker[l].at = "gone" =>
    child[looker[l].of] = "taken" \/ proc[looker[l].of] # "up"

EscapeInv ==
  /\ ProcessTypeOK /\ ChildOfRegistered /\ HandlesRegistered
  /\ LiveInTable /\ TakenDies /\ GoneIsGone

-----------------------------------------------------------------------------
\* Every variable keeps its type.
LEMMA ProcessTypeInductive ==
  ProcessTypeOK /\ [ProcessNext]_processVars => ProcessTypeOK'
<1> SUFFICES ASSUME ProcessTypeOK, [ProcessNext]_processVars PROVE ProcessTypeOK'
  OBVIOUS
<1> USE ProcessAssumption DEF ProcessTypeOK, Steps, Someone
<1>1. ASSUME NEW a \in Starts, StartStep(a) PROVE ProcessTypeOK'
  <2>1. CASE RegisterSession(a) BY <2>1 DEF RegisterSession, NoteOverlap
  <2>2. CASE Spawn(a) BY <2>2 DEF Spawn
  <2>3. CASE StartFails(a) BY <2>3 DEF StartFails
  <2>4. CASE Survives(a) BY <2>4 DEF Survives
  <2>5. CASE KeepOwnSession(a) BY <2>5 DEF KeepOwnSession
  <2>6. CASE Register(a) BY <2>6 DEF Register
  <2>7. CASE RegisterActionSession(a)
    <3>1. mixed' \subseteq {"overlap", "deletion"} BY <2>7, ZenonT(60) DEF RegisterActionSession, NoteOverlap
    <3>2. tokens' \subseteq Starts /\ start' \in [Starts -> Steps] BY <2>7 DEF RegisterActionSession
    <3>3. \A b \in Starts : start'[b] = "registered" <=> start[b] = "registered"
      BY <2>7 DEF RegisterActionSession
    <3> QED BY <2>7, <3>1, <3>2, <3>3 DEF RegisterActionSession
  <2> QED BY <1>1, <2>1, <2>2, <2>3, <2>4, <2>5, <2>6, <2>7 DEF StartStep
<1>2. ASSUME NEW a \in Starts, Exits(a) \/ Watcher(a) \/ Expire(a) PROVE ProcessTypeOK'
  <2>1. CASE Exits(a) BY <2>1 DEF Exits
  <2>2. CASE WatcherLooks(a) BY <2>2 DEF WatcherLooks
  <2>3. CASE WatcherRevokes(a) BY <2>3 DEF WatcherRevokes
  <2>4. CASE Expire(a) BY <2>4 DEF Expire
  <2> QED BY <1>2, <2>1, <2>2, <2>3, <2>4 DEF Watcher
<1>3. ASSUME NEW k \in Killers, KillerGoesOn(k) \/ DeleteBegins(k) \/ TakeChild(k)
      PROVE  ProcessTypeOK'
  <2>1. CASE TakeChild(k) BY <2>1 DEF TakeChild, KillerAt
  <2>2. CASE KillChild(k) BY <2>2 DEF KillChild, KillerAt
  <2>3. CASE StopRevokes(k) BY <2>3 DEF StopRevokes, KillerAt, RevokePlugin
  <2>4. CASE DeleteBegins(k) BY <2>4 DEF DeleteBegins, KillerAt, RevokePlugin
  <2> QED BY <1>3, <2>1, <2>2, <2>3, <2>4 DEF KillerGoesOn
<1>4. ASSUME NEW l \in Lookers, Look(l) PROVE ProcessTypeOK'
  <2>1. CASE CloneHandle(l) BY <2>1 DEF CloneHandle, LookerAt
  <2>2. CASE TryWait(l) BY <2>2 DEF TryWait, LookerAt
  <2>3. CASE RemoveIfSame(l) BY <2>3 DEF RemoveIfSame, LookerAt
  <2> QED BY <1>4, <2>1, <2>2, <2>3 DEF Look
<1>5. CASE UNCHANGED processVars BY <1>5 DEF processVars
<1>6. CASE RevokeAll BY <1>6 DEF RevokeAll, RevokePlugin
<1> QED BY <1>1, <1>2, <1>3, <1>4, <1>5, <1>6 DEF ProcessNext, Killers

\* A start touches the table only when it registers, and then takes the Child
\* of the process it replaces with it.
LEMMA StartKeepsInv ==
  ASSUME EscapeInv, ProcessTypeOK', NEW a \in Starts, StartStep(a)
  PROVE  EscapeInv'
<1> USE ProcessAssumption DEF EscapeInv, ProcessTypeOK, ChildOfRegistered, HandlesRegistered,
                              LiveInTable, TakenDies, GoneIsGone
<1>1. CASE RegisterSession(a) BY <1>1 DEF RegisterSession
<1>7. CASE RegisterActionSession(a) BY <1>7 DEF RegisterActionSession
<1>2. CASE Spawn(a) BY <1>2 DEF Spawn
<1>3. CASE StartFails(a) BY <1>3 DEF StartFails
<1>4. CASE Survives(a) BY <1>4 DEF Survives
<1>5. CASE KeepOwnSession(a) BY <1>5 DEF KeepOwnSession
<1>6. CASE Register(a)
  <2>1. child[a] = "none" BY <1>6 DEF Register
  <2>2. \A b \in Starts : child'[b] = "in" => b = a \/ (child[b] = "in" /\ b # table)
    BY <1>6 DEF Register
  <2>3. \A b \in Starts : child'[b] = "taken" =>
          (child[b] = "taken" /\ proc'[b] = proc[b]) \/ proc'[b] = "down"
    BY <1>6, <2>1 DEF Register
  <2>4. ChildOfRegistered' BY <1>6, <2>1 DEF Register
  <2>5. HandlesRegistered' BY <1>6 DEF Register
  <2>6. LiveInTable' BY <1>6, <2>2 DEF Register
  <2>7. TakenDies' BY <1>6, <2>3 DEF Register
  <2>8. GoneIsGone' BY <1>6, <2>1 DEF Register
  <2> QED BY <2>4, <2>5, <2>6, <2>7, <2>8
<1> QED BY <1>1, <1>2, <1>3, <1>4, <1>5, <1>6, <1>7 DEF StartStep

\* An exit, and a watcher, only bring processes to their end; sessions that
\* end have nothing to do with them.
LEMMA WatchKeepsInv ==
  ASSUME EscapeInv, ProcessTypeOK',
         RevokeAll \/ \E a \in Starts : Exits(a) \/ Watcher(a) \/ Expire(a)
  PROVE  EscapeInv'
<1> USE DEF EscapeInv, ProcessTypeOK, ChildOfRegistered, HandlesRegistered,
            LiveInTable, TakenDies, GoneIsGone
<1>1. ASSUME NEW a \in Starts, Exits(a) PROVE EscapeInv' BY <1>1 DEF Exits
<1>2. ASSUME NEW a \in Starts, WatcherLooks(a) PROVE EscapeInv' BY <1>2 DEF WatcherLooks
<1>3. ASSUME NEW a \in Starts, WatcherRevokes(a) PROVE EscapeInv' BY <1>3 DEF WatcherRevokes
<1>4. ASSUME NEW a \in Starts, Expire(a) PROVE EscapeInv' BY <1>4 DEF Expire
<1>5. CASE RevokeAll BY <1>5 DEF RevokeAll, RevokePlugin
<1> QED BY <1>1, <1>2, <1>3, <1>4, <1>5 DEF Watcher

\* A stop empties the table, but holds what it took until it is dead.
LEMMA KillKeepsInv ==
  ASSUME EscapeInv, ProcessTypeOK', NEW k \in Killers,
         KillerGoesOn(k) \/ DeleteBegins(k) \/ TakeChild(k)
  PROVE  EscapeInv'
<1> USE ProcessAssumption DEF EscapeInv, ProcessTypeOK, ChildOfRegistered, HandlesRegistered,
                              LiveInTable, TakenDies, GoneIsGone
<1>1. CASE TakeChild(k)
  <2>1. killer[k].at # "kill" BY <1>1 DEF TakeChild
  <2>2. \A j \in Killers \ {k} : killer'[j] = killer[j] BY <1>1 DEF TakeChild, KillerAt
  <2>3. \A b \in Starts : child'[b] = "in" => child[b] = "in" /\ b # table
    BY <1>1 DEF TakeChild
  <2>4. \A b \in Starts : child'[b] = "taken" /\ child[b] # "taken" =>
          killer'[k] = [at |-> "kill", of |-> b]
    BY <1>1 DEF TakeChild, KillerAt, Killers
  <2>5. TakenDies'
    <3> SUFFICES ASSUME NEW b \in Starts, child'[b] = "taken", proc'[b] = "up"
                 PROVE  \E j \in Killers : killer'[j] = [at |-> "kill", of |-> b]
      OBVIOUS
    <3>1. CASE child[b] = "taken"
      <4>1. proc[b] = "up" BY <1>1 DEF TakeChild
      <4>2. PICK j \in Killers : killer[j] = [at |-> "kill", of |-> b] BY <3>1, <4>1
      <4>3. j # k BY <2>1, <4>2
      <4> QED BY <2>2, <4>2, <4>3
    <3>2. CASE child[b] # "taken" BY <2>4, <3>2
    <3> QED BY <3>1, <3>2
  <2>6. LiveInTable' BY <1>1, <2>3 DEF TakeChild
  <2>7. ChildOfRegistered' BY <1>1 DEF TakeChild
  <2>8. HandlesRegistered' BY <1>1 DEF TakeChild
  <2>9. GoneIsGone' BY <1>1 DEF TakeChild
  <2> QED BY <2>5, <2>6, <2>7, <2>8, <2>9
<1>2. CASE KillChild(k)
  <2>1. \A b \in Starts : proc'[b] = "up" => proc[b] = "up" /\ b # killer[k].of
    BY <1>2 DEF KillChild
  <2>2. \A j \in Killers \ {k} : killer'[j] = killer[j] BY <1>2 DEF KillChild, KillerAt
  <2>3. TakenDies'
    <3> SUFFICES ASSUME NEW b \in Starts, child'[b] = "taken", proc'[b] = "up"
                 PROVE  \E j \in Killers : killer'[j] = [at |-> "kill", of |-> b]
      OBVIOUS
    <3>1. PICK j \in Killers : killer[j] = [at |-> "kill", of |-> b] BY <1>2, <2>1 DEF KillChild
    <3>2. j # k BY <2>1, <3>1
    <3> QED BY <2>2, <3>1, <3>2
  <2>4. LiveInTable' BY <1>2, <2>1 DEF KillChild
  <2>5. ChildOfRegistered' /\ HandlesRegistered' /\ GoneIsGone' BY <1>2 DEF KillChild
  <2> QED BY <2>3, <2>4, <2>5
<1>3. CASE StopRevokes(k)
  <2>1. TakenDies'
    <3> SUFFICES ASSUME NEW b \in Starts, child'[b] = "taken", proc'[b] = "up"
                 PROVE  \E j \in Killers : killer'[j] = [at |-> "kill", of |-> b]
      OBVIOUS
    <3>1. PICK j \in Killers : killer[j] = [at |-> "kill", of |-> b] BY <1>3 DEF StopRevokes
    <3>2. j # k BY <1>3, <3>1 DEF StopRevokes
    <3> QED BY <1>3, <3>1, <3>2 DEF StopRevokes, KillerAt
  <2> QED BY <1>3, <2>1 DEF StopRevokes
<1>4. CASE DeleteBegins(k)
  <2>1. TakenDies'
    <3> SUFFICES ASSUME NEW b \in Starts, child'[b] = "taken", proc'[b] = "up"
                 PROVE  \E j \in Killers : killer'[j] = [at |-> "kill", of |-> b]
      OBVIOUS
    <3>1. PICK j \in Killers : killer[j] = [at |-> "kill", of |-> b] BY <1>4 DEF DeleteBegins
    <3>2. j # k BY <1>4, <3>1 DEF DeleteBegins
    <3> QED BY <1>4, <3>1, <3>2 DEF DeleteBegins, KillerAt
  <2> QED BY <1>4, <2>1 DEF DeleteBegins
<1> QED BY <1>1, <1>2, <1>3, <1>4 DEF KillerGoesOn

\* A query removes the entry of a process that is over, and no other.
LEMMA LookKeepsInv ==
  ASSUME EscapeInv, ProcessTypeOK', NEW l \in Lookers, Look(l)
  PROVE  EscapeInv'
<1> USE ProcessAssumption DEF EscapeInv, ProcessTypeOK, ChildOfRegistered, HandlesRegistered,
                              LiveInTable, TakenDies, GoneIsGone
<1>1. CASE CloneHandle(l) BY <1>1 DEF CloneHandle, LookerAt, Someone
<1>2. CASE TryWait(l)
  <2>1. \A m \in Lookers \ {l} : looker'[m] = looker[m] BY <1>2 DEF TryWait, LookerAt
  <2>2. looker'[l].at = "gone" => /\ looker'[l].of = looker[l].of
                                  /\ looker[l].of \in Starts
                                  /\ child[looker[l].of] = "taken" \/ proc[looker[l].of] # "up"
    <3>1. looker[l].of \in Starts /\ child[looker[l].of] # "none" BY <1>2 DEF TryWait
    <3>2. start[looker[l].of] = "registered" BY <3>1
    <3>3. CASE child[looker[l].of] = "in" /\ proc[looker[l].of] = "up"
      BY <1>2, <3>3 DEF TryWait, LookerAt
    <3>4. CASE child[looker[l].of] = "taken"
      BY <1>2, <3>1, <3>4 DEF TryWait, LookerAt
    <3>5. CASE child[looker[l].of] = "in" /\ proc[looker[l].of] # "up"
      BY <1>2, <3>1, <3>5 DEF TryWait, LookerAt
    <3> QED BY <3>1, <3>3, <3>4, <3>5
  <2>3. looker'[l].at \in {"idle", "gone"} BY <1>2 DEF TryWait, LookerAt
  <2>4. GoneIsGone' BY <1>2, <2>1, <2>2 DEF TryWait
  <2>5. HandlesRegistered' BY <1>2, <2>1, <2>2, <2>3 DEF TryWait
  <2>6. ChildOfRegistered' /\ LiveInTable' /\ TakenDies' BY <1>2 DEF TryWait
  <2> QED BY <2>4, <2>5, <2>6
<1>3. CASE RemoveIfSame(l)
  <2>1. LiveInTable'
    BY <1>3 DEF RemoveIfSame
  <2>2. HandlesRegistered' BY <1>3 DEF RemoveIfSame, LookerAt
  <2>3. GoneIsGone' BY <1>3 DEF RemoveIfSame, LookerAt
  <2>4. ChildOfRegistered' /\ TakenDies' BY <1>3 DEF RemoveIfSame
  <2> QED BY <2>1, <2>2, <2>3, <2>4
<1> QED BY <1>1, <1>2, <1>3 DEF Look

-----------------------------------------------------------------------------
\* The invariant behind NoProcessEscapes, in every reachable state.
THEOREM EscapeInvCorrect == ProcessSpec => []EscapeInv
<1>1. ProcessInit => EscapeInv
  BY ProcessAssumption
  DEF ProcessInit, EscapeInv, ProcessTypeOK, Steps, Someone, NoOne, ChildOfRegistered,
      HandlesRegistered, LiveInTable, TakenDies, GoneIsGone
<1>2. EscapeInv /\ [ProcessNext]_processVars => EscapeInv'
  <2> SUFFICES ASSUME EscapeInv, [ProcessNext]_processVars PROVE EscapeInv'
    OBVIOUS
  <2>1. ProcessTypeOK' BY ProcessTypeInductive DEF EscapeInv
  <2>2. ASSUME NEW a \in Starts, StartStep(a) PROVE EscapeInv' BY <2>1, <2>2, StartKeepsInv
  <2>6. ASSUME RevokeAll \/ \E a \in Starts : Exits(a) \/ Watcher(a) \/ Expire(a) PROVE EscapeInv'
    BY <2>1, <2>6, WatchKeepsInv
  <2>3. ASSUME NEW k \in Killers, KillerGoesOn(k) \/ DeleteBegins(k) \/ TakeChild(k)
        PROVE  EscapeInv'
    BY <2>1, <2>3, KillKeepsInv
  <2>4. ASSUME NEW l \in Lookers, Look(l) PROVE EscapeInv'
    BY <2>1, <2>4, LookKeepsInv
  <2>5. CASE UNCHANGED processVars
    BY <2>5 DEF processVars, EscapeInv, ProcessTypeOK, ChildOfRegistered, HandlesRegistered,
                LiveInTable, TakenDies, GoneIsGone
  <2> QED BY <2>2, <2>3, <2>4, <2>5, <2>6 DEF ProcessNext, Killers
<1> QED BY <1>1, <1>2, PTL DEF ProcessSpec

\* Every variable of the process table has its type, always.
THEOREM ProcessTypeCorrect == ProcessSpec => []ProcessTypeOK
<1>1. EscapeInv => ProcessTypeOK BY DEF EscapeInv
<1> QED BY <1>1, EscapeInvCorrect, PTL

\* A running process whose start was completed is always in the table, or in
\* the hands of a stop that is about to kill it.
THEOREM ProcessesReachable == ProcessSpec => []NoProcessEscapes
<1>1. EscapeInv => NoProcessEscapes
  BY DEF EscapeInv, NoProcessEscapes, ProcessTypeOK, ChildOfRegistered, LiveInTable, TakenDies
<1> QED BY <1>1, EscapeInvCorrect, PTL

-----------------------------------------------------------------------------
(* Sessions                                                                *)

\* A watcher that saw the exit of its process saw it right.
ExitedIsDown == \A a \in Starts : watch[a] = "exited" => proc[a] = "down"

\* Starts do not overlap, unless that is on record.
OneUnderWay ==
  "overlap" \notin mixed => \A a, b \in Starts : UnderWay(a) /\ UnderWay(b) => a = b

\* A start has its session until it has registered.
StartHoldsSession ==
  "overlap" \notin mixed => \A a \in TokenStarts \ stopped : UnderWay(a) => a \in tokens

SessionInv == EscapeInv /\ ExitedIsDown /\ OneUnderWay /\ StartHoldsSession /\ NewSessionKept

\* What a start does to the sessions: between KeepOwnSession, which leaves its
\* own, and Register it is the only start under way.
LEMMA StartKeepsSessions ==
  ASSUME SessionInv, EscapeInv', NEW a \in Starts, StartStep(a)
  PROVE  SessionInv'
<1> USE ProcessAssumption
    DEF SessionInv, EscapeInv, ProcessTypeOK, Someone, Steps, ChildOfRegistered, HandlesRegistered,
        ExitedIsDown, OneUnderWay, StartHoldsSession, NewSessionKept, UnderWay
<1>1. CASE RegisterSession(a) BY <1>1 DEF RegisterSession, NoteOverlap
<1>2. CASE RegisterActionSession(a) BY <1>2 DEF RegisterActionSession, NoteOverlap
<1>3. CASE Spawn(a) BY <1>3 DEF Spawn
<1>4. CASE StartFails(a) BY <1>4 DEF StartFails
<1>5. CASE Survives(a) BY <1>5 DEF Survives
<1>6. CASE KeepOwnSession(a) BY <1>6 DEF KeepOwnSession
<1>7. CASE Register(a) BY <1>7 DEF Register
<1> QED BY <1>1, <1>2, <1>3, <1>4, <1>5, <1>6, <1>7 DEF StartStep

\* What everybody else does: a watcher revokes the session of a process that
\* is over, and the others take sessions on purpose.
LEMMA OthersKeepSessions ==
  ASSUME SessionInv, EscapeInv',
         \/ RevokeAll
         \/ \E a \in Starts : Exits(a) \/ Watcher(a) \/ Expire(a)
         \/ \E k \in Killers : KillerGoesOn(k) \/ DeleteBegins(k) \/ TakeChild(k)
         \/ \E l \in Lookers : Look(l)
  PROVE  SessionInv'
<1> USE ProcessAssumption
    DEF SessionInv, EscapeInv, ProcessTypeOK, Someone, Steps, ChildOfRegistered, HandlesRegistered,
        ExitedIsDown, OneUnderWay, StartHoldsSession, NewSessionKept, UnderWay
<1>1. ASSUME NEW a \in Starts, Exits(a) PROVE SessionInv' BY <1>1 DEF Exits
<1>2. ASSUME NEW a \in Starts, Watcher(a) PROVE SessionInv'
  BY <1>2 DEF Watcher, WatcherLooks, WatcherRevokes
<1>3. ASSUME NEW a \in Starts, Expire(a) PROVE SessionInv' BY <1>3 DEF Expire
<1>4. CASE RevokeAll BY <1>4 DEF RevokeAll, RevokePlugin
<1>5. ASSUME NEW k \in Killers, TakeChild(k) PROVE SessionInv' BY <1>5 DEF TakeChild
<1>6. ASSUME NEW k \in Killers, KillChild(k) PROVE SessionInv' BY <1>6 DEF KillChild
<1>7. ASSUME NEW k \in Killers, StopRevokes(k) \/ DeleteBegins(k) PROVE SessionInv'
  BY <1>7 DEF StopRevokes, DeleteBegins, RevokePlugin
<1>8. ASSUME NEW l \in Lookers, Look(l) PROVE SessionInv'
  BY <1>8 DEF Look, CloneHandle, TryWait, RemoveIfSame
<1> QED BY <1>1, <1>2, <1>3, <1>4, <1>5, <1>6, <1>7, <1>8 DEF KillerGoesOn

\* A running process in the table has its session, unless somebody meant to
\* take it: its own watcher cannot have, and the watcher of the one it
\* replaced revokes another.
THEOREM SessionsSurviveReplacement == ProcessSpec => []NewSessionKept
<1>1. ProcessInit /\ EscapeInv => SessionInv
  BY ProcessAssumption
  DEF ProcessInit, SessionInv, EscapeInv, ProcessTypeOK, ExitedIsDown, OneUnderWay,
      StartHoldsSession, NewSessionKept, UnderWay
<1>2. SessionInv /\ EscapeInv' /\ [ProcessNext]_processVars => SessionInv'
  <2> SUFFICES ASSUME SessionInv, EscapeInv', [ProcessNext]_processVars PROVE SessionInv'
    OBVIOUS
  <2>1. CASE UNCHANGED processVars
    BY <2>1 DEF processVars, SessionInv, ExitedIsDown, OneUnderWay, StartHoldsSession,
                NewSessionKept, UnderWay
  <2> QED BY <2>1, StartKeepsSessions, OthersKeepSessions DEF ProcessNext, Killers
<1>3. SessionInv => NewSessionKept BY DEF SessionInv
<1> QED BY <1>1, <1>2, <1>3, EscapeInvCorrect, PTL DEF ProcessSpec

-----------------------------------------------------------------------------
(* The preparation of a plugin directory                                   *)

PythonSteps ==
  {"look", "clear", "make", "plain", "pip", "sync", "install", "smoke", "mark", "check"}
NodeSteps == {"link", "node", "nodemark"}

\* A venv was made for a place the runtime has been at, and a launch is at the
\* steps of its runtime.
DepShape ==
  /\ DepTypeOK
  /\ venv.home <= home
  /\ \A s \in Launches :
       /\ prep[s].at \in PythonSteps => setting.runtime = "python"
       /\ prep[s].at \in NodeSteps => setting.runtime = "nodejs"
       /\ prep[s].at \in {"sync", "install", "smoke", "mark"} => setting.files # {}
       /\ Busy(s) => 0 < prep[s].text

\* The marker names a content that was read, so no later one than that of
\* today; and where the packages are behind the marker, because a rebuild
\* could not even remove the venv, the marker is behind the files.
WorldTruth ==
  /\ venv.mark <= text /\ (venv.mark # 0 => venv.has <= text)
  /\ Usable /\ venv.has < venv.mark => venv.mark < text
  /\ setting.runtime = "nodejs" /\ mods.mark => mods.has # 0

\* What a launch knows at each of its steps.
LaunchTruth(s) ==
  LET at == prep[s].at  read == prep[s].text IN
  /\ Busy(s) => read <= text
  /\ at = "clear" /\ Usable => venv.mark < read
  /\ at \in {"make", "plain", "pip"} => venv.mark = 0
  /\ at = "look" => venv.mark <= read /\ (venv.has < venv.mark \/ ~venv.py => venv.mark < read)
  /\ at \in {"sync", "install", "smoke", "mark"} => venv.mark < read
  /\ at \in {"smoke", "mark"} => read <= venv.has /\ venv.has <= text
  /\ at \in {"check", "finish"} /\ setting.runtime = "python" /\ setting.files # {} => read <= venv.has
  /\ at \in NodeSteps => ~mods.mark
  /\ at = "nodemark" => mods.has # 0
  /\ at = "finish" /\ setting.runtime = "nodejs" /\ "package.json" \in setting.files => mods.has # 0

DepTruth ==
  /\ \A s, o \in Launches : Busy(s) /\ Busy(o) => s = o
  /\ WorldTruth
  /\ \A s \in Launches : LaunchTruth(s)

DepInv == DepShape /\ (~disturbed => DepTruth)

\* The settings have one of two runtimes.
LEMMA RuntimeIs == ASSUME DepTypeOK PROVE setting.runtime \in {"python", "nodejs"}
  BY DependencyAssumption DEF DepTypeOK, PluginSetting

\* What is left of a venv is less than it was, and its packages are a mixture.
LEMMA RemainsOf ==
  ASSUME NEW v \in VenvRec, NEW w \in Remains(v)
  PROVE  /\ w \in VenvRec /\ w.there = v.there /\ w.pip = v.pip /\ w.home = v.home
         /\ w.has = 0 /\ w.mark \in {0, v.mark} /\ (w.py => v.py)
<1>1. 0 \in Texts BY DependencyAssumption DEF Texts
<1> QED BY <1>1 DEF VenvRec, Remains

\* A venv that was half made has neither pip nor marker.
LEMMA HalfMadeOf ==
  ASSUME DepShape, NEW w \in {NoVenv} \cup HalfMade
  PROVE  w \in VenvRec /\ ~w.pip /\ w.mark = 0 /\ w.has = 0 /\ w.home <= home /\ (w.py => w.there)
<1>1. home \in 1 .. MaxMoves /\ 0 \in Texts /\ 0 \in 0 .. MaxMoves /\ home \in 0 .. MaxMoves
  BY DependencyAssumption DEF Texts, DepShape, DepTypeOK
<1>2. NoVenv \in VenvRec BY <1>1 DEF NoVenv, VenvRec
<1>3. CASE w = NoVenv BY <1>1, <1>2, <1>3 DEF NoVenv
<1>4. CASE w \in HalfMade
  <2>1. PICK p \in BOOLEAN : w = [there |-> TRUE, py |-> p, pip |-> FALSE, home |-> home,
                                  has |-> 0, mark |-> 0]
    BY <1>4 DEF HalfMade, NoVenv
  <2> QED BY <1>1, <2>1 DEF VenvRec
<1> QED BY <1>3, <1>4

\* A launch that takes a step moves itself and no other.
LEMMA Moves ==
  ASSUME prep \in [Launches -> PrepRec], NEW s \in Launches, NEW place \in PrepSteps,
         Goes(s, place)
  PROVE  /\ prep' \in [Launches -> PrepRec] /\ \A o \in Launches \ {s} : prep'[o] = prep[o]
         /\ prep'[s].at = place /\ prep'[s].text = prep[s].text
<1>1. prep' = [prep EXCEPT ![s] = prep'[s]] /\ prep'[s] = [prep[s] EXCEPT !.at = place]
  BY DEF Goes
<1>2. prep'[s] \in PrepRec /\ prep'[s].at = place /\ prep'[s].text = prep[s].text
  BY <1>1 DEF PrepRec
<1> QED BY <1>1, <1>2

\* Or ends, which is the same step however it ends.
LEMMA EndsAlone ==
  ASSUME prep \in [Launches -> PrepRec], NEW s \in Launches, Ends(s)
  PROVE  /\ prep' \in [Launches -> PrepRec] /\ \A o \in Launches \ {s} : prep'[o] = prep[o]
         /\ prep'[s].at = "idle"
<1>1. NotYet \in PrepRec BY DependencyAssumption DEF NotYet, PrepRec, PrepSteps, Texts
<1> QED BY <1>1 DEF Ends, NotYet

\* What a step of a launch leaves is of the right shape, but for the launch.
WorldShape ==
  /\ setting \in Settings /\ text \in Texts \ {0} /\ home \in 1 .. MaxMoves
  /\ venv \in VenvRec /\ (venv.py \/ venv.pip \/ venv.mark # 0 => venv.there) /\ venv.home <= home
  /\ mods \in ModsRec /\ disturbed \in BOOLEAN
PlaceFits(place) ==
  /\ place \in PythonSteps => setting.runtime = "python"
  /\ place \in NodeSteps => setting.runtime = "nodejs"
  /\ place \in {"sync", "install", "smoke", "mark"} => setting.files # {}

\* A launch that goes on by itself keeps the invariant if the world and it do.
LEMMA GoKeeps ==
  ASSUME DepInv, NEW s \in Launches, Busy(s), NEW place \in PrepSteps, Goes(s, place),
         UNCHANGED <<setting, text, home, disturbed>>, WorldShape', PlaceFits(place),
         ~disturbed => WorldTruth' /\ LaunchTruth(s)'
  PROVE  DepInv'
<1> USE DEF DepInv, DepShape, DepTypeOK
<1>1. /\ prep' \in [Launches -> PrepRec] /\ \A o \in Launches \ {s} : prep'[o] = prep[o]
      /\ prep'[s].at = place /\ prep'[s].text = prep[s].text
  BY Moves
<1>2. DepShape' BY <1>1 DEF WorldShape, PlaceFits, Busy
<1>3. ASSUME ~disturbed PROVE DepTruth'
  <2>1. WorldTruth' /\ LaunchTruth(s)' BY <1>3
  <2>2. \A o \in Launches \ {s} : prep'[o].at = "idle" BY <1>1, <1>3 DEF DepTruth, Busy
  <2>3. \A o \in Launches \ {s} : LaunchTruth(o)' BY <2>2 DEF LaunchTruth, Busy, NodeSteps
  <2> QED BY <2>1, <2>2, <2>3 DEF DepTruth, Busy
<1> QED BY <1>2, <1>3

\* One that ends, if the world does.
LEMMA EndKeeps ==
  ASSUME DepInv, NEW s \in Launches, Busy(s), Ends(s),
         UNCHANGED <<setting, text, home, disturbed>>, WorldShape', ~disturbed => WorldTruth'
  PROVE  DepInv'
<1> USE DEF DepInv, DepShape, DepTypeOK
<1>1. /\ prep' \in [Launches -> PrepRec] /\ \A o \in Launches \ {s} : prep'[o] = prep[o]
      /\ prep'[s].at = "idle"
  BY EndsAlone
<1>2. DepShape' BY <1>1 DEF WorldShape, Busy, PythonSteps, NodeSteps
<1>3. ASSUME ~disturbed PROVE DepTruth'
  <2>2. \A o \in Launches : prep'[o].at = "idle" BY <1>1, <1>3 DEF DepTruth, Busy
  <2>3. \A o \in Launches : LaunchTruth(o)' BY <2>2 DEF LaunchTruth, Busy, NodeSteps
  <2> QED BY <1>3, <2>2, <2>3 DEF DepTruth, Busy
<1> QED BY <1>2, <1>3

\* A launch begins: nobody else is at work, or it is on record.
LEMMA ReadKeeps == ASSUME DepInv, NEW s \in Launches, Read(s) PROVE DepInv'
<1> USE DEF DepInv, DepShape, DepTypeOK, Read
<1>1. setting.runtime \in {"python", "nodejs"} BY RuntimeIs
<1> DEFINE place == IF setting.runtime = "python" THEN (IF Usable THEN "look" ELSE "clear")
                    ELSE IF NeedsNodeInstall THEN "link" ELSE "finish"
           got == [at |-> place, text |-> text, again |-> FALSE]
<1>2. got \in PrepRec BY DEF PrepRec, PrepSteps
<1>3. prep' = [prep EXCEPT ![s] = got] OBVIOUS
<1>4. /\ prep' \in [Launches -> PrepRec] /\ \A o \in Launches \ {s} : prep'[o] = prep[o]
      /\ prep'[s].at = place /\ prep'[s].text = text
  BY <1>2, <1>3
<1>5. DepShape'
  BY <1>1, <1>4, DependencyAssumption DEF Texts, PythonSteps, NodeSteps, Busy
<1>6. ASSUME ~disturbed' PROVE DepTruth'
  <2>1. ~disturbed /\ \A o \in Launches \ {s} : ~Busy(o) BY <1>6 DEF Others
  <2>2. \A o \in Launches \ {s} : prep'[o].at = "idle" BY <1>4, <2>1 DEF Busy
  <2>3. WorldTruth' BY <2>1 DEF DepTruth, WorldTruth, Usable, Tool
  <2>4. \A o \in Launches \ {s} : LaunchTruth(o)' BY <2>2 DEF LaunchTruth, Busy, NodeSteps
  <2>5. LaunchTruth(s)'
    BY <1>1, <1>4, <2>1 DEF DepTruth, WorldTruth, LaunchTruth, NodeSteps, NeedsNodeInstall, Usable, Tool,
                       Texts, VenvRec
  <2> QED BY <2>2, <2>3, <2>4, <2>5 DEF DepTruth, Busy
<1> QED BY <1>5, <1>6

\* What the facts about one state give a step of a launch at work.
LEMMA WhatItKnows ==
  ASSUME DepInv, NEW s \in Launches
  PROVE  /\ WorldShape /\ setting.runtime \in {"python", "nodejs"}
         /\ prep \in [Launches -> PrepRec] /\ prep[s].text \in Nat
         /\ ~disturbed => WorldTruth /\ LaunchTruth(s)
         /\ PlaceFits(prep[s].at) /\ (Busy(s) => 0 < prep[s].text)
<1> USE DEF DepInv, DepShape, DepTypeOK
<1>1. prep[s].text \in Nat BY DependencyAssumption DEF PrepRec, Texts
<1>2. ~disturbed => WorldTruth /\ LaunchTruth(s) BY DEF DepTruth
<1> QED BY <1>1, <1>2, RuntimeIs DEF WorldShape, PlaceFits

\* Numbers that the state holds.
LEMMA WorldNumbers ==
  ASSUME WorldShape
  PROVE  /\ text \in Nat /\ text \in Texts /\ 0 < text /\ home \in Nat /\ 0 \in Texts
         /\ venv.has \in Nat /\ venv.mark \in Nat /\ venv.home \in Nat /\ mods.has \in Nat
  BY DependencyAssumption DEF WorldShape, Texts, VenvRec, ModsRec

\* The removal of what is left of a venv; when it fails the launch is over.
LEMMA ClearKeeps == ASSUME DepInv, NEW s \in Launches, Clear(s) PROVE DepInv'
<1> USE DEF Clear
<1>1. Busy(s) BY DEF Busy
<1>2. UNCHANGED <<setting, text, home, mods, disturbed>> OBVIOUS
<1>3. NoVenv \in VenvRec BY WhatItKnows, WorldNumbers, DependencyAssumption DEF NoVenv, VenvRec
<1>4. CASE venv' = NoVenv /\ Goes(s, "make")
  <2>1. WorldShape' BY <1>2, <1>3, <1>4, WhatItKnows DEF WorldShape, NoVenv
  <2>2. PlaceFits("make") BY WhatItKnows DEF PlaceFits, PythonSteps, NodeSteps
  <2>3. prep'[s].at = "make" /\ prep'[s].text = prep[s].text
    BY <1>4, Moves, WhatItKnows DEF PrepSteps
  <2>4. ~disturbed => WorldTruth' /\ LaunchTruth(s)'
    BY <1>1, <1>2, <1>4, <2>3, WhatItKnows, WorldNumbers
    DEF WorldTruth, LaunchTruth, NoVenv, Usable, Busy, NodeSteps
  <2> QED BY <1>1, <1>2, <1>4, <2>1, <2>2, <2>4, GoKeeps DEF PrepSteps
<1>5. CASE venv.there /\ venv' \in Remains(venv) /\ Ends(s)
  <2>1. /\ venv' \in VenvRec /\ venv'.there = venv.there /\ venv'.pip = venv.pip
        /\ venv'.home = venv.home /\ venv'.has = 0 /\ venv'.mark \in {0, venv.mark}
        /\ (venv'.py => venv.py)
    BY <1>5, RemainsOf, WhatItKnows DEF WorldShape
  <2>2. WorldShape' BY <1>2, <1>5, <2>1, WhatItKnows DEF WorldShape
  <2>3. ~disturbed => WorldTruth'
    BY <1>2, <2>1, WhatItKnows, WorldNumbers DEF WorldTruth, LaunchTruth, Usable, Tool, Busy
  <2> QED BY <1>1, <1>2, <1>5, <2>2, <2>3, EndKeeps
<1>6. CASE Ends(s) /\ UNCHANGED venv
  <2>1. WorldShape' BY <1>2, <1>6, WhatItKnows DEF WorldShape
  <2>2. ~disturbed => WorldTruth' BY <1>2, <1>6, WhatItKnows DEF WorldTruth, Usable, Tool
  <2> QED BY <1>1, <1>2, <1>6, <2>1, <2>2, EndKeeps
<1> QED BY <1>4, <1>5, <1>6

\* A venv that was just made has no marker to lie with, and no other launch has
\* been at work on it, or else it stays on record.
LEMMA FreshKeeps ==
  ASSUME DepInv, NEW s \in Launches, prep[s].at \in {"make", "pip"}, Goes(s, "look"),
         disturbed' = Fresh(s), UNCHANGED <<setting, text, home, mods>>, WorldShape',
         ~disturbed' => venv'.mark = 0
  PROVE  DepInv'
<1>1. /\ prep' \in [Launches -> PrepRec] /\ \A o \in Launches \ {s} : prep'[o] = prep[o]
      /\ prep'[s].at = "look" /\ prep'[s].text = prep[s].text
  BY Moves, WhatItKnows DEF PrepSteps
<1>2. setting.runtime = "python" /\ Busy(s) /\ 0 < prep[s].text
  BY WhatItKnows DEF PlaceFits, PythonSteps, Busy
<1>3. DepShape'
  BY <1>1, <1>2 DEF DepInv, DepShape, DepTypeOK, WorldShape, Busy, NodeSteps
<1>4. ASSUME ~disturbed' PROVE DepTruth'
  <2>1. (\A o \in Launches \ {s} : prep[o].at = "idle") /\ prep[s].text <= text
    BY <1>2, <1>4, WhatItKnows DEF Fresh, Others, Busy, DepInv, DepTruth, LaunchTruth
  <2>2. \A o \in Launches \ {s} : prep'[o].at = "idle" BY <1>1, <2>1
  <2>3. \A o \in Launches \ {s} : LaunchTruth(o)' BY <2>2 DEF LaunchTruth, Busy, NodeSteps
  <2>4. WorldTruth' /\ LaunchTruth(s)'
    BY <1>1, <1>2, <1>4, <2>1, WhatItKnows, WorldNumbers DEF WorldTruth, LaunchTruth, NodeSteps
  <2> QED BY <2>2, <2>3, <2>4 DEF DepTruth, Busy
<1> QED BY <1>3, <1>4 DEF DepInv

\* A venv is made, with pip or without, or is left half made.
LEMMA MakeKeeps ==
  ASSUME DepInv, NEW s \in Launches, MakeVenv(s) \/ MakePlainVenv(s) \/ AddPip(s)
  PROVE  DepInv'
<1> DEFINE place == prep[s].at
<1>1. Busy(s) /\ place \in {"make", "plain", "pip"} /\ UNCHANGED <<setting, text, home, mods>>
  BY DEF Busy, MakeVenv, MakePlainVenv, AddPip
<1>2. setting.runtime = "python" /\ PlaceFits("plain") /\ PlaceFits("pip")
  BY <1>1, WhatItKnows DEF PlaceFits, PythonSteps, NodeSteps
<1>3. WorldShape /\ (~disturbed => WorldTruth /\ LaunchTruth(s)) BY WhatItKnows
<1>4. ASSUME NEW p \in BOOLEAN, disturbed' \in BOOLEAN,
             venv' = [there |-> TRUE, py |-> TRUE, pip |-> p, home |-> home, has |-> 0, mark |-> 0]
      PROVE  WorldShape' /\ venv'.mark = 0 /\ venv'.has = 0
  <2>1. venv'.there /\ venv'.mark = 0 /\ venv'.has = 0 /\ venv'.home = home BY <1>4
  <2>2. home \in 0 .. MaxMoves BY <1>3, DependencyAssumption DEF WorldShape
  <2>3. venv' \in VenvRec BY <2>2, <1>3, <1>4, WorldNumbers DEF VenvRec
  <2>4. home <= home BY <1>3, WorldNumbers
  <2> QED BY <1>1, <1>3, <1>4, <2>1, <2>3, <2>4 DEF WorldShape
<1>5. ASSUME venv' \in {NoVenv} \cup HalfMade, UNCHANGED disturbed
      PROVE  WorldShape' /\ (~disturbed => WorldTruth') /\ venv'.mark = 0
  <2>1. venv' \in VenvRec /\ ~venv'.pip /\ venv'.mark = 0 /\ venv'.has = 0 /\ venv'.home <= home
        /\ (venv'.py => venv'.there)
    BY <1>5, HalfMadeOf DEF DepInv
  <2> QED BY <1>1, <1>2, <1>3, <1>5, <2>1, WorldNumbers DEF WorldShape, WorldTruth
<1>6. CASE MakeVenv(s)
  <2>1. CASE /\ venv' = [NoVenv EXCEPT !.there = TRUE, !.py = TRUE, !.pip = TRUE, !.home = home]
             /\ disturbed' = Fresh(s) /\ Goes(s, "look")
    <3>1. disturbed' \in BOOLEAN BY <2>1, <1>3 DEF Fresh, WorldShape
    <3>2. venv' = [there |-> TRUE, py |-> TRUE, pip |-> TRUE, home |-> home, has |-> 0, mark |-> 0]
      BY <2>1 DEF NoVenv
    <3>3. WorldShape' /\ venv'.mark = 0 BY <1>4, <3>1, <3>2
    <3> QED BY <1>1, <1>6, <2>1, <3>3, FreshKeeps DEF MakeVenv
  <2>2. CASE venv' \in {NoVenv} \cup HalfMade /\ Goes(s, "plain") /\ UNCHANGED disturbed
    <3>1. prep'[s].at = "plain" /\ prep'[s].text = prep[s].text
      BY <2>2, Moves, WhatItKnows DEF PrepSteps
    <3>2. ~disturbed => LaunchTruth(s)'
      BY <1>1, <1>3, <1>5, <2>2, <3>1 DEF LaunchTruth, Busy, NodeSteps
    <3> QED BY <1>1, <1>2, <1>5, <2>2, <3>2, GoKeeps DEF PrepSteps
  <2>3. CASE Ends(s) /\ UNCHANGED <<venv, disturbed>>
    <3>1. WorldShape' /\ (~disturbed => WorldTruth')
      BY <1>1, <1>3, <2>3 DEF WorldShape, WorldTruth, Usable, Tool
    <3> QED BY <1>1, <2>3, <3>1, EndKeeps
  <2> QED BY <1>6, <2>1, <2>2, <2>3 DEF MakeVenv
<1>7. CASE MakePlainVenv(s)
  <2>0. UNCHANGED disturbed BY <1>7 DEF MakePlainVenv
  <2>1. CASE venv' = [NoVenv EXCEPT !.there = TRUE, !.py = TRUE, !.home = home] /\ Goes(s, "pip")
    <3>1. venv' = [there |-> TRUE, py |-> TRUE, pip |-> FALSE, home |-> home, has |-> 0, mark |-> 0]
      BY <2>1 DEF NoVenv
    <3>2. WorldShape' /\ venv'.mark = 0 /\ venv'.has = 0
      BY <1>3, <1>4, <2>0, <3>1 DEF WorldShape
    <3>3. prep'[s].at = "pip" /\ prep'[s].text = prep[s].text
      BY <2>1, Moves, WhatItKnows DEF PrepSteps
    <3>4. ~disturbed => WorldTruth' /\ LaunchTruth(s)'
      BY <1>1, <1>2, <1>3, <3>2, <3>3, WorldNumbers DEF WorldTruth, LaunchTruth, Busy, NodeSteps
    <3> QED BY <1>1, <1>2, <2>0, <2>1, <3>2, <3>4, GoKeeps DEF PrepSteps
  <2>2. CASE venv' \in {NoVenv} \cup HalfMade /\ Ends(s)
    BY <1>1, <1>5, <2>0, <2>2, EndKeeps
  <2> QED BY <1>7, <2>1, <2>2 DEF MakePlainVenv
<1>8. CASE AddPip(s)
  <2>1. CASE /\ venv.there /\ venv' = [venv EXCEPT !.pip = TRUE]
             /\ disturbed' = Fresh(s) /\ Goes(s, "look")
    <3>1. disturbed' \in BOOLEAN BY <2>1, <1>3 DEF Fresh, WorldShape
    <3>2. /\ venv' \in VenvRec /\ venv'.there = venv.there /\ venv'.home = venv.home
          /\ venv'.mark = venv.mark
      BY <2>1, <1>3 DEF WorldShape, VenvRec
    <3>3. WorldShape' BY <1>1, <1>3, <2>1, <3>1, <3>2 DEF WorldShape
    <3>4. prep[s].at = "pip" BY <1>8 DEF AddPip
    <3>5. ~disturbed' => venv'.mark = 0
      BY <1>3, <2>1, <3>2, <3>4 DEF Fresh, LaunchTruth
    <3> QED BY <1>1, <2>1, <3>3, <3>4, <3>5, FreshKeeps
  <2>2. CASE venv' \in {NoVenv} \cup HalfMade /\ Ends(s) /\ UNCHANGED disturbed
    BY <1>1, <1>5, <2>2, EndKeeps
  <2> QED BY <1>8, <2>1, <2>2 DEF AddPip
<1> QED BY <1>6, <1>7, <1>8

\* The fast path is taken where the marker names what was read.
LEMMA LookKeepsDeps == ASSUME DepInv, NEW s \in Launches, LookAtMarker(s) PROVE DepInv'
<1> DEFINE hit == venv.mark = prep[s].text /\ (Governing = "uv.lock" \/ venv.py)
<1>1. /\ Busy(s) /\ prep[s].at = "look" /\ Onward(s, hit)
      /\ UNCHANGED <<setting, text, home, venv, mods, disturbed>>
  BY DEF Busy, LookAtMarker
<1>2. /\ WorldShape /\ prep[s].text \in Nat /\ 0 < prep[s].text
      /\ (~disturbed => WorldTruth /\ LaunchTruth(s))
  BY <1>1, WhatItKnows
<1>3. setting.runtime = "python" BY <1>1, WhatItKnows DEF PlaceFits, PythonSteps
<1>4. WorldShape' BY <1>1, <1>2 DEF WorldShape
<1>5. ~disturbed => WorldTruth' BY <1>1, <1>2 DEF WorldTruth, Usable, Tool
<1>6. ASSUME NEW place \in {"check", "finish", "install", "sync"}, Goes(s, place),
             place = "check" => setting.files = {},
             place \in {"install", "sync"} => setting.files # {} /\ (place = "install" => ~hit),
             place = "finish" => hit,
             place = "sync" => Governing = "uv.lock" /\ ~hit
      PROVE  DepInv'
  <2>1. prep'[s].at = place /\ prep'[s].text = prep[s].text
    BY <1>6, Moves, WhatItKnows DEF PrepSteps
  <2>2. PlaceFits(place) BY <1>3, <1>6 DEF PlaceFits, NodeSteps
  <2>3. ASSUME ~disturbed PROVE LaunchTruth(s)'
    <3>1. WorldTruth /\ LaunchTruth(s) BY <1>2, <2>3
    <3>2. venv.mark <= prep[s].text /\ (venv.has < venv.mark \/ ~venv.py => venv.mark < prep[s].text)
          /\ prep[s].text <= text
      BY <1>1, <3>1 DEF LaunchTruth
    <3> USE <1>1, <1>2, <1>3, <2>1, <3>2, WorldNumbers DEF LaunchTruth, Busy, NodeSteps
    <3>3. CASE place = "check" BY <1>6, <3>3
    <3>4. CASE place = "finish" BY <1>6, <3>4
    <3>5. CASE place = "sync" BY <1>6, <3>5
    <3>6. CASE place = "install"
      <4>1. venv.mark < prep[s].text BY <1>6, <3>6 DEF WorldTruth, Usable
      <4> QED BY <3>6, <4>1
    <3> QED BY <3>3, <3>4, <3>5, <3>6
  <2> QED BY <1>1, <1>4, <1>5, <1>6, <2>2, <2>3, GoKeeps DEF PrepSteps
<1>7. ASSUME Ends(s) PROVE DepInv' BY <1>1, <1>4, <1>5, <1>7, EndKeeps
<1>8. CASE setting.files = {} BY <1>1, <1>6, <1>8 DEF Onward
<1>9. CASE setting.files # {} /\ hit BY <1>1, <1>6, <1>9 DEF Onward
<1>10. CASE setting.files # {} /\ ~hit
  BY <1>1, <1>6, <1>7, <1>10 DEF Onward, GoesIf, Governing
<1> QED BY <1>8, <1>9, <1>10

\* Packages that were only half installed are a mixture.
LEMMA SpoiltKeeps ==
  ASSUME DepInv, NEW s \in Launches, prep[s].at \in {"sync", "install"},
         venv' \in {venv, [venv EXCEPT !.has = 0]}, UNCHANGED <<setting, text, home, mods, disturbed>>
  PROVE  /\ WorldShape' /\ venv'.mark = venv.mark
         /\ ~disturbed => WorldTruth' /\ venv.mark < prep[s].text /\ prep[s].text <= text
<1>1. WorldShape /\ prep[s].text \in Nat /\ (~disturbed => WorldTruth /\ LaunchTruth(s))
  BY WhatItKnows
<1>2. /\ venv' \in VenvRec /\ venv'.there = venv.there /\ venv'.home = venv.home
      /\ venv'.py = venv.py /\ venv'.pip = venv.pip
      /\ venv'.mark = venv.mark /\ venv'.has \in {0, venv.has}
  BY <1>1, WorldNumbers DEF WorldShape, VenvRec
<1>3. WorldShape' BY <1>1, <1>2 DEF WorldShape
<1>4. ~disturbed => venv.mark < prep[s].text /\ prep[s].text <= text
  BY <1>1 DEF LaunchTruth, Busy
<1>5. ~disturbed => WorldTruth' BY <1>1, <1>2, <1>4, WorldNumbers DEF WorldTruth, Usable, Tool
<1> QED BY <1>2, <1>3, <1>4, <1>5

\* Packages that were installed are those the files name today, which is what
\* was read or newer.
LEMMA InstalledKeeps ==
  ASSUME DepInv, NEW s \in Launches, prep[s].at \in {"sync", "install"},
         NEW there \in {venv.there, TRUE}, venv' = [venv EXCEPT !.has = text, !.there = there],
         UNCHANGED <<setting, text, home, mods, disturbed>>
  PROVE  /\ WorldShape' /\ venv'.mark = venv.mark /\ venv'.has = text
         /\ ~disturbed => WorldTruth' /\ venv.mark < prep[s].text /\ prep[s].text <= text
<1>1. WorldShape /\ prep[s].text \in Nat /\ (~disturbed => WorldTruth /\ LaunchTruth(s))
  BY WhatItKnows
<1>2. /\ venv' \in VenvRec /\ (venv.there => venv'.there) /\ venv'.home = venv.home
      /\ venv'.py = venv.py /\ venv'.pip = venv.pip
      /\ venv'.mark = venv.mark /\ venv'.has = text
  BY <1>1, WorldNumbers DEF WorldShape, VenvRec
<1>3. WorldShape' BY <1>1, <1>2 DEF WorldShape
<1>4. ~disturbed => venv.mark < prep[s].text /\ prep[s].text <= text
  BY <1>1 DEF LaunchTruth, Busy
<1>5. ~disturbed => WorldTruth' BY <1>1, <1>2, <1>4, WorldNumbers DEF WorldTruth, Usable, Tool
<1> QED BY <1>2, <1>3, <1>4, <1>5

\* A rebuild that begins, or the end of a launch that has had its rebuild.
LEMMA RebuildKeeps ==
  ASSUME DepInv, NEW s \in Launches, Busy(s), setting.runtime = "python", Rebuild(s), WorldShape',
         UNCHANGED <<setting, text, home, disturbed>>,
         ~disturbed => WorldTruth' /\ venv'.mark < prep[s].text /\ prep[s].text <= text
  PROVE  DepInv'
<1> USE DEF DepInv, DepShape, DepTypeOK
<1>1. CASE prep[s].again BY <1>1, EndKeeps DEF Rebuild
<1>2. CASE ~prep[s].again
  <2>1. /\ prep' = [prep EXCEPT ![s] = prep'[s]]
        /\ prep'[s] = [prep[s] EXCEPT !.at = "clear", !.again = TRUE]
    BY <1>2 DEF Rebuild
  <2>6. prep[s] \in PrepRec OBVIOUS
  <2>7. prep'[s] = [at |-> "clear", text |-> prep[s].text, again |-> TRUE] /\ prep[s].text \in Texts
    BY <2>1, <2>6 DEF PrepRec
  <2>2. prep'[s] \in PrepRec /\ prep'[s].at = "clear" /\ prep'[s].text = prep[s].text
    BY <2>7 DEF PrepRec, PrepSteps
  <2>3. /\ prep' \in [Launches -> PrepRec] /\ \A o \in Launches \ {s} : prep'[o] = prep[o]
    BY <2>1, <2>2
  <2>4. DepShape' BY <2>2, <2>3 DEF WorldShape, Busy, PythonSteps, NodeSteps
  <2>5. ASSUME ~disturbed PROVE DepTruth'
    <3>1. \A o \in Launches \ {s} : prep'[o].at = "idle" BY <2>3, <2>5 DEF DepTruth, Busy
    <3>2. \A o \in Launches \ {s} : LaunchTruth(o)' BY <3>1 DEF LaunchTruth, Busy, NodeSteps
    <3>3. LaunchTruth(s)' BY <2>2, <2>5 DEF LaunchTruth, NodeSteps
    <3> QED BY <2>5, <3>1, <3>2, <3>3 DEF DepTruth, Busy
  <2> QED BY <2>4, <2>5
<1> QED BY <1>1, <1>2

\* The installation, by uv or by pip.
LEMMA InstallKeeps ==
  ASSUME DepInv, NEW s \in Launches, Sync(s) \/ Install(s) PROVE DepInv'
<1>1. /\ Busy(s) /\ prep[s].at \in {"sync", "install"}
      /\ UNCHANGED <<setting, text, home, mods, disturbed>>
  BY DEF Busy, Sync, Install
<1>2. /\ WorldShape /\ setting.runtime = "python" /\ setting.files # {}
      /\ prep[s].text \in Nat /\ 0 < prep[s].text
  BY <1>1, WhatItKnows DEF PlaceFits, PythonSteps
<1>3. ASSUME NEW place \in {"mark", "smoke"}, Goes(s, place), WorldShape', venv'.mark = venv.mark,
             venv'.has = text,
             ~disturbed => WorldTruth' /\ venv.mark < prep[s].text /\ prep[s].text <= text
      PROVE  DepInv'
  <2>1. prep'[s].at = place /\ prep'[s].text = prep[s].text
    BY <1>3, Moves, WhatItKnows DEF PrepSteps
  <2>2. ~disturbed => LaunchTruth(s)'
    BY <1>1, <1>2, <1>3, <2>1, WorldNumbers DEF LaunchTruth, NodeSteps
  <2> QED BY <1>1, <1>2, <1>3, <2>2, GoKeeps DEF PrepSteps, PlaceFits, NodeSteps
<1>4. ASSUME venv' = [venv EXCEPT !.has = text, !.there = TRUE] /\ Goes(s, "mark") PROVE DepInv'
  BY <1>1, <1>3, <1>4, InstalledKeeps
<1>5. ASSUME venv' = [venv EXCEPT !.has = text] /\ Goes(s, "smoke") PROVE DepInv'
  <2>1. venv' = [venv EXCEPT !.has = text, !.there = venv.there] BY <1>2, <1>5 DEF WorldShape, VenvRec
  <2> QED BY <1>1, <1>3, <1>5, <2>1, InstalledKeeps
<1>6. ASSUME venv' \in {venv, [venv EXCEPT !.has = 0]}, Ends(s) \/ Rebuild(s) PROVE DepInv'
  <2>1. /\ WorldShape' /\ venv'.mark = venv.mark
        /\ ~disturbed => WorldTruth' /\ venv.mark < prep[s].text /\ prep[s].text <= text
    BY <1>1, <1>6, SpoiltKeeps
  <2>2. CASE Ends(s) BY <1>1, <2>1, <2>2, EndKeeps
  <2>3. CASE Rebuild(s) BY <1>1, <1>2, <2>1, <2>3, RebuildKeeps
  <2> QED BY <1>6, <2>2, <2>3
<1> QED BY <1>4, <1>5, <1>6 DEF Sync, Install

\* The import test.
LEMMA SmokeKeeps == ASSUME DepInv, NEW s \in Launches, Smoke(s) PROVE DepInv'
<1>1. /\ Busy(s) /\ prep[s].at = "smoke" /\ UNCHANGED <<setting, text, home, venv, mods, disturbed>>
  BY DEF Busy, Smoke
<1>2. /\ WorldShape /\ setting.runtime = "python" /\ setting.files # {}
      /\ (~disturbed => WorldTruth /\ LaunchTruth(s))
  BY <1>1, WhatItKnows DEF PlaceFits, PythonSteps
<1>3. WorldShape' /\ (~disturbed => WorldTruth')
  BY <1>1, <1>2 DEF WorldShape, WorldTruth, Usable, Tool
<1>4. CASE Goes(s, "mark")
  <2>1. prep'[s].at = "mark" /\ prep'[s].text = prep[s].text
    BY <1>4, Moves, WhatItKnows DEF PrepSteps
  <2>2. ~disturbed => LaunchTruth(s)' BY <1>1, <1>2, <2>1 DEF LaunchTruth, NodeSteps, Busy
  <2> QED BY <1>1, <1>2, <1>3, <1>4, <2>2, GoKeeps DEF PrepSteps, PlaceFits, NodeSteps
<1>5. CASE Rebuild(s)
  <2>1. ~disturbed => venv'.mark < prep[s].text /\ prep[s].text <= text
    BY <1>1, <1>2 DEF LaunchTruth, Busy
  <2> QED BY <1>1, <1>2, <1>3, <1>5, <2>1, RebuildKeeps
<1> QED BY <1>4, <1>5 DEF Smoke

\* The marker is written: what was read, while the packages are that or newer.
LEMMA MarkKeepsDeps == ASSUME DepInv, NEW s \in Launches, Mark(s) PROVE DepInv'
<1>1. /\ Busy(s) /\ prep[s].at = "mark" /\ UNCHANGED <<setting, text, home, mods, disturbed>>
  BY DEF Busy, Mark
<1>2. /\ WorldShape /\ setting.runtime = "python" /\ setting.files # {}
      /\ prep \in [Launches -> PrepRec] /\ prep[s].text \in Nat
      /\ (~disturbed => WorldTruth /\ LaunchTruth(s))
  BY <1>1, WhatItKnows DEF PlaceFits, PythonSteps
<1>3. ~disturbed => prep[s].text <= venv.has /\ venv.has <= text /\ prep[s].text <= text
                    /\ venv.mark < prep[s].text
  BY <1>1, <1>2 DEF LaunchTruth, Busy
<1>4. /\ venv' \in VenvRec /\ venv'.there = venv.there /\ venv'.home = venv.home
      /\ venv'.py = venv.py /\ venv'.pip = venv.pip /\ venv'.has = venv.has
      /\ venv' = venv \/ (venv.there /\ venv'.mark = prep[s].text)
  <2>1. CASE venv' = venv BY <1>2, <2>1 DEF WorldShape
  <2>2. CASE venv.there /\ venv' = [venv EXCEPT !.mark = prep[s].text]
    <3>1. prep[s].text \in Texts BY <1>2 DEF PrepRec
    <3> QED BY <1>2, <2>2, <3>1 DEF WorldShape, VenvRec
  <2> QED BY <2>1, <2>2 DEF Mark
<1>5. WorldShape' BY <1>1, <1>2, <1>4 DEF WorldShape
<1>6. ~disturbed => WorldTruth'
  <2>1. CASE venv' = venv BY <1>1, <1>2, <2>1 DEF WorldTruth, Usable, Tool
  <2>2. CASE venv'.mark = prep[s].text
    BY <1>1, <1>2, <1>3, <1>4, <2>2, WorldNumbers DEF WorldTruth
  <2> QED BY <1>4, <2>1, <2>2
<1> DEFINE place == IF Governing = "uv.lock" THEN "finish" ELSE "check"
<1>7. Goes(s, place) /\ place \in PrepSteps BY DEF Mark, PrepSteps
<1>8. prep'[s].at = place /\ prep'[s].text = prep[s].text BY <1>2, <1>7, Moves
<1>9. ~disturbed => LaunchTruth(s)'
  BY <1>1, <1>2, <1>3, <1>4, <1>8 DEF LaunchTruth, NodeSteps
<1>10. PlaceFits(place) BY <1>2 DEF PlaceFits, NodeSteps
<1> QED BY <1>1, <1>5, <1>6, <1>7, <1>9, <1>10, GoKeeps

\* The interpreter is looked for, and the launch goes on to the process.
LEMMA LastKeeps ==
  ASSUME DepInv, NEW s \in Launches, CheckInterpreter(s) \/ Finish(s) PROVE DepInv'
<1>1. /\ Busy(s) /\ UNCHANGED <<setting, text, home, venv, mods, disturbed>>
  BY DEF Busy, CheckInterpreter, Finish
<1>2. WorldShape /\ (~disturbed => WorldTruth /\ LaunchTruth(s)) BY WhatItKnows
<1>3. WorldShape' /\ (~disturbed => WorldTruth')
  BY <1>1, <1>2 DEF WorldShape, WorldTruth, Usable, Tool
<1>4. CASE Ends(s) BY <1>1, <1>3, <1>4, EndKeeps
<1>5. CASE prep[s].at = "check" /\ Goes(s, "finish")
  <2>1. prep'[s].at = "finish" /\ prep'[s].text = prep[s].text
    BY <1>5, Moves, WhatItKnows DEF PrepSteps
  <2>2. setting.runtime = "python" BY <1>5, WhatItKnows DEF PlaceFits, PythonSteps
  <2>3. ~disturbed => LaunchTruth(s)'
    BY <1>1, <1>2, <1>5, <2>1, <2>2 DEF LaunchTruth, NodeSteps, Busy
  <2> QED BY <1>1, <1>3, <1>5, <2>3, GoKeeps DEF PrepSteps, PlaceFits, PythonSteps, NodeSteps
<1> QED BY <1>4, <1>5 DEF CheckInterpreter, Finish, GoesIf

\* The installation of node_modules: its marker names no content, and is set
\* when there is one.
LEMMA NodeKeeps ==
  ASSUME DepInv, NEW s \in Launches, Unlink(s) \/ NodeInstall(s) \/ MarkNode(s) PROVE DepInv'
<1>1. /\ Busy(s) /\ prep[s].at \in NodeSteps /\ UNCHANGED <<setting, text, home, venv, disturbed>>
  BY DEF Busy, NodeSteps, Unlink, NodeInstall, MarkNode
<1>2. /\ WorldShape /\ setting.runtime = "nodejs" /\ mods \in ModsRec /\ mods.mark \in BOOLEAN
      /\ (~disturbed => WorldTruth /\ LaunchTruth(s))
  BY <1>1, WhatItKnows DEF PlaceFits, WorldShape, ModsRec
<1>3. ASSUME mods' \in ModsRec PROVE WorldShape' BY <1>1, <1>2, <1>3 DEF WorldShape
<1>4. ASSUME ~disturbed, mods'.mark => mods'.has # 0 PROVE WorldTruth'
  BY <1>1, <1>2, <1>4 DEF WorldTruth, Usable, Tool
<1>5. ~disturbed => ~mods.mark /\ (prep[s].at = "nodemark" => mods.has # 0) /\ prep[s].text <= text
  BY <1>1, <1>2 DEF LaunchTruth, Busy, NodeSteps
<1>6. ASSUME mods' \in ModsRec, ~disturbed => ~mods'.mark, Ends(s) PROVE DepInv'
  BY <1>1, <1>3, <1>4, <1>6, EndKeeps
<1>7. ASSUME NEW place \in {"node", "nodemark", "finish"}, Goes(s, place), mods' \in ModsRec,
             ~disturbed => (mods'.mark => mods'.has # 0),
             ~disturbed /\ place # "finish" => ~mods'.mark,
             ~disturbed /\ place # "node" => mods'.has # 0
      PROVE  DepInv'
  <2>1. prep'[s].at = place /\ prep'[s].text = prep[s].text
    BY <1>7, Moves, WhatItKnows DEF PrepSteps
  <2>2. ~disturbed => LaunchTruth(s)' BY <1>1, <1>2, <1>5, <1>7, <2>1 DEF LaunchTruth, NodeSteps
  <2> QED BY <1>1, <1>2, <1>3, <1>4, <1>7, <2>2, GoKeeps DEF PrepSteps, PlaceFits, PythonSteps
<1>8. CASE Unlink(s)
  <2>2. mods' = mods \/ mods' = [at |-> "none", has |-> 0, mark |-> FALSE]
    BY <1>8 DEF Unlink, NoMods
  <2>3. CASE mods' = mods BY <1>2, <1>5, <1>6, <1>7, <1>8, <2>3 DEF Unlink, GoesIf
  <2>4. CASE mods' = [at |-> "none", has |-> 0, mark |-> FALSE]
    <3>1. mods' \in ModsRec /\ ~mods'.mark BY <1>2, <2>4, WorldNumbers DEF ModsRec
    <3> QED BY <1>6, <1>7, <1>8, <3>1 DEF Unlink, GoesIf
  <2> QED BY <2>2, <2>3, <2>4
<1>9. CASE NodeInstall(s)
  <2>1. CASE /\ mods' \in [at : {IF mods.at = "none" THEN "dir" ELSE mods.at}, has : {text}, mark : {FALSE, mods.mark}]
             /\ Goes(s, "nodemark")
    <3>1. mods' \in ModsRec /\ (mods.mark \/ ~mods'.mark) /\ mods'.has = text
      BY <1>2, <2>1, WorldNumbers DEF ModsRec
    <3> QED BY <1>2, <1>5, <1>7, <2>1, <3>1, WorldNumbers
  <2>2. CASE /\ mods' \in {mods} \cup [at : {mods.at, "dir"}, has : {0}, mark : {FALSE, mods.mark}]
             /\ Ends(s)
    <3>1. mods' \in ModsRec /\ (mods.mark \/ ~mods'.mark)
      BY <1>2, <2>2, WorldNumbers DEF ModsRec
    <3> QED BY <1>5, <1>6, <2>2, <3>1
  <2> QED BY <1>9, <2>1, <2>2 DEF NodeInstall
<1>10. CASE MarkNode(s)
  <2>1. CASE mods.at # "none" /\ mods' = [mods EXCEPT !.mark = TRUE] /\ Goes(s, "finish")
    <3>1. mods' \in ModsRec /\ mods'.has = mods.has BY <1>2, <2>1 DEF ModsRec
    <3> QED BY <1>5, <1>7, <1>10, <2>1, <3>1 DEF MarkNode
  <2>2. CASE Ends(s) /\ UNCHANGED mods BY <1>2, <1>5, <1>6, <2>2
  <2> QED BY <1>10, <2>1, <2>2 DEF MarkNode
<1> QED BY <1>8, <1>9, <1>10

\* What happens around the launches.
LEMMA AroundKeeps ==
  ASSUME DepInv, Edit \/ Revert \/ Move \/ Purge \/ Quit PROVE DepInv'
<1>1. /\ WorldShape /\ prep \in [Launches -> PrepRec] /\ disturbed \in BOOLEAN
      /\ setting.runtime \in {"python", "nodejs"} /\ DepShape
  BY RuntimeIs DEF DepInv, DepShape, DepTypeOK, WorldShape
<1>2. ~disturbed => DepTruth BY DEF DepInv
<1>3. \A s \in Launches : prep[s].text \in Nat BY WhatItKnows
<1>4. CASE Edit
  <2>1. UNCHANGED <<setting, home, venv, mods, prep, disturbed>> /\ text' = text + 1 /\ text < MaxText
    BY <1>4 DEF Edit
  <2>2. text' \in Texts \ {0} BY <1>1, <2>1, DependencyAssumption DEF WorldShape, Texts
  <2>3. DepShape' BY <1>1, <2>1, <2>2 DEF DepShape, DepTypeOK, Busy
  <2>4. ASSUME ~disturbed PROVE DepTruth'
    <3>1. WorldTruth'
      BY <1>1, <1>2, <2>1, <2>4, WorldNumbers DEF DepTruth, WorldTruth, Usable, Tool
    <3>2. ASSUME NEW s \in Launches PROVE LaunchTruth(s)'
      BY <1>1, <1>2, <1>3, <2>1, <2>4, WorldNumbers DEF DepTruth, LaunchTruth, Usable, Tool, Busy
    <3> QED BY <1>2, <2>1, <2>4, <3>1, <3>2 DEF DepTruth, Busy
  <2> QED BY <2>1, <2>3, <2>4 DEF DepInv
<1>5. CASE Revert
  <2>1. text' \in Texts \ {0} BY <1>1, <1>5, DependencyAssumption DEF Revert, WorldShape, Texts
  <2>2. DepShape' BY <1>1, <1>5, <2>1 DEF Revert, DepShape, DepTypeOK, Busy
  <2> QED BY <1>5, <2>2 DEF Revert, DepInv
<1>6. CASE Move
  <2>1. UNCHANGED <<setting, text, venv, mods, prep, disturbed>> /\ home' = home + 1 /\ home < MaxMoves
    BY <1>6 DEF Move
  <2>2. home' \in 1 .. MaxMoves /\ venv.home <= home' /\ venv.home # home'
    BY <1>1, <2>1, WorldNumbers, DependencyAssumption DEF WorldShape
  <2>3. DepShape' BY <1>1, <2>1, <2>2 DEF DepShape, DepTypeOK, Busy
  <2>4. ~Usable' BY <2>1, <2>2 DEF Usable
  <2>5. ASSUME ~disturbed PROVE DepTruth'
    <3>1. WorldTruth' BY <1>2, <2>1, <2>4, <2>5 DEF DepTruth, WorldTruth
    <3>2. ASSUME NEW s \in Launches PROVE LaunchTruth(s)'
      BY <1>2, <2>1, <2>4, <2>5 DEF DepTruth, LaunchTruth, Busy
    <3> QED BY <1>2, <2>1, <2>5, <3>1, <3>2 DEF DepTruth, Busy
  <2> QED BY <2>1, <2>3, <2>5 DEF DepInv
<1>7. CASE Purge
  <2>1. venv' \in VenvRec /\ venv'.home <= home /\ (venv'.py \/ venv'.pip \/ venv'.mark # 0 => venv'.there)
    <3>1. CASE venv' = NoVenv
      BY <1>1, <3>1, WorldNumbers, DependencyAssumption DEF NoVenv, VenvRec
    <3>2. CASE venv' \in Remains(venv) BY <1>1, <3>2, RemainsOf, WorldNumbers DEF WorldShape
    <3> QED BY <1>7, <3>1, <3>2 DEF Purge
  <2>2. mods' \in ModsRec /\ (~disturbed' /\ (mods.mark => mods.has # 0) => (mods'.mark => mods'.has # 0))
    <3>1. mods \in ModsRec /\ mods' \in ModRemains(mods) /\ (~disturbed' => ~ (mods'.mark /\ mods'.has = 0))
      BY <1>1, <1>7 DEF Purge, WorldShape
    <3>2. mods' \in ModsRec
      <4>1. NoMods \in ModsRec BY <1>1, WorldNumbers DEF NoMods, ModsRec
      <4>2. mods.mark \in BOOLEAN /\ 0 \in Texts BY <3>1, <1>1, WorldNumbers DEF ModsRec
      <4>3. [at : {"dir"}, has : {0}, mark : {FALSE, mods.mark}] \subseteq ModsRec BY <4>2 DEF ModsRec
      <4> QED BY <3>1, <4>1, <4>3 DEF ModRemains
    <3> QED BY <3>1, <3>2
  <2>3. disturbed' \in BOOLEAN /\ UNCHANGED <<setting, text, home, prep>>
    BY <1>1, <1>7 DEF Purge
  <2>4. DepShape' BY <1>1, <2>1, <2>2, <2>3 DEF DepShape, DepTypeOK, Busy
  <2>5. ASSUME ~disturbed' PROVE DepTruth'
    <3>1. ~disturbed /\ venv' = NoVenv /\ \A s \in Launches : prep'[s].at = "idle"
      BY <1>7, <2>3, <2>5 DEF Purge, Busy
    <3>2. WorldTruth'
      BY <1>1, <1>2, <2>2, <2>3, <2>5, <3>1, WorldNumbers DEF DepTruth, WorldTruth, NoVenv
    <3>3. \A s \in Launches : LaunchTruth(s)' BY <3>1 DEF LaunchTruth, Busy, NodeSteps
    <3> QED BY <3>1, <3>2, <3>3 DEF DepTruth, Busy
  <2> QED BY <2>4, <2>5 DEF DepInv
<1>8. CASE Quit
  <2> DEFINE VenvFits == /\ venv' \in VenvRec /\ venv'.home <= home
                         /\ (venv'.py \/ venv'.pip \/ venv'.mark # 0 => venv'.there)
             VenvTrue == /\ venv'.mark <= text /\ (venv'.mark # 0 => venv'.has <= text)
                         /\ (Usable' /\ venv'.has < venv'.mark => venv'.mark < text)
  <2>1. UNCHANGED <<setting, text, home, disturbed>> /\ prep' = [s \in Launches |-> NotYet]
    BY <1>8 DEF Quit
  <2>2. prep' \in [Launches -> PrepRec] /\ \A s \in Launches : prep'[s].at = "idle"
    <3>1. NotYet \in PrepRec BY <1>1, WorldNumbers DEF NotYet, PrepRec, PrepSteps
    <3> QED BY <2>1, <3>1 DEF NotYet
  <2>3. VenvFits /\ (~disturbed => VenvTrue)
    <3>1. CASE venv' = venv
      BY <1>1, <1>2, <2>1, <3>1 DEF WorldShape, DepTruth, WorldTruth, Usable, Tool
    <3>2. ASSUME NEW s \in Launches, prep[s].at = "clear", venv' \in Remains(venv)
          PROVE  VenvFits /\ (~disturbed => VenvTrue)
      <4>1. /\ venv' \in VenvRec /\ venv'.there = venv.there /\ venv'.pip = venv.pip
            /\ venv'.home = venv.home /\ venv'.has = 0 /\ venv'.mark \in {0, venv.mark}
            /\ (venv'.py => venv.py)
        BY <1>1, <3>2, RemainsOf DEF WorldShape
      <4>2. VenvFits BY <1>1, <4>1 DEF WorldShape
      <4>3. ASSUME ~disturbed PROVE VenvTrue
        <5>1. WorldTruth /\ LaunchTruth(s) BY <1>2, <4>3 DEF DepTruth
        <5>2. (Usable' => Usable) /\ (Usable => venv.mark < prep[s].text) /\ prep[s].text <= text
          BY <2>1, <3>2, <4>1, <5>1 DEF Usable, Tool, LaunchTruth, Busy
        <5> QED BY <1>1, <1>3, <4>1, <5>1, <5>2, WorldNumbers DEF WorldTruth
      <4> QED BY <4>2, <4>3
    <3>3. CASE venv' \in HalfMade
      BY <1>1, <3>3, HalfMadeOf, WorldNumbers
    <3>4. ASSUME NEW s \in Launches, prep[s].at \in {"sync", "install"}, venv' = [venv EXCEPT !.has = 0]
          PROVE  VenvFits /\ (~disturbed => VenvTrue)
      <4>1. /\ venv' \in VenvRec /\ venv'.there = venv.there /\ venv'.home = venv.home
            /\ venv'.py = venv.py /\ venv'.pip = venv.pip
            /\ venv'.mark = venv.mark /\ venv'.has = 0
        BY <1>1, <3>4, WorldNumbers DEF WorldShape, VenvRec
      <4>2. VenvFits BY <1>1, <4>1 DEF WorldShape
      <4>3. ASSUME ~disturbed PROVE VenvTrue
        <5>1. WorldTruth /\ LaunchTruth(s) BY <1>2, <4>3 DEF DepTruth
        <5>2. venv.mark < prep[s].text /\ prep[s].text <= text
          BY <3>4, <5>1 DEF LaunchTruth, Busy
        <5> QED BY <1>1, <1>3, <4>1, <5>1, <5>2, WorldNumbers DEF WorldTruth
      <4> QED BY <4>2, <4>3
    <3> HIDE DEF VenvFits, VenvTrue
    <3> QED BY <1>8, <3>1, <3>2, <3>3, <3>4 DEF Quit
  <2>4. mods' \in ModsRec /\ (~disturbed /\ setting.runtime = "nodejs" /\ mods'.mark => mods'.has # 0)
    <3>1. CASE mods' = mods BY <1>1, <1>2, <3>1 DEF WorldShape, DepTruth, WorldTruth
    <3>2. ASSUME NEW s \in Launches, prep[s].at = "node", mods' = [mods EXCEPT !.at = "dir", !.has = 0]
          PROVE  mods' \in ModsRec /\ (~disturbed => ~mods'.mark)
      <4>1. mods' \in ModsRec /\ mods'.mark = mods.mark
        BY <1>1, <3>2, WorldNumbers DEF WorldShape, ModsRec
      <4> QED BY <1>2, <3>2, <4>1 DEF DepTruth, LaunchTruth, NodeSteps
    <3> QED BY <1>8, <3>1, <3>2 DEF Quit
  <2>5. DepShape' BY <1>1, <2>1, <2>2, <2>3, <2>4 DEF DepShape, DepTypeOK, Busy, PythonSteps, NodeSteps
  <2>6. ASSUME ~disturbed PROVE DepTruth'
    <3>1. WorldTruth' BY <2>1, <2>3, <2>4, <2>6 DEF WorldTruth
    <3>2. \A s \in Launches : LaunchTruth(s)' BY <2>2 DEF LaunchTruth, Busy, NodeSteps
    <3> QED BY <2>2, <3>1, <3>2 DEF DepTruth, Busy
  <2> QED BY <2>1, <2>5, <2>6 DEF DepInv
<1> QED BY <1>4, <1>5, <1>6, <1>7, <1>8

-----------------------------------------------------------------------------
\* The invariant of the preparation, kept by every step.
LEMMA DepInvInductive == DepInv /\ [DepNext]_depVars => DepInv'
<1> SUFFICES ASSUME DepInv, [DepNext]_depVars PROVE DepInv'
  OBVIOUS
<1>1. CASE UNCHANGED depVars
  BY <1>1 DEF depVars, DepInv, DepShape, DepTypeOK, DepTruth, WorldTruth, LaunchTruth, Usable, Tool, Busy
<1>2. ASSUME NEW s \in Launches, Prepare(s) PROVE DepInv'
  BY <1>2, ClearKeeps, MakeKeeps, LookKeepsDeps, InstallKeeps, SmokeKeeps, MarkKeepsDeps, LastKeeps,
     NodeKeeps
  DEF Prepare
<1> QED BY <1>1, <1>2, ReadKeeps, AroundKeeps DEF DepNext

\* Before the first launch nothing is installed and no marker is set.
LEMMA DepInvInitially == DepInit => DepInv
<1> SUFFICES ASSUME DepInit PROVE DepInv
  OBVIOUS
<1> USE DependencyAssumption DEF DepInit
<1>1. PICK place \in {"none", "link"} : mods = [at |-> place, has |-> 0, mark |-> FALSE]
  BY DEF NoMods
<1>2. mods \in ModsRec /\ mods.has = 0 /\ ~mods.mark
  BY <1>1 DEF ModsRec, Texts
<1>3. venv \in VenvRec /\ venv.mark = 0 /\ venv.has = 0 /\ venv.home <= home /\ ~venv.py /\ ~venv.pip
  BY DEF NoVenv, VenvRec, Texts
<1>4. NotYet \in PrepRec /\ NotYet.at = "idle" BY DEF NotYet, PrepRec, PrepSteps, Texts
<1>5. prep \in [Launches -> PrepRec] /\ \A s \in Launches : prep[s].at = "idle" BY <1>4
<1>6. DepShape
  <2>1. text \in Texts \ {0} /\ home \in 1 .. MaxMoves BY DEF Texts
  <2>2. setting \in Settings /\ disturbed = FALSE OBVIOUS
  <2> HIDE DEF DepInit
  <2>3. DepTypeOK BY <1>2, <1>3, <1>5, <2>1, <2>2 DEF DepTypeOK
  <2> QED BY <1>3, <1>5, <2>3 DEF DepShape, Busy, PythonSteps, NodeSteps
<1>7. DepTruth
  BY <1>2, <1>3, <1>5 DEF DepTruth, WorldTruth, LaunchTruth, Usable, Busy, NodeSteps
<1> QED BY <1>6, <1>7 DEF DepInv

\* The invariant holds in every reachable state.
THEOREM DepInvCorrect == DepSpec => []DepInv
  BY DepInvInitially, DepInvInductive, PTL DEF DepSpec

\* A marker is never a lie: where the marker of a usable venv names what the
\* dependency files say, these packages are installed.
THEOREM MarkersAreTrue == DepSpec => []SkipIsSound
<1>1. DepInv => SkipIsSound
  <2> SUFFICES ASSUME DepInv PROVE SkipIsSound
    OBVIOUS
  <2>1. WorldShape BY DEF DepInv, DepShape, DepTypeOK, WorldShape
  <2>2. ~disturbed => WorldTruth BY DEF DepInv, DepTruth
  <2> QED BY <2>1, <2>2, WorldNumbers DEF WorldTruth, SkipIsSound
<1> QED BY <1>1, DepInvCorrect, PTL

\* A launch that goes on to the process has the packages it read about, or
\* newer ones, whichever way it got there.
THEOREM PackagesAreThere == DepSpec => []LaunchesAreProvided
<1>1. DepInv => LaunchesAreProvided
  <2> SUFFICES ASSUME DepInv, NEW s \in Launches, prep[s].at = "finish", ~disturbed
               PROVE  IF setting.runtime = "python"
                        THEN setting.files # {} => venv.has >= prep[s].text
                        ELSE "package.json" \in setting.files => mods.has # 0
    BY DEF LaunchesAreProvided
  <2>1. LaunchTruth(s) BY DEF DepInv, DepTruth
  <2>2. WorldShape /\ prep[s].text \in Nat /\ setting.runtime \in {"python", "nodejs"} BY WhatItKnows
  <2> QED BY <2>1, <2>2, WorldNumbers DEF LaunchTruth
<1> QED BY <1>1, DepInvCorrect, PTL

\* A launch moves nobody but itself.
LEMMA OthersStay ==
  ASSUME prep \in [Launches -> PrepRec], NEW o \in Launches, Read(o) \/ Prepare(o),
         NEW s \in Launches \ {o}
  PROVE  prep'[s] = prep[s]
<1> USE DEF Goes, Ends, GoesIf
<1>1. CASE Read(o) BY <1>1 DEF Read
<1>2. CASE Clear(o) \/ MakeVenv(o) \/ MakePlainVenv(o) \/ AddPip(o)
  BY <1>2 DEF Clear, MakeVenv, MakePlainVenv, AddPip
<1>3. CASE LookAtMarker(o) BY <1>3 DEF LookAtMarker, Onward
<1>4. CASE Sync(o) \/ Install(o) \/ Smoke(o) BY <1>4 DEF Sync, Install, Smoke, Rebuild
<1>5. CASE Mark(o) \/ CheckInterpreter(o) \/ Finish(o) BY <1>5 DEF Mark, CheckInterpreter, Finish
<1>6. CASE Unlink(o) \/ NodeInstall(o) \/ MarkNode(o) BY <1>6 DEF Unlink, NodeInstall, MarkNode
<1> QED BY <1>1, <1>2, <1>3, <1>4, <1>5, <1>6 DEF Prepare

\* Where the progress display was told that nothing is needed, the preparation
\* that follows installs nothing: the two questions agree.
THEOREM NothingNeededNothingDone == DepSpec => QuietLaunches
<1> DEFINE Quiet(s) ==
      IF setting.runtime = "python"
        THEN ~NeedsVenv /\ prep[s].text = text /\ prep[s].at = "look"
               => prep'[s].at \notin {"clear", "sync", "install"}
        ELSE ~NeedsNodeInstall /\ ~Busy(s) => prep'[s].at # "link"
<1>1. DepInv /\ [DepNext]_depVars => [\A s \in Launches : Quiet(s)]_depVars
  <2> SUFFICES ASSUME DepInv, DepNext, NEW s \in Launches PROVE Quiet(s)
    OBVIOUS
  <2>1. prep \in [Launches -> PrepRec] BY WhatItKnows
  <2>2. CASE prep'[s] = prep[s] BY <2>2 DEF Busy
  <2>3. CASE Edit \/ Revert \/ Move \/ Purge BY <2>2, <2>3 DEF Edit, Revert, Move, Purge
  <2>4. CASE Quit BY <2>4 DEF Quit, NotYet
  <2>5. CASE Read(s)
    <3>1. ~Busy(s) /\ (prep'[s].at \in {"look", "clear", "finish"} \/ NeedsNodeInstall)
      BY <2>1, <2>5 DEF Read
    <3> QED BY <2>5, <3>1 DEF Read, Busy
  <2>6. CASE Prepare(s)
    <3>1. Busy(s)
      BY <2>6 DEF Prepare, Busy, Clear, MakeVenv, MakePlainVenv, AddPip, LookAtMarker, Sync, Install,
                  Smoke, Mark, CheckInterpreter, Finish, Unlink, NodeInstall, MarkNode
    <3>2. prep[s].at = "look" => LookAtMarker(s)
      BY <2>6 DEF Prepare, Clear, MakeVenv, MakePlainVenv, AddPip, LookAtMarker, Sync, Install,
                  Smoke, Mark, CheckInterpreter, Finish, Unlink, NodeInstall, MarkNode
    <3>3. ASSUME ~NeedsVenv, prep[s].text = text, LookAtMarker(s)
          PROVE  prep'[s].at \in {"check", "finish"}
      <4>1. venv.py BY <3>3 DEF NeedsVenv, Usable
      <4>2. CASE setting.files = {}
        <5>1. Goes(s, "check") BY <3>3, <4>2 DEF LookAtMarker, Onward
        <5> QED BY <2>1, <5>1, Moves DEF PrepSteps
      <4>3. CASE setting.files # {}
        <5>1. venv.mark = text BY <3>3, <4>3 DEF NeedsVenv
        <5>2. Goes(s, "finish") BY <3>3, <4>1, <4>3, <5>1 DEF LookAtMarker, Onward
        <5> QED BY <2>1, <5>2, Moves DEF PrepSteps
      <4> QED BY <4>2, <4>3
    <3> QED BY <3>1, <3>2, <3>3
  <2>7. ASSUME NEW o \in Launches \ {s}, Read(o) \/ Prepare(o) PROVE Quiet(s)
    BY <2>1, <2>2, <2>7, OthersStay
  <2> QED BY <2>3, <2>4, <2>5, <2>6, <2>7 DEF DepNext
<1> QED BY <1>1, DepInvCorrect, PTL DEF DepSpec, QuietLaunches

-----------------------------------------------------------------------------
\* Both halves of the runner keep to their types, whichever moves.
THEOREM RunnerTypeCorrect == RunnerSpec => []RunnerTypeOK
<1> DEFINE Inv == ProcessTypeOK /\ DepInv
<1>1. RunnerInit => Inv
  <2>1. ProcessInit => ProcessTypeOK
    BY ProcessAssumption DEF ProcessInit, ProcessTypeOK, Steps, Someone, NoOne
  <2> QED BY <2>1, DepInvInitially DEF RunnerInit
<1>2. Inv /\ [RunnerNext]_RunnerVars => Inv'
  <2> SUFFICES ASSUME Inv, [RunnerNext]_RunnerVars PROVE Inv'
    OBVIOUS
  <2>1. [ProcessNext]_processVars /\ [DepNext]_depVars
    BY DEF RunnerNext, RunnerVars, processVars, depVars
  <2> QED BY <2>1, ProcessTypeInductive, DepInvInductive
<1>3. Inv => RunnerTypeOK BY DEF RunnerTypeOK, DepInv, DepShape
<1> QED BY <1>1, <1>2, <1>3, PTL DEF RunnerSpec
=============================================================================
