----------------------------- MODULE Desktop_proofs -----------------------------
(***************************************************************************)
(* Proofs about the update of the application and about one-off runs, for  *)
(* any number of clicks and releases, whatever the setups carry, and for   *)
(* any pipe and any output.                                                *)
(***************************************************************************)
EXTENDS MCDesktop, PluginStart_proofs

-----------------------------------------------------------------------------
(* The update                                                              *)

Fetches(c) == click[c].at \in {"fetching", "written", "verified"}

\* An update that a click has begun and that is not over.
Active(c) == Fetches(c) \/ upd[c] # NoUpd \/ setup[c] # NoSetup

\* A click, its updater and its setup name a release from when they have one,
\* and the click is over when the updater begins.
Fits(c) ==
  /\ Fetches(c) => click[c].release \in Builds
  /\ click[c].at = "written" => click[c].bytes # "none"
  /\ upd[c].at # "none" => upd[c].release \in Builds
  /\ setup[c].at # "none" => setup[c].release \in Builds
  /\ upd[c].at = "none" => upd[c] = NoUpd
  /\ setup[c].at = "none" => setup[c] = NoSetup
  /\ click[c].at # "idle" => upd[c] = NoUpd /\ setup[c] = NoSetup
  /\ upd[c].at = "running" => setup[c].at # "none" /\ setup[c].release = upd[c].release

UpdateShape == UpdateTypeOK /\ \A c \in Clicks : Fits(c)

OneAtATime == \A c, d \in Clicks : Active(c) /\ Active(d) => c = d

\* A torn application cannot be started, so there is nobody to begin an update
\* over it.
MainWhole ==
  disk["main"] \in Builds \/ (running = 0 /\ \A c \in Clicks : ~ Active(c))

\* From the bytes that were looked at, over the file, to the process and what
\* it has written.
Chain(c) ==
  /\ click[c].at = "written" => temp[click[c].release] = click[c].bytes
  /\ click[c].at = "verified" /\ hashed => temp[click[c].release] = "good"
  /\ upd[c].at \in {"waiting", "ready"} /\ hashed => temp[upd[c].release] = "good"
  /\ setup[c].at # "none" =>
       /\ upd[c].at = "running"
       /\ hashed => setup[c].bytes = "good"
       /\ \A x \in payload[setup[c].release] \ setup[c].todo : disk[x] = setup[c].release
  /\ upd[c].at = "won" => \A x \in payload[upd[c].release] : disk[x] = upd[c].release

UpdateTruth == OneAtATime /\ MainWhole /\ \A c \in Clicks : Chain(c)

UpdateInv == UpdateShape /\ (~ overlapped => UpdateTruth)

\* What the names of the releases are good for.
LEMMA ReleaseFacts ==
  /\ MaxRelease \in Nat /\ 1 \in Builds /\ Torn \in 0 .. Torn /\ Torn \notin Builds
  /\ 0 \in 0 .. MaxRelease /\ 0 \notin Builds /\ Builds \subseteq 0 .. MaxRelease
  /\ 0 .. MaxRelease \subseteq 0 .. Torn
  /\ NoClick \in ClickRec /\ NoUpd \in UpdRec /\ NoSetup \in SetupRec
<1>1. MaxRelease \in Nat \ {0} BY UpdateAssumption
<1>2. {} \in SUBSET Files OBVIOUS
<1>3. NoClick \in ClickRec BY <1>1 DEF NoClick, ClickRec, Bytes
<1>4. NoUpd \in UpdRec BY <1>1 DEF NoUpd, UpdRec
<1>5. NoSetup \in SetupRec BY <1>1, <1>2 DEF NoSetup, SetupRec, Bytes
<1> QED BY <1>1, <1>3, <1>4, <1>5 DEF Builds, Torn

\* What a setup carries are files of the install directory.
LEMMA PayloadFiles ==
  ASSUME UpdateTypeOK, NEW r \in Builds PROVE payload[r] \subseteq Files
  BY UpdateAssumption DEF UpdateTypeOK, Builds, Files

\* At the start nothing is under way.
LEMMA UpdateInitially == UpdateInit => UpdateInv
<1> SUFFICES ASSUME UpdateInit PROVE UpdateInv
  OBVIOUS
<1>1. UpdateTypeOK BY ReleaseFacts DEF UpdateInit, UpdateTypeOK, NoClick, NoUpd, Bytes
<1>2. \A c \in Clicks : Fits(c)
  BY DEF UpdateInit, Fits, Fetches, NoClick, NoUpd, NoSetup
<1>3. UpdateTruth
  BY ReleaseFacts
  DEF UpdateInit, UpdateTruth, OneAtATime, MainWhole, Chain, Active, Fetches, NoClick, NoUpd, NoSetup, Files
<1> QED BY <1>1, <1>2, <1>3 DEF UpdateInv, UpdateShape

\* While updates do not overlap, what the one under way does is all there is.
LEMMA FirstKeeps ==
  ASSUME UpdateInv, UpdateTypeOK', NEW c \in Clicks, Active(c), UNCHANGED overlapped,
         \A d \in Clicks \ {c} : Fits(d)' /\ (Active(d)' => Active(d)),
         Fits(c)',
         ~ overlapped /\ Chain(c) /\ MainWhole =>
           Chain(c)' /\ (disk'["main"] \in Builds \/ (running' = 0 /\ ~ Active(c)'))
  PROVE  UpdateInv'
<1>1. \A d \in Clicks : Fits(d)' OBVIOUS
<1>2. ASSUME ~ overlapped PROVE UpdateTruth'
  <2>1. UpdateTruth BY <1>2 DEF UpdateInv
  <2>2. \A d \in Clicks \ {c} : ~ Active(d) BY <2>1 DEF UpdateTruth, OneAtATime
  <2>3. \A d \in Clicks \ {c} : ~ Active(d)' BY <2>2
  <2>4. \A d \in Clicks \ {c} : Chain(d)'
    BY <2>3 DEF Chain, Active, Fetches, NoUpd, NoSetup
  <2>5. Chain(c)' /\ (disk'["main"] \in Builds \/ (running' = 0 /\ ~ Active(c)'))
    BY <1>2, <2>1 DEF UpdateTruth
  <2> QED BY <2>3, <2>4, <2>5 DEF UpdateTruth, OneAtATime, MainWhole
<1> QED BY <1>1, <1>2 DEF UpdateInv, UpdateShape
LEMMA AloneKeeps ==
  ASSUME UpdateInv, UpdateTypeOK', NEW c \in Clicks, Active(c), UNCHANGED overlapped,
         \A d \in Clicks \ {c} : click'[d] = click[d] /\ upd'[d] = upd[d] /\ setup'[d] = setup[d],
         Fits(c)',
         ~ overlapped /\ Chain(c) /\ MainWhole =>
           Chain(c)' /\ (disk'["main"] \in Builds \/ (running' = 0 /\ ~ Active(c)'))
  PROVE  UpdateInv'
<1>1. \A d \in Clicks \ {c} : Fits(d)' /\ (Active(d)' => Active(d))
  BY DEF UpdateInv, UpdateShape, Fits, Active, Fetches
<1> QED BY <1>1, FirstKeeps

\* A step that begins nothing and writes nothing.
LEMMA RestKeeps ==
  ASSUME UpdateInv, UpdateTypeOK', UNCHANGED <<payload, hashed, disk, overlapped>>,
         \A d \in Clicks : Fits(d)' /\ (Active(d)' => Active(d)) /\ (Chain(d) => Chain(d)'),
         disk["main"] \in Builds \/ running' = 0 \/ running # 0
  PROVE  UpdateInv'
<1>1. ASSUME ~ overlapped PROVE UpdateTruth'
  <2>1. UpdateTruth BY <1>1 DEF UpdateInv
  <2> QED BY <2>1 DEF UpdateTruth, OneAtATime, MainWhole
<1> QED BY <1>1 DEF UpdateInv, UpdateShape

\* What the type of the state says of one click.
LEMMA ClickFacts ==
  ASSUME UpdateInv, NEW c \in Clicks
  PROVE  /\ click \in [Clicks -> ClickRec] /\ upd \in [Clicks -> UpdRec]
         /\ setup \in [Clicks -> SetupRec]
         /\ click[c] \in ClickRec /\ upd[c] \in UpdRec /\ setup[c] \in SetupRec
         /\ temp \in [Builds -> Bytes] /\ disk \in [Files -> 0 .. Torn] /\ Fits(c) /\ UpdateTypeOK
         /\ running \in 0 .. MaxRelease
  BY DEF UpdateInv, UpdateShape, UpdateTypeOK

\* The page: the button and the answer of the feed.
LEMMA AskKeeps == ASSUME UpdateInv, NEW c \in Clicks, Ask(c) PROVE UpdateInv'
<1> USE DEF Ask
<1>1. click'[c] = [at |-> "asked", release |-> 0, bytes |-> "none"]
  BY ClickFacts DEF NoClick
<1>2. click'[c] \in ClickRec /\ click'[c].at = "asked" BY <1>1, ReleaseFacts DEF ClickRec, Bytes
<1>3. \A d \in Clicks \ {c} : click'[d] = click[d] BY ClickFacts
<1>4. click' \in [Clicks -> ClickRec] BY <1>2, ClickFacts
<1>5. UpdateTypeOK'
  <2>1. UpdateTypeOK BY ClickFacts
  <2> QED BY <2>1, <1>2, <1>3, <1>4 DEF UpdateTypeOK, worldVars, pastVars
<1>6. ASSUME NEW d \in Clicks PROVE Fits(d)' /\ (Active(d)' => Active(d)) /\ (Chain(d) => Chain(d)')
  <2>1. Fits(d) BY ClickFacts
  <2>2. CASE d = c
    BY <1>2, <2>1, <2>2 DEF Fits, Active, Chain, Fetches, NoUpd, NoSetup, worldVars
  <2>3. CASE d # c BY <1>3, <2>1, <2>3 DEF Fits, Active, Chain, Fetches, worldVars
  <2> QED BY <2>2, <2>3
<1> QED BY <1>5, <1>6, RestKeeps DEF worldVars, pastVars

LEMMA NoAnswerKeeps == ASSUME UpdateInv, NEW c \in Clicks, NoAnswer(c) PROVE UpdateInv'
<1> USE DEF NoAnswer
<1>1. click'[c] = NoClick BY ClickFacts
<1>2. \A d \in Clicks \ {c} : click'[d] = click[d] BY ClickFacts
<1>3. click' \in [Clicks -> ClickRec] BY ReleaseFacts, ClickFacts
<1>4. UpdateTypeOK'
  <2>1. UpdateTypeOK BY ClickFacts
  <2> QED BY <2>1, <1>1, <1>2, <1>3 DEF UpdateTypeOK, worldVars, pastVars, NoClick
<1>5. ASSUME NEW d \in Clicks PROVE Fits(d)' /\ (Active(d)' => Active(d)) /\ (Chain(d) => Chain(d)')
  <2>1. Fits(d) BY ClickFacts
  <2>2. CASE d = c
    BY <1>1, <2>1, <2>2 DEF Fits, Active, Chain, Fetches, NoClick, NoUpd, NoSetup, worldVars
  <2>3. CASE d # c BY <1>2, <2>1, <2>3 DEF Fits, Active, Chain, Fetches, worldVars
  <2> QED BY <2>2, <2>3
<1> QED BY <1>4, <1>5, RestKeeps DEF worldVars, pastVars

\* An update begins: alone, or that is on record.
LEMMA AnswersKeeps == ASSUME UpdateInv, NEW c \in Clicks, Answers(c) PROVE UpdateInv'
<1> USE DEF Answers, Accept
<1>1. /\ UNCHANGED <<payload, hashed, feed, disk, running, upd, setup, faulty>> /\ busy' = TRUE
      /\ click[c].at = "asked" /\ feed \in Builds
  BY ClickFacts DEF worldVars, UpdateTypeOK
<1>2. click'[c] = [at |-> "fetching", release |-> feed, bytes |-> "none"] BY ClickFacts
<1>3. click'[c] \in ClickRec /\ click'[c].at = "fetching" /\ click'[c].release = feed
  BY <1>1, <1>2, ReleaseFacts DEF ClickRec, Bytes
<1>4. (\A d \in Clicks \ {c} : click'[d] = click[d]) /\ click' \in [Clicks -> ClickRec]
  BY <1>3, ClickFacts
<1>5. temp' \in [Builds -> Bytes] BY <1>1, ClickFacts DEF Bytes
<1>6. upd[c] = NoUpd /\ setup[c] = NoSetup /\ running # 0
  BY <1>1, ClickFacts DEF Fits, UpdateTypeOK
<1>7. overlapped \in BOOLEAN /\ overlapped' \in BOOLEAN BY ClickFacts DEF UpdateTypeOK
<1>8. UpdateTypeOK'
  <2>1. UpdateTypeOK BY ClickFacts
  <2> QED BY <2>1, <1>1, <1>3, <1>4, <1>5, <1>6, <1>7 DEF UpdateTypeOK
<1>9. \A d \in Clicks : Fits(d)'
  <2>1. \A d \in Clicks : Fits(d) BY ClickFacts
  <2> QED BY <2>1, <1>1, <1>3, <1>4, <1>6 DEF Fits, Fetches
<1>10. ASSUME ~ overlapped' PROVE UpdateTruth'
  <2>1. ~ overlapped /\ \A d \in Clicks \ {c} : ~ Active(d)
    BY <1>7, <1>10 DEF Active, Fetches
  <2>2. \A d \in Clicks \ {c} : ~ Active(d)' BY <1>1, <1>4, <2>1 DEF Active, Fetches
  <2>3. \A d \in Clicks \ {c} : Chain(d)' BY <2>2 DEF Chain, Active, Fetches, NoUpd, NoSetup
  <2>4. Chain(c)' BY <1>1, <1>3, <1>6 DEF Chain, NoUpd, NoSetup
  <2>5. disk["main"] \in Builds BY <1>6, <2>1 DEF UpdateInv, UpdateTruth, MainWhole
  <2> QED BY <1>1, <2>2, <2>3, <2>4, <2>5 DEF UpdateTruth, OneAtATime, MainWhole
<1> QED BY <1>8, <1>9, <1>10 DEF UpdateInv, UpdateShape


\* A use of the button is over, however it ends.
LEMMA ClickEndsFacts ==
  ASSUME UpdateInv, NEW c \in Clicks, ClickEnds(c)
  PROVE  /\ click' \in [Clicks -> ClickRec] /\ click'[c] = NoClick /\ ~ busy' /\ busy' \in BOOLEAN
         /\ \A d \in Clicks \ {c} : click'[d] = click[d]
  BY ClickFacts, ReleaseFacts DEF ClickEnds

\* The download and the look at what was downloaded.
LEMMA FetchedKeeps == ASSUME UpdateInv, NEW c \in Clicks, Fetched(c) PROVE UpdateInv'
<1>1. /\ UNCHANGED <<payload, hashed, feed, disk, running, upd, setup, overlapped, faulty>>
      /\ click[c].at = "fetching"
  BY DEF Fetched, worldVars, pastVars
<1>2. /\ UpdateTypeOK /\ Fits(c) /\ Active(c) /\ click[c].release \in Builds
      /\ upd[c] = NoUpd /\ setup[c] = NoSetup /\ running # 0
  BY <1>1, ClickFacts DEF Fits, Active, Fetches, UpdateTypeOK
<1> DEFINE r == click[c].release
<1>3. ASSUME NEW b \in {"good", "junk"}, temp' = [temp EXCEPT ![r] = b],
             click' = [click EXCEPT ![c].at = "written", ![c].bytes = b], UNCHANGED busy
      PROVE  UpdateInv'
  <2>1. click'[c] = [click[c] EXCEPT !.at = "written", !.bytes = b] BY <1>3, ClickFacts
  <2>2. /\ click'[c] \in ClickRec /\ click'[c].at = "written" /\ click'[c].bytes = b
        /\ click'[c].release = r
    BY <2>1, ClickFacts DEF ClickRec, Bytes
  <2>3. (\A d \in Clicks \ {c} : click'[d] = click[d]) /\ click' = [click EXCEPT ![c] = click'[c]]
    BY <1>3, ClickFacts
  <2>4. click' \in [Clicks -> ClickRec] BY <2>2, <2>3, ClickFacts
  <2>5. temp' \in [Builds -> Bytes] /\ temp'[r] = b BY <1>2, <1>3, ClickFacts DEF Bytes
  <2>6. UpdateTypeOK' BY <1>1, <1>2, <1>3, <2>2, <2>3, <2>4, <2>5 DEF UpdateTypeOK
  <2>7. Fits(c)' BY <1>1, <1>2, <2>2 DEF Fits, Fetches
  <2>8. Chain(c)' BY <1>1, <1>2, <2>2, <2>5 DEF Chain, NoUpd, NoSetup
  <2> QED BY <1>1, <1>2, <2>3, <2>6, <2>7, <2>8, AloneKeeps DEF MainWhole
<1>4. ASSUME ClickEnds(c), UNCHANGED temp PROVE UpdateInv'
  <2>1. UpdateTypeOK' BY <1>1, <1>2, <1>4, ClickEndsFacts DEF UpdateTypeOK, NoClick
  <2>2. Fits(c)' BY <1>1, <1>2, <1>4, ClickEndsFacts DEF Fits, Fetches, NoClick
  <2>3. Chain(c)' BY <1>1, <1>2, <1>4, ClickEndsFacts DEF Chain, NoClick, NoUpd, NoSetup
  <2> QED BY <1>1, <1>2, <1>4, <2>1, <2>2, <2>3, ClickEndsFacts, AloneKeeps DEF MainWhole
<1> QED BY <1>3, <1>4 DEF Fetched

LEMMA VerifyKeeps == ASSUME UpdateInv, NEW c \in Clicks, Verify(c) PROVE UpdateInv'
<1>1. /\ UNCHANGED <<payload, hashed, feed, disk, running, upd, setup, overlapped, faulty>>
      /\ click[c].at = "written"
  BY DEF Verify, worldVars, pastVars
<1>2. /\ UpdateTypeOK /\ Fits(c) /\ Active(c) /\ click[c].release \in Builds
      /\ upd[c] = NoUpd /\ setup[c] = NoSetup /\ running # 0
  BY <1>1, ClickFacts DEF Fits, Active, Fetches, UpdateTypeOK
<1> DEFINE r == click[c].release
<1>3. CASE hashed /\ click[c].bytes = "junk"
  <2>1. temp' \in [Builds -> Bytes] /\ ClickEnds(c)
    BY <1>1, <1>2, <1>3, ClickFacts DEF Verify, Bytes
  <2>2. UpdateTypeOK' BY <1>1, <1>2, <2>1, ClickEndsFacts DEF UpdateTypeOK, NoClick
  <2>3. Fits(c)' BY <1>1, <1>2, <2>1, ClickEndsFacts DEF Fits, Fetches, NoClick
  <2>4. Chain(c)' BY <1>1, <1>2, <2>1, ClickEndsFacts DEF Chain, NoClick, NoUpd, NoSetup
  <2> QED BY <1>1, <1>2, <2>1, <2>2, <2>3, <2>4, ClickEndsFacts, AloneKeeps DEF MainWhole
<1>4. CASE ~ (hashed /\ click[c].bytes = "junk")
  <2>1. click' = [click EXCEPT ![c].at = "verified"] /\ UNCHANGED <<temp, busy>>
    BY <1>4 DEF Verify
  <2>2. click'[c] = [click[c] EXCEPT !.at = "verified"] BY <2>1, ClickFacts
  <2>3. click'[c] \in ClickRec /\ click'[c].at = "verified" /\ click'[c].release = r
    BY <2>2, ClickFacts DEF ClickRec
  <2>4. (\A d \in Clicks \ {c} : click'[d] = click[d]) /\ click' \in [Clicks -> ClickRec]
    BY <2>1, <2>3, ClickFacts
  <2>5. UpdateTypeOK' BY <1>1, <1>2, <2>1, <2>3, <2>4 DEF UpdateTypeOK
  <2>6. Fits(c)' BY <1>1, <1>2, <2>3 DEF Fits, Fetches
  <2>7. click[c].bytes \in {"good", "junk"} BY <1>1, ClickFacts DEF ClickRec, Bytes, Fits
  <2>8. Chain(c) => Chain(c)'
    BY <1>1, <1>2, <1>4, <2>1, <2>3, <2>7 DEF Chain, NoUpd, NoSetup
  <2> QED BY <1>1, <1>2, <2>4, <2>5, <2>6, <2>8, AloneKeeps DEF MainWhole
<1> QED BY <1>3, <1>4

\* The updater is started over the file that was looked at.
LEMMA ApplyKeeps == ASSUME UpdateInv, NEW c \in Clicks, Apply(c) PROVE UpdateInv'
<1>1. /\ UNCHANGED <<payload, hashed, feed, disk, running, temp, setup, overlapped, faulty>>
      /\ click[c].at = "verified" /\ ClickEnds(c)
  BY DEF Apply, worldVars, pastVars
<1>2. /\ UpdateTypeOK /\ Fits(c) /\ Active(c) /\ click[c].release \in Builds
      /\ upd[c] = NoUpd /\ setup[c] = NoSetup /\ running # 0
  BY <1>1, ClickFacts DEF Fits, Active, Fetches, UpdateTypeOK
<1>3. /\ click' \in [Clicks -> ClickRec] /\ click'[c] = NoClick /\ ~ busy' /\ busy' \in BOOLEAN
      /\ \A d \in Clicks \ {c} : click'[d] = click[d]
  BY <1>1, ClickEndsFacts
<1>4. CASE upd' = upd
  <2>1. UpdateTypeOK' BY <1>1, <1>2, <1>3, <1>4 DEF UpdateTypeOK, NoClick
  <2>2. Fits(c)' BY <1>1, <1>2, <1>3, <1>4 DEF Fits, Fetches, NoClick
  <2>3. Chain(c)' BY <1>1, <1>2, <1>3, <1>4 DEF Chain, NoClick, NoUpd, NoSetup
  <2> QED BY <1>1, <1>2, <1>3, <1>4, <2>1, <2>2, <2>3, AloneKeeps DEF MainWhole
<1>5. CASE upd' = [upd EXCEPT ![c] = [at |-> "waiting", release |-> click[c].release, child |-> TRUE]]
  <2>1. upd'[c] = [at |-> "waiting", release |-> click[c].release, child |-> TRUE]
    BY <1>5, ClickFacts
  <2>2. upd'[c] \in UpdRec /\ upd'[c].at = "waiting" /\ upd'[c].release = click[c].release
    <3>1. click[c].release \in 0 .. MaxRelease BY <1>2, ReleaseFacts
    <3> QED BY <2>1, <3>1 DEF UpdRec
  <2>3. (\A d \in Clicks \ {c} : upd'[d] = upd[d]) /\ upd' \in [Clicks -> UpdRec]
    BY <1>5, <2>1, <2>2, ClickFacts
  <2>4. UpdateTypeOK' BY <1>1, <1>2, <1>3, <2>3 DEF UpdateTypeOK, NoClick
  <2>5. Fits(c)' BY <1>1, <1>2, <1>3, <2>2 DEF Fits, Fetches, NoClick
  <2>6. Chain(c) => Chain(c)' BY <1>1, <1>2, <1>3, <2>2 DEF Chain, NoClick, NoSetup
  <2> QED BY <1>1, <1>2, <1>3, <2>3, <2>4, <2>5, <2>6, AloneKeeps DEF MainWhole
<1> QED BY <1>4, <1>5 DEF Apply


\* An updater goes on, or is over.
LEMMA UpdGoes ==
  ASSUME UpdateInv, NEW c \in Clicks, NEW place \in {"ready", "running", "won", "leaving", "deleting"},
         upd' = [upd EXCEPT ![c].at = place]
  PROVE  /\ upd' \in [Clicks -> UpdRec] /\ \A d \in Clicks \ {c} : upd'[d] = upd[d]
         /\ upd'[c].at = place /\ upd'[c].release = upd[c].release /\ (upd'[c].child => upd[c].child)
         /\ upd'[c] # NoUpd
<1>1. upd'[c] = [upd[c] EXCEPT !.at = place] BY ClickFacts
<1>2. /\ upd[c].release \in 0 .. MaxRelease /\ upd[c].child \in BOOLEAN
      /\ upd'[c] = [at |-> place, release |-> upd[c].release, child |-> upd[c].child]
  BY <1>1, ClickFacts DEF UpdRec
<1>3. upd'[c] \in UpdRec BY <1>2 DEF UpdRec
<1>4. upd' = [upd EXCEPT ![c] = upd'[c]] BY <1>1, ClickFacts
<1> QED BY <1>2, <1>3, <1>4, ClickFacts DEF NoUpd
LEMMA UpdOver ==
  ASSUME UpdateInv, NEW c \in Clicks, upd' = [upd EXCEPT ![c] = NoUpd]
  PROVE  /\ upd' \in [Clicks -> UpdRec] /\ \A d \in Clicks \ {c} : upd'[d] = upd[d]
         /\ upd'[c] = NoUpd /\ ~ upd'[c].child /\ upd'[c].at = "none"
<1>1. NoUpd \in UpdRec /\ ~ NoUpd.child /\ NoUpd.at = "none" BY ReleaseFacts DEF NoUpd
<1> QED BY <1>1, ClickFacts

\* What an updater at work stands for.
LEMMA UpdaterAtWork ==
  ASSUME UpdateInv, NEW c \in Clicks, upd[c].at # "none"
  PROVE  /\ Active(c) /\ upd[c] # NoUpd /\ upd[c].release \in Builds /\ click[c].at = "idle"
         /\ (MainWhole => disk["main"] \in Builds)
<1>1. upd[c] # NoUpd BY DEF NoUpd
<1>2. click[c].at = "idle" /\ upd[c].release \in Builds BY <1>1, ClickFacts DEF Fits
<1> QED BY <1>1, <1>2 DEF Active, MainWhole

\* The updater: until the application has ended, or long enough.
LEMMA WaitKeeps == ASSUME UpdateInv, NEW c \in Clicks, WaitEnds(c) PROVE UpdateInv'
<1>1. /\ UNCHANGED <<payload, hashed, feed, disk, running, busy, click, temp, setup, overlapped, faulty>>
      /\ upd[c].at = "waiting" /\ upd' = [upd EXCEPT ![c].at = "ready"]
  BY DEF WaitEnds, worldVars, pastVars, pageVars
<1>2. UpdateTypeOK /\ Fits(c) BY ClickFacts
<1>3. UpdateTypeOK' BY <1>1, <1>2, UpdGoes DEF UpdateTypeOK
<1>4. Fits(c)' BY <1>1, <1>2, UpdGoes, UpdaterAtWork DEF Fits, Fetches
<1>5. Chain(c) => Chain(c)' BY <1>1, UpdGoes DEF Chain
<1> QED BY <1>1, <1>3, <1>4, <1>5, UpdGoes, UpdaterAtWork, AloneKeeps

\* The setup is started from the file there is now.
LEMMA RunSetupKeeps == ASSUME UpdateInv, NEW c \in Clicks, RunSetup(c) PROVE UpdateInv'
<1> DEFINE r == upd[c].release
<1>1. /\ UNCHANGED <<payload, hashed, feed, disk, running, busy, click, temp, overlapped, faulty>>
      /\ upd[c].at = "ready"
  BY DEF RunSetup, worldVars, pastVars, pageVars
<1>2. UpdateTypeOK /\ Fits(c) /\ r \in Builds BY <1>1, ClickFacts, UpdaterAtWork
<1>3. CASE upd' = [upd EXCEPT ![c] = NoUpd] /\ UNCHANGED setup
  <2>1. UpdateTypeOK' BY <1>1, <1>2, <1>3, UpdOver DEF UpdateTypeOK
  <2>2. Fits(c)' BY <1>1, <1>2, <1>3, UpdOver, UpdaterAtWork DEF Fits, Fetches
  <2>3. Chain(c) => Chain(c)' BY <1>1, <1>3, UpdOver, UpdaterAtWork DEF Chain
  <2> QED BY <1>1, <1>3, <2>1, <2>2, <2>3, UpdOver, UpdaterAtWork, AloneKeeps
<1>4. CASE /\ temp[r] # "none" /\ upd' = [upd EXCEPT ![c].at = "running"]
           /\ setup' = [setup EXCEPT ![c] = [at |-> "clearing", release |-> r, bytes |-> temp[r],
                                             todo |-> payload[r]]]
  <2>1. setup'[c] = [at |-> "clearing", release |-> r, bytes |-> temp[r], todo |-> payload[r]]
    BY <1>4, ClickFacts
  <2>2. temp[r] \in Bytes /\ payload[r] \in SUBSET Files /\ r \in 0 .. MaxRelease
    BY <1>2, ClickFacts, PayloadFiles, ReleaseFacts
  <2>3. setup'[c] \in SetupRec BY <2>1, <2>2 DEF SetupRec
  <2>4. (\A d \in Clicks \ {c} : setup'[d] = setup[d]) /\ setup' \in [Clicks -> SetupRec]
    BY <1>4, <2>3, ClickFacts
  <2>5. UpdateTypeOK' BY <1>1, <1>2, <1>4, <2>4, UpdGoes DEF UpdateTypeOK
  <2>6. Fits(c)' BY <1>1, <1>2, <1>4, <2>1, UpdGoes, UpdaterAtWork DEF Fits, Fetches
  <2>7. ASSUME Chain(c) PROVE Chain(c)'
    <3>1. /\ setup'[c].at = "clearing" /\ setup'[c].release = r /\ setup'[c].bytes = temp[r]
          /\ setup'[c].todo = payload[r]
      BY <2>1
    <3>2. upd'[c].at = "running" /\ click'[c].at = "idle" BY <1>1, <1>4, UpdGoes, UpdaterAtWork
    <3>3. hashed => temp[r] = "good" BY <1>1, <2>7 DEF Chain
    <3>4. payload'[r] \ payload[r] = {} BY <1>1
    <3> QED BY <1>1, <3>1, <3>2, <3>3, <3>4 DEF Chain
  <2> QED BY <1>1, <1>4, <2>4, <2>5, <2>6, <2>7, UpdGoes, UpdaterAtWork, AloneKeeps
<1> QED BY <1>3, <1>4 DEF RunSetup

\* The new application is started, and the updater leaves.
LEMMA RestartKeeps == ASSUME UpdateInv, NEW c \in Clicks, Restart(c) \/ Leave(c) PROVE UpdateInv'
<1>1. /\ UNCHANGED <<payload, hashed, feed, disk, busy, click, setup, overlapped, faulty>>
      /\ upd[c].at \in {"won", "leaving"}
  BY DEF Restart, Leave, worldVars, pastVars, pageVars
<1>2. UpdateTypeOK /\ Fits(c) /\ upd[c].release \in Builds BY <1>1, ClickFacts, UpdaterAtWork
<1>3. PICK place \in {"leaving", "deleting"} : upd' = [upd EXCEPT ![c].at = place]
  BY DEF Restart, Leave
<1>4. running' \in 0 .. MaxRelease /\ (running # 0 => running' # 0)
  BY <1>2, ReleaseFacts DEF Restart, Leave, UpdateTypeOK
<1>5. temp' \in [Builds -> Bytes] BY ClickFacts DEF Restart, Leave, Bytes
<1>6. UpdateTypeOK' BY <1>1, <1>2, <1>3, <1>4, <1>5, UpdGoes DEF UpdateTypeOK
<1>7. Fits(c)' BY <1>1, <1>2, <1>3, UpdGoes, UpdaterAtWork DEF Fits, Fetches
<1>8. Chain(c) => Chain(c)' BY <1>1, <1>3, UpdGoes, UpdaterAtWork DEF Chain
<1> QED BY <1>1, <1>3, <1>6, <1>7, <1>8, UpdGoes, UpdaterAtWork, AloneKeeps

\* Its file goes, unless an updater runs from it.
LEMMA DeleteKeeps == ASSUME UpdateInv, NEW c \in Clicks, DeleteUpdater(c) PROVE UpdateInv'
<1>1. /\ UNCHANGED <<payload, hashed, feed, running, busy, click, temp, setup, overlapped, faulty>>
      /\ upd[c].at = "deleting" /\ upd' = [upd EXCEPT ![c] = NoUpd]
  BY DEF DeleteUpdater, worldVars, pastVars, pageVars
<1>2. UpdateTypeOK /\ Fits(c) BY ClickFacts
<1>3. disk' \in [Files -> 0 .. Torn] /\ disk'["main"] = disk["main"]
  BY ClickFacts, ReleaseFacts DEF DeleteUpdater, Files, Torn, Missing
<1>4. UpdateTypeOK' BY <1>1, <1>2, <1>3, UpdOver DEF UpdateTypeOK
<1>5. Fits(c)' BY <1>1, <1>2, UpdOver, UpdaterAtWork DEF Fits, Fetches
<1>6. Chain(c) => Chain(c)' BY <1>1, UpdOver, UpdaterAtWork DEF Chain
<1> QED BY <1>1, <1>3, <1>4, <1>5, <1>6, UpdOver, UpdaterAtWork, AloneKeeps


\* A setup that is at work has a release, and its click is over.
LEMMA SetupAtWork ==
  ASSUME UpdateInv, NEW c \in Clicks, setup[c].at # "none"
  PROVE  /\ Active(c) /\ setup[c].release \in Builds /\ click[c].at = "idle"
         /\ setup[c].todo \subseteq Files
         /\ (MainWhole => disk["main"] \in Builds)
<1>1. setup[c] # NoSetup BY DEF NoSetup
<1>2. click[c].at = "idle" /\ setup[c].release \in Builds BY <1>1, ClickFacts DEF Fits
<1>3. setup[c].todo \subseteq Files BY ClickFacts DEF SetupRec
<1> QED BY <1>1, <1>2, <1>3 DEF Active, MainWhole

\* A setup that ends takes its updater on, or with it.
LEMMA SetupOver ==
  ASSUME UpdateInv, NEW c \in Clicks, NEW ok \in BOOLEAN, SetupEnds(c, ok)
  PROVE  /\ setup' \in [Clicks -> SetupRec] /\ \A d \in Clicks \ {c} : setup'[d] = setup[d]
         /\ setup'[c] = NoSetup
         /\ upd' \in [Clicks -> UpdRec] /\ \A d \in Clicks \ {c} : upd'[d] = upd[d]
         /\ \A d \in Clicks : upd'[d].child => upd[d].child
         /\ \/ upd'[c] = NoUpd
            \/ /\ ok /\ upd[c].at = "running" /\ upd'[c].at = "won"
               /\ upd'[c].release = upd[c].release
<1>1. setup' \in [Clicks -> SetupRec] /\ (\A d \in Clicks \ {c} : setup'[d] = setup[d])
      /\ setup'[c] = NoSetup
  BY ClickFacts, ReleaseFacts DEF SetupEnds
<1>2. CASE ok /\ upd[c].at = "running"
  <2>1. upd' = [upd EXCEPT ![c].at = "won"] BY <1>2, ClickFacts DEF SetupEnds
  <2> QED BY <1>1, <1>2, <2>1, UpdGoes
<1>3. CASE ~ (ok /\ upd[c].at = "running")
  <2>1. upd' = [upd EXCEPT ![c] = NoUpd] BY <1>3, ClickFacts DEF SetupEnds
  <2> QED BY <1>1, <2>1, UpdOver
<1> QED BY <1>2, <1>3

\* Everything that runs from the install directory is killed, the setup's own
\* parents apart.
LEMMA ClearSetupKeeps == ASSUME UpdateInv, NEW c \in Clicks, Clear(c) PROVE UpdateInv'
<1>1. /\ UNCHANGED <<payload, hashed, feed, disk, temp, overlapped, faulty>>
      /\ setup[c].at = "clearing" /\ setup[c].bytes = "good"
      /\ setup' = [setup EXCEPT ![c].at = "extracting"]
  BY DEF Clear, worldVars, pastVars
<1>2. UpdateTypeOK /\ \A d \in Clicks : Fits(d) BY ClickFacts
<1>3. setup'[c] = [setup[c] EXCEPT !.at = "extracting"] BY <1>1, ClickFacts
<1>4. /\ setup'[c] \in SetupRec /\ setup'[c].at = "extracting" /\ setup'[c].bytes = "good"
      /\ setup'[c].release = setup[c].release /\ setup'[c].todo = setup[c].todo
  BY <1>1, <1>3, ClickFacts DEF SetupRec
<1>5. (\A d \in Clicks \ {c} : setup'[d] = setup[d]) /\ setup' \in [Clicks -> SetupRec]
  BY <1>1, <1>4, ClickFacts
<1>6. /\ click' \in [Clicks -> ClickRec] /\ \A d \in Clicks : click'[d] \in {click[d], NoClick}
      /\ busy' \in BOOLEAN /\ (busy' => busy /\ click' = click)
      /\ running' \in {0, running} /\ (running' = 0 => running = 0 \/ ~ upd[c].child)
      /\ (running' # running \/ ~ upd[c].child => click' = [d \in Clicks |-> NoClick])
  BY <1>2, ReleaseFacts, ZenonT(60) DEF Clear, PageEnds, pageVars, UpdateTypeOK
<1>7. ASSUME NEW d \in Clicks
      PROVE  /\ upd'[d] \in UpdRec
             /\ \/ upd'[d] = NoUpd /\ (d = c => upd[c].at = "none")
                \/ upd[d].at # "none" /\ upd'[d].at = upd[d].at /\ upd'[d].release = upd[d].release
             /\ (upd'[d].child => upd[c].child /\ upd[d].child)
  <2>1. /\ upd[d] \in UpdRec /\ (upd[d].at = "none" => upd[d] = NoUpd)
        /\ NoUpd \in UpdRec /\ ~ NoUpd.child
    BY <1>2, ClickFacts, ReleaseFacts DEF Fits, NoUpd
  <2>2. upd'[d] = IF d # c /\ UpdaterRuns(d) THEN NoUpd
                  ELSE [upd[d] EXCEPT !.child = @ /\ upd[c].child]
    BY DEF Clear
  <2>3. CASE d # c /\ UpdaterRuns(d) BY <2>1, <2>2, <2>3
  <2>4. CASE ~ (d # c /\ UpdaterRuns(d))
    <3>2. PICK b \in BOOLEAN : b = (upd[d].child /\ upd[c].child) OBVIOUS
    <3>1. upd'[d] = [at |-> upd[d].at, release |-> upd[d].release, child |-> b]
      BY <2>1, <2>2, <2>4, <3>2 DEF UpdRec
    <3>3. upd[d].at \in {"none", "waiting", "ready", "running", "won", "leaving", "deleting"}
          /\ upd[d].release \in 0 .. MaxRelease
      BY <2>1 DEF UpdRec
    <3>4. upd'[d] \in UpdRec BY <3>1, <3>3 DEF UpdRec
    <3>5. CASE upd[d].at = "none"
      <4>1. ~ upd[d].child /\ upd[d].release = 0 BY <2>1, <3>5 DEF NoUpd
      <4>2. b = FALSE BY <3>2, <4>1
      <4>3. upd'[d] = NoUpd BY <3>1, <3>5, <4>1, <4>2 DEF NoUpd
      <4> QED BY <2>1, <3>4, <3>5, <4>3
    <3>6. CASE upd[d].at # "none"
      <4>1. upd'[d].at = upd[d].at /\ upd'[d].release = upd[d].release /\ upd'[d].child = b
        BY <3>1
      <4>2. b => upd[c].child /\ upd[d].child BY <3>2
      <4>3. upd'[d].child => upd[c].child /\ upd[d].child BY <4>1, <4>2
      <4> QED BY <3>4, <3>6, <4>1, <4>3
    <3> QED BY <3>5, <3>6
  <2> QED BY <2>3, <2>4
<1>8. upd' \in [Clicks -> UpdRec] BY <1>7 DEF Clear
<1>9. UpdateTypeOK'
  <2>1. \A d \in Clicks : click'[d].at # "idle" \/ upd'[d].child => running' # 0
    BY <1>2, <1>6, <1>7 DEF UpdateTypeOK, NoClick
  <2>2. running' \in 0 .. MaxRelease BY <1>2, <1>6, ReleaseFacts DEF UpdateTypeOK
  <2>3. busy' => \E d \in Clicks : click'[d].at \in {"fetching", "written", "verified"}
    BY <1>2, <1>6 DEF UpdateTypeOK
  <2> QED BY <1>1, <1>2, <1>5, <1>6, <1>8, <2>1, <2>2, <2>3 DEF UpdateTypeOK
<1>10. ASSUME NEW d \in Clicks PROVE Fits(d)'
  <2>1. (upd[d] = NoUpd => upd'[d] = NoUpd) /\ (upd'[d].at # "none" => upd'[d].at = upd[d].at)
    BY <1>7 DEF NoUpd
  <2>2. upd'[d].at = "none" => upd'[d] = NoUpd BY <1>7
  <2>3. upd'[d].at # "none" => upd'[d].at = upd[d].at /\ upd'[d].release = upd[d].release
    BY <1>7 DEF NoUpd
  <2>4. CASE d = c
    <3>1. click'[c].at = "idle" BY <1>1, <1>6, SetupAtWork DEF NoClick
    <3> QED BY <1>1, <1>2, <1>4, <2>1, <2>2, <2>3, <2>4, <3>1 DEF Fits, Fetches
  <2>5. CASE d # c
    BY <1>1, <1>2, <1>5, <1>6, <2>1, <2>2, <2>3, <2>5 DEF Fits, Fetches, NoClick
  <2> QED BY <2>4, <2>5
<1>11. \A d \in Clicks \ {c} : Active(d)' => Active(d)
  <2>1. \A d \in Clicks : upd[d] = NoUpd => upd'[d] = NoUpd BY <1>7 DEF NoUpd
  <2> QED BY <1>5, <1>6, <2>1 DEF Active, Fetches, NoClick
<1>12. ASSUME Chain(c) PROVE Chain(c)'
  <2>1. upd[c].at = "running" /\ click'[c].at = "idle"
    BY <1>1, <1>6, <1>12, SetupAtWork DEF Chain, NoClick
  <2>2. upd'[c].at = "running" BY <1>7, <2>1
  <2> QED BY <1>1, <1>4, <1>12, <2>1, <2>2 DEF Chain
<1>13. MainWhole => disk'["main"] \in Builds BY <1>1, SetupAtWork
<1> QED BY <1>1, <1>9, <1>10, <1>11, <1>12, <1>13, SetupAtWork, FirstKeeps

\* What is not a setup, or cannot write, ends, and its update with it.
LEMMA FailedKeeps ==
  ASSUME UpdateInv, NEW c \in Clicks, NotASetup(c) \/ \E x \in Files : WriteFails(c, x)
  PROVE  UpdateInv'
<1>1. /\ UNCHANGED <<payload, hashed, feed, running, busy, click, temp, overlapped>>
      /\ setup[c].at # "none" /\ SetupEnds(c, FALSE) /\ faulty' \in BOOLEAN
  BY ClickFacts DEF NotASetup, WriteFails, worldVars, pastVars, pageVars, UpdateTypeOK
<1>2. UpdateTypeOK /\ Fits(c) BY ClickFacts
<1>3. upd'[c] = NoUpd /\ setup'[c] = NoSetup BY <1>1, SetupOver
<1>4. disk' \in [Files -> 0 .. Torn] /\ (disk'["main"] = disk["main"] \/ running = 0)
  BY ClickFacts, ReleaseFacts, ZenonT(40) DEF NotASetup, WriteFails, Locked, Files
<1>5. UpdateTypeOK' BY <1>1, <1>2, <1>4, SetupOver DEF UpdateTypeOK
<1>6. click'[c].at = "idle" BY <1>1, SetupAtWork
<1>7. Fits(c)' BY <1>1, <1>3, <1>6 DEF Fits, Fetches, NoUpd, NoSetup
<1>8. Chain(c)' /\ ~ Active(c)'
  BY <1>3, <1>6 DEF Chain, Active, Fetches, NoUpd, NoSetup
<1>9. MainWhole => disk'["main"] \in Builds \/ running' = 0 BY <1>1, <1>4, SetupAtWork
<1> QED BY <1>1, <1>5, <1>7, <1>8, <1>9, SetupOver, SetupAtWork, AloneKeeps

\* A file is written, or the setup stops at it because it is in use.
LEMMA ExtractKeeps ==
  ASSUME UpdateInv, NEW c \in Clicks, NEW x \in Files, Extract(c, x) PROVE UpdateInv'
<1> DEFINE r == setup[c].release
<1>1. /\ UNCHANGED <<payload, hashed, feed, running, busy, click, temp, overlapped, faulty>>
      /\ setup[c].at = "extracting" /\ x \in setup[c].todo
  BY DEF Extract, worldVars, pastVars, pageVars
<1>2. UpdateTypeOK /\ Fits(c) /\ r \in Builds /\ click'[c].at = "idle" /\ Active(c)
  BY <1>1, ClickFacts, SetupAtWork
<1>3. CASE SetupEnds(c, FALSE) /\ UNCHANGED disk
  <2>1. UpdateTypeOK' BY <1>1, <1>2, <1>3, SetupOver DEF UpdateTypeOK
  <2>2. upd'[c] = NoUpd /\ setup'[c] = NoSetup BY <1>3, SetupOver
  <2>3. Fits(c)' BY <1>2, <2>2 DEF Fits, Fetches, NoUpd, NoSetup
  <2>4. Chain(c)' BY <1>2, <2>2 DEF Chain, NoUpd, NoSetup
  <2>5. MainWhole => disk'["main"] \in Builds BY <1>1, <1>3, SetupAtWork
  <2> QED BY <1>1, <1>2, <1>3, <2>1, <2>3, <2>4, <2>5, SetupOver, AloneKeeps
<1>4. CASE /\ disk' = [disk EXCEPT ![x] = r] /\ setup' = [setup EXCEPT ![c].todo = @ \ {x}]
           /\ UNCHANGED upd
  <2>1. setup'[c] = [setup[c] EXCEPT !.todo = setup[c].todo \ {x}] BY <1>4, ClickFacts
  <2>2. /\ setup'[c] \in SetupRec /\ setup'[c].at = setup[c].at /\ setup'[c].bytes = setup[c].bytes
        /\ setup'[c].release = r /\ setup'[c].todo = setup[c].todo \ {x}
    BY <2>1, ClickFacts DEF SetupRec
  <2>3. (\A d \in Clicks \ {c} : setup'[d] = setup[d]) /\ setup' = [setup EXCEPT ![c] = setup'[c]]
    BY <1>4, <2>1, ClickFacts
  <2>4. setup' \in [Clicks -> SetupRec] BY <2>2, <2>3, ClickFacts
  <2>5. disk' \in [Files -> 0 .. Torn] /\ disk'[x] = r /\ \A y \in Files \ {x} : disk'[y] = disk[y]
    BY <1>2, <1>4, ClickFacts, ReleaseFacts
  <2>6. UpdateTypeOK' BY <1>1, <1>2, <1>4, <2>4, <2>5 DEF UpdateTypeOK
  <2>7. Fits(c)' BY <1>1, <1>2, <1>4, <2>2 DEF Fits, Fetches
  <2>8. ASSUME Chain(c) PROVE Chain(c)'
    <3>1. upd'[c].at = "running" /\ (hashed => setup[c].bytes = "good")
      BY <1>1, <1>4, <2>8 DEF Chain
    <3>2. \A y \in payload[r] \ setup[c].todo : disk[y] = r BY <1>1, <2>8 DEF Chain
    <3>3. payload[r] \subseteq Files BY <1>2, PayloadFiles
    <3>4. \A y \in payload[r] \ (setup[c].todo \ {x}) : disk'[y] = r BY <2>5, <3>2, <3>3
    <3> QED BY <1>1, <1>2, <2>2, <3>1, <3>4 DEF Chain
  <2>9. MainWhole => disk'["main"] \in Builds BY <1>1, <1>2, <2>5, SetupAtWork DEF Files
  <2> QED BY <1>1, <1>2, <1>4, <2>3, <2>6, <2>7, <2>8, <2>9, AloneKeeps
<1> QED BY <1>3, <1>4 DEF Extract

\* The setup has written everything it carries.
LEMMA DeployedKeeps == ASSUME UpdateInv, NEW c \in Clicks, Deployed(c) PROVE UpdateInv'
<1> DEFINE r == setup[c].release
           ok == disk["main"] # Missing
<1>1. /\ UNCHANGED <<payload, hashed, feed, running, busy, click, temp, overlapped, faulty>>
      /\ setup[c].at = "extracting" /\ setup[c].todo = {} /\ SetupEnds(c, ok) /\ ok \in BOOLEAN
  BY DEF Deployed, worldVars, pastVars, pageVars
<1>2. UpdateTypeOK /\ Fits(c) /\ r \in Builds /\ click'[c].at = "idle" /\ Active(c)
  BY <1>1, ClickFacts, SetupAtWork
<1>3. /\ disk' \in [Files -> 0 .. Torn] /\ disk'["main"] = disk["main"]
      /\ \A y \in Files : disk'[y] = disk[y] \/ disk'[y] = r
  BY <1>2, ClickFacts, ReleaseFacts DEF Deployed, Files
<1> HIDE DEF ok
<1>4. UpdateTypeOK' BY <1>1, <1>2, <1>3, SetupOver DEF UpdateTypeOK
<1>5. setup'[c] = NoSetup /\ (upd'[c] = NoUpd \/ (upd[c].at = "running" /\ upd'[c].at = "won" /\ upd'[c].release = r))
  BY <1>1, <1>2, SetupOver DEF Fits
<1>6. Fits(c)' BY <1>1, <1>2, <1>5 DEF Fits, Fetches, NoUpd, NoSetup
<1>7. ASSUME Chain(c) PROVE Chain(c)'
  <2>1. \A y \in payload[r] : disk'[y] = r BY <1>1, <1>2, <1>3, <1>7, PayloadFiles DEF Chain
  <2> QED BY <1>1, <1>2, <1>5, <2>1 DEF Chain, NoUpd, NoSetup
<1>8. MainWhole => disk'["main"] \in Builds BY <1>1, <1>3, SetupAtWork
<1> QED BY <1>1, <1>2, <1>4, <1>6, <1>7, <1>8, SetupOver, AloneKeeps

\* The application ends, is opened, or the machine is switched off; the feed
\* offers something else.
LEMMA AroundUpdateKeeps ==
  ASSUME UpdateInv, AppQuits \/ Open \/ Offer \/ PowerOff PROVE UpdateInv'
<1>1. /\ UpdateTypeOK /\ \A d \in Clicks : Fits(d)
      /\ click \in [Clicks -> ClickRec] /\ upd \in [Clicks -> UpdRec] /\ setup \in [Clicks -> SetupRec]
  BY DEF UpdateInv, UpdateShape, UpdateTypeOK
<1>2. NoClick \in ClickRec /\ NoUpd \in UpdRec /\ NoSetup \in SetupRec BY ReleaseFacts
<1>3. CASE AppQuits
  <2>1. /\ UNCHANGED <<payload, hashed, feed, disk, temp, setup, overlapped, faulty>>
        /\ running' = 0 /\ busy' = FALSE /\ click' = [d \in Clicks |-> NoClick] /\ upd' = Orphaned
    BY <1>3 DEF AppQuits, PageEnds, worldVars, pastVars
  <2>2. ASSUME NEW d \in Clicks
        PROVE  /\ upd'[d] \in UpdRec /\ upd'[d].at = upd[d].at /\ upd'[d].release = upd[d].release
               /\ ~ upd'[d].child /\ (upd[d] = NoUpd => upd'[d] = NoUpd)
    <3>1. upd[d].at \in {"none", "waiting", "ready", "running", "won", "leaving", "deleting"}
          /\ upd[d].release \in 0 .. MaxRelease
      BY <1>1 DEF UpdRec
    <3>2. upd'[d] = [at |-> upd[d].at, release |-> upd[d].release, child |-> FALSE]
      BY <1>1, <2>1 DEF Orphaned, UpdRec
    <3>3. upd'[d] \in UpdRec BY <3>1, <3>2 DEF UpdRec
    <3>4. upd[d] = NoUpd => upd'[d] = NoUpd BY <3>2 DEF NoUpd
    <3> QED BY <3>2, <3>3, <3>4
  <2>3. upd' \in [Clicks -> UpdRec] BY <2>1, <2>2 DEF Orphaned
  <2>4. UpdateTypeOK' BY <1>1, <1>2, <2>1, <2>2, <2>3, ReleaseFacts DEF UpdateTypeOK, NoClick
  <2>5. ASSUME NEW d \in Clicks PROVE Fits(d)' /\ (Active(d)' => Active(d)) /\ (Chain(d) => Chain(d)')
    <3>1. Fits(d) /\ click'[d] = NoClick BY <1>1, <2>1
    <3>2. upd'[d].at = "none" => upd'[d] = NoUpd BY <2>2, <3>1 DEF Fits
    <3>3. Fits(d)' BY <2>1, <2>2, <3>1, <3>2 DEF Fits, Fetches, NoClick
    <3>4. Active(d)' => Active(d) BY <2>1, <2>2, <3>1 DEF Active, Fetches, NoClick
    <3>5. Chain(d) => Chain(d)' BY <2>1, <2>2, <3>1 DEF Chain, NoClick
    <3> QED BY <3>3, <3>4, <3>5
  <2> QED BY <2>1, <2>4, <2>5, RestKeeps
<1>4. CASE Open
  <2>1. /\ UNCHANGED <<payload, hashed, feed, disk, temp, busy, click, upd, setup, overlapped, faulty>>
        /\ disk["main"] \in Builds /\ running' = disk["main"] /\ running = 0
    BY <1>4 DEF Open, worldVars, pastVars, pageVars
  <2>2. UpdateTypeOK' BY <1>1, <2>1, ReleaseFacts DEF UpdateTypeOK
  <2>3. ASSUME NEW d \in Clicks PROVE Fits(d)' /\ (Active(d)' => Active(d)) /\ (Chain(d) => Chain(d)')
    <3>1. Fits(d) BY <1>1
    <3> QED BY <2>1, <3>1 DEF Fits, Active, Fetches, Chain
  <2> QED BY <2>1, <2>2, <2>3, RestKeeps
<1>5. CASE Offer
  <2>1. /\ UNCHANGED <<payload, hashed, disk, running, temp, busy, click, upd, setup, overlapped, faulty>>
        /\ feed' \in Builds
    BY <1>5 DEF Offer, worldVars, pastVars, pageVars
  <2>2. UpdateTypeOK' BY <1>1, <2>1 DEF UpdateTypeOK
  <2>3. ASSUME NEW d \in Clicks PROVE Fits(d)' /\ (Active(d)' => Active(d)) /\ (Chain(d) => Chain(d)')
    <3>1. Fits(d) BY <1>1
    <3> QED BY <2>1, <3>1 DEF Fits, Active, Fetches, Chain
  <2>4. UNCHANGED <<payload, hashed, disk, overlapped, running>> BY <2>1
  <2>5. ~ overlapped => UpdateTruth' 
    BY <2>3, <2>4 DEF UpdateInv, UpdateTruth, OneAtATime, MainWhole
  <2> QED BY <2>2, <2>3, <2>4, <2>5 DEF UpdateInv, UpdateShape
<1>6. CASE PowerOff
  <2>1. /\ UNCHANGED <<payload, hashed, feed, disk, temp, overlapped>>
        /\ running' = 0 /\ busy' = FALSE /\ click' = [d \in Clicks |-> NoClick] /\ faulty' = TRUE
        /\ upd' = [d \in Clicks |-> NoUpd] /\ setup' = [d \in Clicks |-> NoSetup]
    BY <1>6 DEF PowerOff, PageEnds, worldVars
  <2>2. UpdateTypeOK' BY <1>1, <1>2, <2>1, ReleaseFacts DEF UpdateTypeOK, NoClick, NoUpd
  <2>3. ASSUME NEW d \in Clicks PROVE Fits(d)' /\ (Active(d)' => Active(d)) /\ (Chain(d) => Chain(d)')
    BY <2>1 DEF Fits, Active, Fetches, Chain, NoClick, NoUpd, NoSetup
  <2> QED BY <2>1, <2>2, <2>3, RestKeeps
<1> QED BY <1>3, <1>4, <1>5, <1>6

-----------------------------------------------------------------------------
\* Every step of the page, the updater, the setup and the user keeps it.
LEMMA UpdateInductive == UpdateInv /\ [UpdateNext]_updateVars => UpdateInv'
<1> SUFFICES ASSUME UpdateInv, [UpdateNext]_updateVars PROVE UpdateInv'
  OBVIOUS
<1>1. CASE UNCHANGED updateVars
  BY <1>1
  DEF updateVars, worldVars, pageVars, pastVars, UpdateInv, UpdateShape, UpdateTypeOK, Fits, Fetches,
      UpdateTruth, OneAtATime, MainWhole, Chain, Active
<1>2. ASSUME NEW c \in Clicks, UpdaterActs(c) PROVE UpdateInv'
  BY <1>2, WaitKeeps, RunSetupKeeps, RestartKeeps, DeleteKeeps DEF UpdaterActs
<1>3. ASSUME NEW c \in Clicks, SetupActs(c) PROVE UpdateInv'
  BY <1>3, ClearSetupKeeps, FailedKeeps, ExtractKeeps, DeployedKeeps DEF SetupActs
<1> QED
  BY <1>1, <1>2, <1>3, AroundUpdateKeeps, AskKeeps, AnswersKeeps, NoAnswerKeeps, FetchedKeeps,
     VerifyKeeps, ApplyKeeps
  DEF UpdateNext

\* The invariant of the update, in every reachable state.
THEOREM UpdateInvCorrect == UpdateSpec => []UpdateInv
  BY UpdateInitially, UpdateInductive, PTL DEF UpdateSpec

\* The variables of the update keep their types.
THEOREM UpdateTypeCorrect == UpdateSpec => []UpdateTypeOK
<1>1. UpdateInv => UpdateTypeOK BY DEF UpdateInv, UpdateShape
<1> QED BY <1>1, UpdateInvCorrect, PTL

\* Where the feed gives a hash, the setup that runs is the one whose bytes
\* were verified: nobody else writes the file in between, as long as updates
\* do not overlap.
THEOREM OnlyVerifiedRuns == UpdateSpec => []RunsVerified
<1>1. UpdateInv => RunsVerified BY DEF UpdateInv, UpdateTruth, Chain, RunsVerified
<1> QED BY <1>1, UpdateInvCorrect, PTL

\* The application is restarted only over a complete installation.
THEOREM RestartsAreWhole == UpdateSpec => []RestartIsWhole
<1>1. UpdateInv => RestartIsWhole
  BY UpdaterAtWork DEF UpdateInv, UpdateTruth, Chain, RestartIsWhole
<1> QED BY <1>1, UpdateInvCorrect, PTL

-----------------------------------------------------------------------------
(* One-off runs                                                            *)

\* A capture is under way in the steps that have one; what its child still
\* writes is within the bound, and nothing of it is lost before it is read.
CaptureFits ==
  /\ cap.at = "off" => cap = NoCap /\ child = NoChild
  /\ cap.at # "off" => run.at \in Captures
  /\ cap.at = "grace" => Streamed
  /\ child.todo + child.wrote <= MaxOutput
  /\ OutputIsWhole

RunFits ==
  /\ run # NoRun => runs \in 1 .. MaxRuns
  /\ run.kind = "script" => run.script \in Scripts
  /\ RunsWhatWasSent

ScriptInv == ScriptTypeOK /\ CaptureFits /\ RunFits

\* The records of a run that does nothing.
LEMMA RestingFacts ==
  /\ NoCap \in CapRec /\ NoCap.at = "off" /\ NoCap.got = 0
  /\ NoChild \in ChildRec /\ ~ NoChild.up /\ NoChild.todo = 0 /\ NoChild.wrote = 0
  /\ NoHelper \in HelperRec
  /\ NoRun.at = "idle" /\ NoRun.kind = "probe"
  /\ PipeCap \in Nat \ {0} /\ MaxOutput \in Nat /\ MaxRuns \in Nat /\ KeepBoxes \in Nat
  BY RunsAssumption DEF NoCap, NoChild, NoHelper, NoRun, CapRec, ChildRec, HelperRec

\* What the type of the state says of the capture.
LEMMA CaptureFacts ==
  ASSUME ScriptInv
  PROVE  /\ cap.at \in {"off", "polling", "collecting", "grace", "ended"} /\ cap.late \in BOOLEAN
         /\ cap.got \in 0 .. MaxOutput /\ cap.ok \in BOOLEAN
         /\ cap = [at |-> cap.at, late |-> cap.late, got |-> cap.got, ok |-> cap.ok]
         /\ child.up \in BOOLEAN /\ child.todo \in 0 .. MaxOutput /\ child.wrote \in 0 .. MaxOutput
         /\ child = [up |-> child.up, todo |-> child.todo, wrote |-> child.wrote]
         /\ Piped \in 0 .. PipeCap /\ cap.got <= child.wrote
<1>1. cap \in CapRec /\ child \in ChildRec /\ Piped \in 0 .. PipeCap
  BY DEF ScriptInv, ScriptTypeOK
<1>2. /\ cap.at \in {"off", "polling", "collecting", "grace", "ended"} /\ cap.late \in BOOLEAN
      /\ cap.got \in 0 .. MaxOutput /\ cap.ok \in BOOLEAN
      /\ cap = [at |-> cap.at, late |-> cap.late, got |-> cap.got, ok |-> cap.ok]
  BY <1>1 DEF CapRec
<1>3. /\ child.up \in BOOLEAN /\ child.todo \in 0 .. MaxOutput /\ child.wrote \in 0 .. MaxOutput
      /\ child = [up |-> child.up, todo |-> child.todo, wrote |-> child.wrote]
  BY <1>1 DEF ChildRec
<1> QED BY <1>1, <1>2, <1>3, RestingFacts DEF Piped

\* At the start nothing is under way.
LEMMA ScriptInitially == ScriptInit => ScriptInv
<1> SUFFICES ASSUME ScriptInit PROVE ScriptInv
  OBVIOUS
<1>1. ScriptTypeOK BY RestingFacts DEF ScriptInit, ScriptTypeOK, Piped, Boxes
<1>2. CaptureFits BY RestingFacts DEF ScriptInit, CaptureFits, OutputIsWhole
<1>3. RunFits BY RestingFacts DEF ScriptInit, RunFits, RunsWhatWasSent
<1> QED BY <1>1, <1>2, <1>3 DEF ScriptInv

\* A step of a capture that leaves the run where it is.
LEMMA CaptureKeeps ==
  ASSUME ScriptInv, UNCHANGED <<run, runs, used, files, held, tokens>>,
         cap' \in CapRec, child' \in ChildRec, helper' \in HelperRec, lasting' \subseteq lasting,
         Piped' \in 0 .. PipeCap, child'.up => cap'.at = "polling", CaptureFits'
  PROVE  ScriptInv'
<1>1. ScriptTypeOK' BY DEF ScriptInv, ScriptTypeOK, Boxes
<1>2. RunFits' BY DEF ScriptInv, RunFits, RunsWhatWasSent
<1> QED BY <1>1, <1>2 DEF ScriptInv

\* The child and what it has started.
LEMMA ChildKeeps == ASSUME ScriptInv, ChildActs PROVE ScriptInv'
<1>1. /\ cap \in CapRec /\ child \in ChildRec /\ helper \in HelperRec /\ CaptureFits
      /\ (child.up => cap.at = "polling") /\ Piped \in 0 .. PipeCap
  BY DEF ScriptInv, ScriptTypeOK
<1>2. CASE ChildWrites
  <2>1. /\ UNCHANGED <<run, runs, used, files, held, tokens, cap, helper, lasting>>
        /\ child.up /\ child.todo > 0 /\ Piped < PipeCap
        /\ child' = [up |-> child.up, todo |-> child.todo - 1, wrote |-> child.wrote + 1]
    BY <1>2, CaptureFacts DEF ChildWrites, boxVars
  <2>2. child' \in ChildRec /\ Piped' \in 0 .. PipeCap /\ child'.todo + child'.wrote <= MaxOutput
    BY <1>1, <2>1, CaptureFacts, RestingFacts DEF ChildRec, Piped, CaptureFits
  <2>3. CaptureFits'
    BY <1>1, <2>1, <2>2 DEF CaptureFits, OutputIsWhole, Streamed
  <2> QED BY <1>1, <2>1, <2>2, <2>3, CaptureKeeps
<1>3. CASE ChildExits
  <2>1. UNCHANGED <<run, runs, used, files, held, tokens, helper, lasting>> /\ child.up /\ child.todo = 0
    BY <1>3 DEF ChildExits, boxVars
  <2>2. child' = [up |-> FALSE, todo |-> child.todo, wrote |-> child.wrote]
    BY <1>3, CaptureFacts DEF ChildExits
  <2>3. PICK ok \in BOOLEAN : cap' = [at |-> cap.at, late |-> cap.late, got |-> cap.got, ok |-> ok]
    BY <1>3, CaptureFacts DEF ChildExits
  <2>4. child' \in ChildRec /\ cap' \in CapRec /\ Piped' = Piped
    BY <2>2, <2>3, CaptureFacts DEF ChildRec, CapRec, Piped
  <2>5. CaptureFits'
    BY <1>1, <2>1, <2>2, <2>3 DEF CaptureFits, OutputIsWhole, Streamed
  <2> QED BY <1>1, <2>1, <2>2, <2>4, <2>5, CaptureKeeps
<1>4. CASE HelperExits
  <2>1. /\ UNCHANGED <<run, runs, used, files, held, tokens, cap, child>>
        /\ helper' \in {helper, NoHelper} /\ lasting' \subseteq lasting
    BY <1>4 DEF HelperExits, boxVars, childVars
  <2>2. CaptureFits' /\ Piped' = Piped BY <1>1, <2>1 DEF CaptureFits, OutputIsWhole, Streamed, Piped
  <2>3. helper' \in HelperRec BY <1>1, <2>1, RestingFacts
  <2> QED BY <1>1, <2>1, <2>2, <2>3, CaptureKeeps
<1> QED BY <1>2, <1>3, <1>4 DEF ChildActs

\* The beginning of a capture.
LEMMA LaunchKeeps == ASSUME ScriptInv, Launch \/ LaunchFails PROVE ScriptInv'
<1>1. /\ cap = NoCap /\ child = NoChild /\ helper \in HelperRec /\ CaptureFits /\ run.at \in Captures
      /\ UNCHANGED <<run, runs, used, files, held, tokens, lasting>>
  BY DEF ScriptInv, ScriptTypeOK, Launch, LaunchFails, CaptureFits, boxVars
<1>2. CASE Launch
  <2>1. PICK n \in 0 .. MaxOutput : child' = [up |-> TRUE, todo |-> n, wrote |-> 0]
    BY <1>1, <1>2 DEF Launch, NoChild
  <2>2. cap' = [at |-> "polling", late |-> FALSE, got |-> 0, ok |-> FALSE]
    BY <1>1, <1>2 DEF Launch, NoCap
  <2>3. helper' \in HelperRec BY <1>2, RestingFacts DEF Launch, HelperRec
  <2>4. cap' \in CapRec /\ child' \in ChildRec /\ Piped' \in 0 .. PipeCap
    BY <2>1, <2>2, RestingFacts DEF CapRec, ChildRec, Piped
  <2>5. CaptureFits'
    BY <1>1, <2>1, <2>2, RestingFacts DEF CaptureFits, OutputIsWhole
  <2> QED BY <1>1, <2>1, <2>2, <2>3, <2>4, <2>5, CaptureKeeps
<1>3. CASE LaunchFails
  <2>1. cap' = [at |-> "ended", late |-> FALSE, got |-> 0, ok |-> FALSE] /\ child' = NoChild /\ helper' = helper
    BY <1>1, <1>3 DEF LaunchFails, NoCap
  <2>2. cap' \in CapRec /\ Piped' = 0
    BY <2>1, RestingFacts DEF CapRec, Piped
  <2>3. CaptureFits'
    BY <1>1, <2>1, <2>2, RestingFacts DEF CaptureFits, OutputIsWhole
  <2> QED BY <1>1, <2>1, <2>2, <2>3, RestingFacts, CaptureKeeps
<1> QED BY <1>2, <1>3

\* The end of the child, seen or made.
LEMMA WaitOverKeeps == ASSUME ScriptInv, SeeExit \/ TimeUp PROVE ScriptInv'
<1>1. /\ cap \in CapRec /\ child \in ChildRec /\ helper \in HelperRec /\ CaptureFits
      /\ Piped \in 0 .. PipeCap /\ cap.at = "polling"
      /\ UNCHANGED <<run, runs, used, files, held, tokens, lasting>>
  BY DEF ScriptInv, ScriptTypeOK, SeeExit, TimeUp, boxVars
<1>2. PICK l \in BOOLEAN : cap' = [at |-> IF Streamed THEN "grace" ELSE "collecting", late |-> l,
                                   got |-> cap.got, ok |-> cap.ok]
  BY CaptureFacts DEF SeeExit, TimeUp
<1>3. child' = child \/ child' = [up |-> FALSE, todo |-> 0, wrote |-> child.wrote]
  BY CaptureFacts DEF SeeExit, TimeUp, KillTree
<1>4. ~ child'.up /\ child'.wrote = child.wrote /\ child'.todo \in {0, child.todo} /\ child' \in ChildRec
  <2>1. CASE SeeExit BY <1>1, <2>1 DEF SeeExit
  <2>2. CASE TimeUp
    <3>1. child' = [up |-> FALSE, todo |-> 0, wrote |-> child.wrote]
      BY <2>2, CaptureFacts DEF TimeUp, KillTree
    <3> QED BY <3>1, CaptureFacts, RestingFacts DEF ChildRec
  <2> QED BY <2>1, <2>2
<1>5. helper' \in HelperRec BY <1>1, RestingFacts DEF SeeExit, TimeUp, KillTree
<1>6. cap' \in CapRec /\ Piped' = Piped BY <1>2, <1>4, CaptureFacts DEF CapRec, Piped
<1>7. CaptureFits'
  <2>1. child'.todo + child'.wrote <= MaxOutput
    BY <1>1, <1>4, CaptureFacts, RestingFacts DEF CaptureFits
  <2> QED BY <1>1, <1>2, <2>1 DEF CaptureFits, OutputIsWhole, Streamed
<1> QED BY <1>1, <1>4, <1>5, <1>6, <1>7, CaptureKeeps

\* The pipe is emptied, and given up.
LEMMA ReadKeeps == ASSUME ScriptInv, Read \/ Collected PROVE ScriptInv'
<1>1. /\ cap \in CapRec /\ child \in ChildRec /\ helper \in HelperRec /\ CaptureFits
      /\ Piped \in 0 .. PipeCap /\ (child.up => cap.at = "polling")
      /\ UNCHANGED <<run, runs, used, files, held, tokens, child, helper, lasting>>
  BY DEF ScriptInv, ScriptTypeOK, Read, Collected, boxVars
<1>2. CASE Read
  <2>1. /\ cap' = [at |-> cap.at, late |-> cap.late, got |-> cap.got + 1, ok |-> cap.ok]
        /\ Piped > 0 /\ cap.at \notin {"off", "ended"}
    BY <1>2, CaptureFacts DEF Read
  <2>2. cap' \in CapRec /\ Piped' \in 0 .. PipeCap
    BY <1>1, <2>1, CaptureFacts, RestingFacts DEF CapRec, Piped
  <2>3. CaptureFits' BY <1>1, <2>1 DEF CaptureFits, OutputIsWhole, Streamed
  <2> QED BY <1>1, <2>1, <2>2, <2>3, CaptureKeeps
<1>3. CASE Collected
  <2>1. /\ cap' = [at |-> "ended", late |-> cap.late, got |-> cap.got, ok |-> cap.ok]
        /\ cap.at # "off" /\ cap.at # "polling" /\ (Streamed \/ Piped = 0)
    BY <1>1, <1>3, CaptureFacts DEF Collected, CaptureFits
  <2>2. cap' \in CapRec /\ Piped' = Piped BY <1>1, <2>1, CaptureFacts DEF CapRec, Piped
  <2>3. CaptureFits' BY <1>1, <2>1, <2>2 DEF CaptureFits, OutputIsWhole, Streamed
  <2> QED BY <1>1, <2>1, <2>2, <2>3, CaptureKeeps
<1> QED BY <1>2, <1>3

\* The run is over, or between two captures.
LEMMA RunKeeps ==
  ASSUME ScriptInv, run' = NoRun \/ (run' \in RunRec /\ runs \in 1 .. MaxRuns), UNCHANGED <<runs, cap, child>>,
         run'.at \in {"sandbox", "session"} => run'.kind = "script",
         helper' \in HelperRec, lasting' \subseteq Scripts, tokens' \subseteq 1 .. MaxRuns,
         cap.at = "off", RunFits',
         /\ used' \in [Scripts -> 0 .. MaxRuns] /\ files' \in [Scripts -> SUBSET (1 .. MaxRuns)]
         /\ held' \subseteq Boxes' /\ \A s \in Scripts : files'[s] # {} => used'[s] # 0
  PROVE  ScriptInv'
<1>1. CaptureFits' BY RestingFacts DEF ScriptInv, CaptureFits, OutputIsWhole
<1>2. ScriptTypeOK' BY DEF ScriptInv, ScriptTypeOK, Boxes, Piped
<1> QED BY <1>1, <1>2 DEF ScriptInv

\* The end of a capture, with the run where it leads.
LEMMA CaptureOverKeeps ==
  ASSUME ScriptInv, CaptureOver, UNCHANGED <<runs, used, files, held>>,
         run' = NoRun \/ run' \in RunRec, run # NoRun, tokens' \subseteq tokens,
         run'.at \in {"sandbox", "session"} => run'.kind = "script",
         run'.kind = "script" => run'.script \in Scripts,
         RunsWhatWasSent'
  PROVE  ScriptInv'
<1>1. /\ cap' = NoCap /\ child' = NoChild /\ helper' = NoHelper
      /\ lasting' = lasting \/ (lasting' = lasting \cup {run.script} /\ run.script # 0)
  BY DEF CaptureOver
<1>2. run \in RunRec /\ runs \in 1 .. MaxRuns BY DEF ScriptInv, ScriptTypeOK, RunFits
<1>3. lasting' \subseteq Scripts BY <1>1, <1>2 DEF ScriptInv, ScriptTypeOK, RunRec
<1>4. Piped' \in 0 .. PipeCap BY <1>1, RestingFacts DEF Piped
<1>5. CaptureFits' BY <1>1, RestingFacts DEF CaptureFits, OutputIsWhole
<1>6. RunFits' BY <1>2 DEF RunFits
<1>7. ScriptTypeOK' BY <1>1, <1>3, <1>4, RestingFacts DEF ScriptInv, ScriptTypeOK, Boxes
<1> QED BY <1>5, <1>6, <1>7 DEF ScriptInv

\* What a run knows of itself.
LEMMA RunFacts ==
  ASSUME ScriptInv, run # NoRun
  PROVE  /\ run \in RunRec /\ runs \in 1 .. MaxRuns
         /\ \A stage \in Captures \cup {"sandbox", "session"} :
              /\ [run EXCEPT !.at = stage] \in RunRec /\ [run EXCEPT !.at = stage].at = stage
              /\ [run EXCEPT !.at = stage].kind = run.kind
              /\ [run EXCEPT !.at = stage].script = run.script
              /\ [run EXCEPT !.at = stage] # NoRun
<1>1. run \in RunRec /\ runs \in 1 .. MaxRuns BY DEF ScriptInv, ScriptTypeOK, RunFits
<1>2. "idle" \notin Captures \cup {"sandbox", "session"} BY DEF Captures
<1> QED BY <1>1, <1>2, RestingFacts DEF RunRec

LEMMA NoRunRests ==
  ASSUME run' = NoRun
  PROVE  RunsWhatWasSent' /\ run'.at = "idle" /\ run'.kind = "probe"
  BY RestingFacts DEF RunsWhatWasSent

\* A command is given.
LEMMA BeginKeeps ==
  ASSUME ScriptInv, NEW kind \in Kinds, NEW s \in Scripts \cup {0}, NEW stage \in {"probing", "installing", "running"},
         Begin(kind, s, stage), kind = "script" => s \in Scripts /\ stage = "probing"
  PROVE  ScriptInv'
<1>1. /\ run = NoRun /\ runs \in 0 .. MaxRuns /\ runs' = runs + 1 /\ runs < MaxRuns
      /\ run' = [at |-> stage, kind |-> kind, script |-> s]
      /\ UNCHANGED <<used, files, held, tokens, cap, child, helper, lasting>>
  BY DEF Begin, ScriptInv, ScriptTypeOK, boxVars, childVars
<1>2. run' \in RunRec /\ run'.at = stage /\ run'.kind = kind /\ run'.script = s
  BY <1>1 DEF RunRec, Captures
<1>3. runs' \in 1 .. MaxRuns BY <1>1, RestingFacts
<1>4. cap.at = "off"
  BY <1>1, RestingFacts DEF ScriptInv, CaptureFits, Captures
<1>5. CaptureFits' BY <1>1, <1>4, RestingFacts DEF ScriptInv, CaptureFits, OutputIsWhole
<1>6. RunFits' BY <1>2, <1>3 DEF RunFits, RunsWhatWasSent
<1>7. ScriptTypeOK' BY <1>1, <1>2, <1>3 DEF ScriptInv, ScriptTypeOK, Boxes, Piped
<1> QED BY <1>5, <1>6, <1>7 DEF ScriptInv

\* The steps that look at what a capture has given.
LEMMA AfterCaptureKeeps == ASSUME ScriptInv, Probed \/ Prepared \/ RanToEnd PROVE ScriptInv'
<1>1. UNCHANGED <<runs, used, files, held>> /\ CaptureOver /\ run.at \in Captures
  BY DEF Probed, Prepared, RanToEnd, boxVars, Captures
<1>2. run # NoRun BY <1>1, RestingFacts DEF Captures
<1>3. CASE Return
  BY <1>1, <1>2, <1>3, NoRunRests, CaptureOverKeeps DEF Return
<1>4. ASSUME NEW stage \in {"sandbox", "session"}, GoesOn(stage), UNCHANGED tokens, run.kind = "script",
             stage = "session" => run.at = "installing"
      PROVE  ScriptInv'
  <2>1. /\ run' \in RunRec /\ run'.at = stage /\ run'.kind = "script"
        /\ run'.script = run.script /\ run.script \in Scripts
    BY <1>2, <1>4, RunFacts DEF GoesOn, ScriptInv, RunFits
  <2>2. RunsWhatWasSent'
    BY <1>1, <1>4, <2>1 DEF RunsWhatWasSent, ScriptInv, RunFits
  <2> QED BY <1>1, <1>2, <1>4, <2>1, <2>2, CaptureOverKeeps
<1>5. CASE Probed BY <1>3, <1>4, <1>5 DEF Probed
<1>6. CASE Prepared BY <1>3, <1>4, <1>6 DEF Prepared
<1>7. CASE RanToEnd BY <1>3, <1>7 DEF RanToEnd
<1> QED BY <1>5, <1>6, <1>7

\* The session of a run.
LEMMA RegisterRunKeeps == ASSUME ScriptInv, RegisterRun PROVE ScriptInv'
<1>1. /\ run.at = "session" /\ UNCHANGED <<runs, used, files, held, cap, child, helper, lasting>>
      /\ \/ tokens' \in {tokens, tokens \cup {runs}} /\ GoesOn("running")
         \/ Return
  BY DEF RegisterRun, boxVars, childVars
<1>2. /\ run # NoRun /\ cap.at = "off" /\ run.kind = "script" /\ run.script \in Scripts
  BY <1>1, RestingFacts DEF ScriptInv, ScriptTypeOK, CaptureFits, Captures, RunFits
<1>3. runs \in 1 .. MaxRuns /\ tokens \subseteq 1 .. MaxRuns /\ helper \in HelperRec /\ lasting \subseteq Scripts
  BY <1>2, RunFacts DEF ScriptInv, ScriptTypeOK
<1>4. tokens' \subseteq 1 .. MaxRuns BY <1>1, <1>3 DEF Return
<1>5. CASE Return
  <2>1. RunFits' BY <1>5, NoRunRests DEF RunFits, Return
  <2>2. run' = NoRun BY <1>5 DEF Return
  <2>3. /\ used' \in [Scripts -> 0 .. MaxRuns] /\ files' \in [Scripts -> SUBSET (1 .. MaxRuns)]
        /\ held' \subseteq Boxes' /\ \A s \in Scripts : files'[s] # {} => used'[s] # 0
    BY <1>1 DEF ScriptInv, ScriptTypeOK, Boxes
  <2> QED BY <1>1, <1>2, <1>3, <1>4, <2>1, <2>2, <2>3, NoRunRests, RunKeeps
<1>6. CASE GoesOn("running")
  <2>1. /\ run' \in RunRec /\ run'.at = "running" /\ run'.kind = "script" /\ run'.script = run.script
    BY <1>2, <1>6, RunFacts DEF GoesOn, Captures
  <2>2. RunFits' BY <1>1, <1>2, <1>3, <2>1 DEF RunFits, RunsWhatWasSent, ScriptInv
  <2>3. /\ used' \in [Scripts -> 0 .. MaxRuns] /\ files' \in [Scripts -> SUBSET (1 .. MaxRuns)]
        /\ held' \subseteq Boxes' /\ \A s \in Scripts : files'[s] # {} => used'[s] # 0
    BY <1>1 DEF ScriptInv, ScriptTypeOK, Boxes
  <2> QED BY <1>1, <1>2, <1>3, <1>4, <2>1, <2>2, <2>3, RunKeeps
<1> QED BY <1>1, <1>5, <1>6

\* The sandbox of a run is emptied and filled.
LEMMA MaterializeKeeps == ASSUME ScriptInv, Materialize PROVE ScriptInv'
<1> DEFINE s == run.script
<1>1. /\ run.at = "sandbox" /\ UNCHANGED <<runs, cap, child, helper, lasting>>
      /\ (GoesOn("installing") /\ UNCHANGED tokens) \/ Return
  BY DEF Materialize, childVars
<1>2. PICK stay \in SUBSET ((lasting \cap Boxes) \ Recent),
           left \in {{}} \cup IF s \in lasting THEN {files[s]} ELSE {} : Fill(s, stay, left)
  BY DEF Materialize
<1>3. /\ run # NoRun /\ cap.at = "off" /\ run.kind = "script" /\ s \in Scripts
  BY <1>1, RestingFacts DEF ScriptInv, ScriptTypeOK, CaptureFits, Captures, RunFits
<1>4. /\ runs \in 1 .. MaxRuns /\ tokens \subseteq 1 .. MaxRuns /\ helper \in HelperRec /\ lasting \subseteq Scripts
      /\ used \in [Scripts -> 0 .. MaxRuns] /\ files \in [Scripts -> SUBSET (1 .. MaxRuns)]
      /\ held \subseteq Boxes /\ \A t \in Scripts : files[t] # {} => t \in Boxes
  BY <1>3, RunFacts DEF ScriptInv, ScriptTypeOK
<1>5. left \subseteq 1 .. MaxRuns /\ left \cup {runs} \subseteq 1 .. MaxRuns BY <1>3, <1>4
<1>6. /\ used' = [t \in Scripts |-> IF t = s THEN runs ELSE IF t \in Recent \cup stay THEN used[t] ELSE 0]
      /\ files' = [t \in Scripts |-> IF t = s THEN left \cup {runs}
                                     ELSE IF t \in Boxes' THEN files[t] ELSE {}]
      /\ held' = ((held \cap Boxes') \cup stay \cup {s}) \ IF left = {} THEN {s} ELSE {}
  BY <1>2 DEF Fill
<1>7. used' \in [Scripts -> 0 .. MaxRuns] BY <1>4, <1>6, RestingFacts
<1>8. s \in Boxes' BY <1>3, <1>4, <1>6 DEF Boxes
<1>9. stay \subseteq Boxes' BY <1>4, <1>6, <1>8 DEF Boxes
<1>10. held' \subseteq Boxes' BY <1>6, <1>8, <1>9
<1>11. files' \in [Scripts -> SUBSET (1 .. MaxRuns)] BY <1>4, <1>5, <1>6
<1>12. \A t \in Scripts : files'[t] # {} => used'[t] # 0 BY <1>6, <1>8 DEF Boxes
<1>13. files'[s] = {runs} \/ s \in held' BY <1>3, <1>6
<1>14. tokens' \subseteq 1 .. MaxRuns BY <1>1, <1>4 DEF Return
<1>15. CASE Return
  <2>1. RunFits' BY <1>15, NoRunRests DEF RunFits, Return
  <2>2. run' = NoRun BY <1>15 DEF Return
  <2> QED
    BY <1>1, <1>3, <1>4, <1>7, <1>10, <1>11, <1>12, <1>14, <2>1, <2>2, NoRunRests, RunKeeps
<1>16. CASE GoesOn("installing")
  <2>1. /\ run' \in RunRec /\ run'.at = "installing" /\ run'.kind = "script" /\ run'.script = s
    BY <1>3, <1>16, RunFacts DEF GoesOn, Captures
  <2>2. RunFits' BY <1>1, <1>3, <1>4, <1>13, <2>1 DEF RunFits, RunsWhatWasSent
  <2> QED BY <1>1, <1>3, <1>4, <1>7, <1>10, <1>11, <1>12, <1>14, <2>1, <2>2, RunKeeps
<1> QED BY <1>1, <1>15, <1>16

\* Every step of the host, of a child and of who gives the commands keeps it.
LEMMA ScriptInductive == ScriptInv /\ [ScriptNext]_scriptVars => ScriptInv'
<1> SUFFICES ASSUME ScriptInv, [ScriptNext]_scriptVars PROVE ScriptInv'
  OBVIOUS
<1>1. CASE UNCHANGED scriptVars
  BY <1>1
  DEF scriptVars, boxVars, childVars, ScriptInv, ScriptTypeOK, Boxes, Piped, CaptureFits, Streamed,
      OutputIsWhole, RunFits, RunsWhatWasSent
<1>2. CASE HostActs
  BY <1>2, LaunchKeeps, WaitOverKeeps, ReadKeeps, AfterCaptureKeeps, MaterializeKeeps, RegisterRunKeeps
  DEF HostActs
<1>3. ASSUME NEW s \in Scripts, RunPluginScript(s) PROVE ScriptInv'
  BY <1>3, BeginKeeps DEF RunPluginScript, Kinds
<1>4. CASE RunPluginShell \/ GetRuntimeStatus \/ InstallDependencies
  BY <1>4, BeginKeeps DEF RunPluginShell, GetRuntimeStatus, InstallDependencies, Kinds
<1> QED BY <1>1, <1>2, <1>3, <1>4, ChildKeeps DEF ScriptNext

\* The invariant of one-off runs, in every reachable state.
THEOREM ScriptInvCorrect == ScriptSpec => []ScriptInv
  BY ScriptInitially, ScriptInductive, PTL DEF ScriptSpec

\* The variables of one-off runs keep their types: a pipe never holds more
\* than it can, and nothing is read that was not written.
THEOREM ScriptTypeCorrect == ScriptSpec => []ScriptTypeOK
<1>1. ScriptInv => ScriptTypeOK BY DEF ScriptInv
<1> QED BY <1>1, ScriptInvCorrect, PTL

\* What a child has written before it ended is in the result, although the
\* pipe is emptied after it ended.
THEOREM OutputsAreWhole == ScriptSpec => []OutputIsWhole
<1>1. ScriptInv => OutputIsWhole BY DEF ScriptInv, CaptureFits
<1> QED BY <1>1, ScriptInvCorrect, PTL

\* A script runs in what was sent with it, unless a process of an earlier run
\* kept its sandbox from being emptied.
THEOREM ScriptsRunWhatWasSent == ScriptSpec => []RunsWhatWasSent
<1>1. ScriptInv => RunsWhatWasSent BY DEF ScriptInv, RunFits
<1> QED BY <1>1, ScriptInvCorrect, PTL

-----------------------------------------------------------------------------
\* The parts keep to their types, whichever of them a behaviour is about.
THEOREM DesktopTypeCorrect == DesktopSpec => []DesktopTypeOK
<1> DEFINE Inv == LedgerInv /\ StartInv /\ UpdateInv /\ ScriptInv
<1>1. DesktopInit => Inv
  BY InvInit, StartInvInit, UpdateInitially, ScriptInitially DEF DesktopInit, StartInit
<1>2. Inv /\ [DesktopNext]_desktopVars => Inv'
  <2> SUFFICES ASSUME Inv, [DesktopNext]_desktopVars PROVE Inv'
    OBVIOUS
  <2>1. [StartNext]_startVars /\ [UpdateNext]_updateVars /\ [ScriptNext]_scriptVars
    BY DEF DesktopNext, desktopVars
  <2> QED BY <2>1, StartAndLedgerStep, UpdateInductive, ScriptInductive
<1>3. Inv => DesktopTypeOK BY DEF DesktopTypeOK, StartInv, UpdateInv, UpdateShape, ScriptInv
<1> QED BY <1>1, <1>2, <1>3, PTL DEF DesktopSpec
=============================================================================
