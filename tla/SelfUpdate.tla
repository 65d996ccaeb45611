------------------------------- MODULE SelfUpdate -------------------------------
(***************************************************************************)
(* The update of the application by itself.  The settings page asks the    *)
(* feed, has the setup downloaded and verified, and starts updater.exe     *)
(* from the install directory; the updater waits for the application to    *)
(* end, runs the setup, which clears the install directory of processes    *)
(* and extracts its payload over it, starts the new application and has    *)
(* itself deleted.  All of them are processes of their own, the files they *)
(* run from are locked, and the user goes on using the application.        *)
(***************************************************************************)
EXTENDS Naturals, FiniteSets

CONSTANTS
  Clicks,      \* uses of the button, each with the updater it starts
  MaxRelease,  \* bound on releases, the first of which is installed
  Payloads     \* what the setups may carry: release -> set of files

ASSUME UpdateAssumption ==
  /\ MaxRelease \in Nat \ {0}
  /\ Payloads \subseteq [1 .. MaxRelease -> SUBSET {"main", "updater"}]

VARIABLES
  payload,     \* release -> files its setup carries
  hashed,      \* whether the feed gives the hash of the setup
  feed,        \* the release the feed offers
  disk,        \* the install directory: file -> release it is of
  running,     \* release of the running application, or 0
  busy,        \* downloadingRef of the page
  click,       \* each use of the button: step, release, bytes downloaded
  temp,        \* QianXia-Setup-<release>.exe in the temporary directory
  upd,         \* the updater of each click: step, release, started by the running application
  setup,       \* the setup each updater runs: step, release, bytes, files to extract
  overlapped,  \* history: an update began while another was under way
  faulty       \* history: a write failed or the machine was switched off

pageVars == <<busy, click>>
worldVars == <<payload, hashed, feed>>
pastVars == <<overlapped, faulty>>
updateVars == <<worldVars, disk, running, pageVars, temp, upd, setup, pastVars>>

Files    == {"main", "updater"}
Builds == 1 .. MaxRelease
Torn     == MaxRelease + 1
Missing  == 0
NoClick  == [at |-> "idle", release |-> 0, bytes |-> "none"]
NoUpd    == [at |-> "none", release |-> 0, child |-> FALSE]
NoSetup  == [at |-> "none", release |-> 0, bytes |-> "none", todo |-> {}]

Bytes    == {"none", "good", "junk"}
ClickRec == [at : {"idle", "asked", "fetching", "written", "verified"},
             release : 0 .. MaxRelease, bytes : Bytes]
UpdRec   == [at : {"none", "waiting", "ready", "running", "won", "leaving", "deleting"},
             release : 0 .. MaxRelease, child : BOOLEAN]
SetupRec == [at : {"none", "clearing", "extracting"}, release : 0 .. MaxRelease,
             bytes : Bytes, todo : SUBSET Files]

UpdateTypeOK ==
  /\ payload \in Payloads /\ hashed \in BOOLEAN /\ feed \in Builds
  /\ disk \in [Files -> 0 .. Torn] /\ running \in 0 .. MaxRelease
  /\ busy \in BOOLEAN
  /\ busy => \E c \in Clicks : click[c].at \in {"fetching", "written", "verified"}
  /\ click \in [Clicks -> ClickRec] /\ upd \in [Clicks -> UpdRec]
  /\ setup \in [Clicks -> SetupRec]
  /\ \A c \in Clicks : click[c].at # "idle" \/ upd[c].child => running # 0
  /\ temp \in [Builds -> Bytes]
  /\ overlapped \in BOOLEAN /\ faulty \in BOOLEAN

UpdateInit ==
  /\ payload \in Payloads /\ hashed \in BOOLEAN /\ feed \in Builds
  /\ disk = [x \in Files |-> 1] /\ running = 1
  /\ busy = FALSE /\ click = [c \in Clicks |-> NoClick]
  /\ temp = [r \in Builds |-> "none"]
  /\ upd = [c \in Clicks |-> NoUpd] /\ setup = [c \in Clicks |-> NoSetup]
  /\ overlapped = FALSE /\ faulty = FALSE

UpdaterRuns(c) == upd[c].at \notin {"none", "deleting"}
\* A setup that runs cannot be deleted or written over.
InUse(r) == \E c \in Clicks : setup[c].at # "none" /\ setup[c].release = r
Locked(x) == \/ x = "main" /\ running # 0
             \/ x = "updater" /\ \E c \in Clicks : UpdaterRuns(c)

-----------------------------------------------------------------------------
(* The settings page and the commands it calls                             *)

PageEnds == busy' = FALSE /\ click' = [c \in Clicks |-> NoClick]

ClickEnds(c) == busy' = FALSE /\ click' = [click EXCEPT ![c] = NoClick]

\* The reference is looked at here, and set when the feed has answered.
Ask(c) ==
  /\ running # 0 /\ ~ busy /\ click[c] = NoClick /\ upd[c] = NoUpd /\ setup[c] = NoSetup
  /\ click' = [click EXCEPT ![c].at = "asked"]
  /\ UNCHANGED <<worldVars, disk, running, busy, temp, upd, setup, pastVars>>

\* What both forms of an answer do with an offer: download_update removes a
\* file of that name and begins.
Accept(c, r) ==
  /\ busy' = TRUE
  /\ click' = [click EXCEPT ![c] = [at |-> "fetching", release |-> r, bytes |-> "none"]]
  /\ temp' = [temp EXCEPT ![r] = IF InUse(r) THEN @ ELSE "none"]
  /\ overlapped' = (overlapped \/ \E d \in Clicks \ {c} :
                      \/ click[d].at \in {"fetching", "written", "verified"}
                      \/ upd[d] # NoUpd \/ setup[d] # NoSetup)

Answers(c) ==
  /\ click[c].at = "asked" /\ feed > running
  /\ Accept(c, feed)
  /\ UNCHANGED <<worldVars, disk, running, upd, setup, faulty>>

\* Nothing new, or no answer.
NoAnswer(c) ==
  /\ click[c].at = "asked"
  /\ click' = [click EXCEPT ![c] = NoClick]
  /\ UNCHANGED <<worldVars, disk, running, busy, temp, upd, setup, pastVars>>

\* The bytes are kept in memory, to be verified, and written to the file.
Fetched(c) ==
  /\ click[c].at = "fetching"
  /\ LET r == click[c].release IN
     \/ /\ ~ InUse(r)
        /\ \E b \in {"good", "junk"} :
             /\ temp' = [temp EXCEPT ![r] = b]
             /\ click' = [click EXCEPT ![c].at = "written", ![c].bytes = b]
        /\ UNCHANGED busy
     \/ ClickEnds(c) /\ UNCHANGED temp
  /\ UNCHANGED <<worldVars, disk, running, upd, setup, pastVars>>

\* Mutant: the file is not looked at.
VerifyNothing(c) ==
  /\ click[c].at = "written"
  /\ click' = [click EXCEPT ![c].at = "verified"]
  /\ UNCHANGED <<worldVars, disk, running, busy, temp, upd, setup, pastVars>>

Verify(c) ==
  /\ click[c].at = "written"
  /\ LET r == click[c].release IN
     IF hashed /\ click[c].bytes = "junk"
       THEN /\ temp' = [temp EXCEPT ![r] = IF InUse(r) THEN @ ELSE "none"]
            /\ ClickEnds(c)
       ELSE /\ click' = [click EXCEPT ![c].at = "verified"]
            /\ UNCHANGED <<temp, busy>>
  /\ UNCHANGED <<worldVars, disk, running, upd, setup, pastVars>>

\* apply_update: the updater beside the application; without one the
\* application starts itself with these arguments, which it does not know.
Apply(c) ==
  /\ click[c].at = "verified"
  /\ upd' = IF temp[click[c].release] # "none" /\ disk["updater"] \in Builds
              THEN [upd EXCEPT ![c] = [at |-> "waiting", release |-> click[c].release, child |-> TRUE]]
              ELSE upd
  /\ ClickEnds(c)
  /\ UNCHANGED <<worldVars, disk, running, temp, setup, pastVars>>

-----------------------------------------------------------------------------
(* updater.exe: run_update                                                 *)

Orphaned == [d \in Clicks |-> [upd[d] EXCEPT !.child = FALSE]]

\* Mutant: as long as the application runs.
WaitForExit(c) ==
  /\ upd[c].at = "waiting" /\ ~ upd[c].child
  /\ upd' = [upd EXCEPT ![c].at = "ready"]
  /\ UNCHANGED <<worldVars, disk, running, pageVars, temp, setup, pastVars>>

\* Until the application has ended, or for 30 seconds.
WaitEnds(c) ==
  /\ upd[c].at = "waiting"
  /\ upd' = [upd EXCEPT ![c].at = "ready"]
  /\ UNCHANGED <<worldVars, disk, running, pageVars, temp, setup, pastVars>>

RunSetup(c) ==
  /\ upd[c].at = "ready"
  /\ LET b == temp[upd[c].release] IN
     IF b = "none"
       THEN upd' = [upd EXCEPT ![c] = NoUpd] /\ UNCHANGED setup
       ELSE /\ upd' = [upd EXCEPT ![c].at = "running"]
            /\ setup' = [setup EXCEPT ![c] = [at |-> "clearing", release |-> upd[c].release, bytes |-> b,
                                              todo |-> payload[upd[c].release]]]
  /\ UNCHANGED <<worldVars, disk, running, pageVars, temp, pastVars>>

\* The setup has ended; an updater that still runs looks at its exit code.
SetupEnds(c, ok) ==
  /\ setup' = [setup EXCEPT ![c] = NoSetup]
  /\ upd' = [upd EXCEPT ![c] = IF ok /\ @.at = "running" THEN [@ EXCEPT !.at = "won"] ELSE NoUpd]

\* The new application is started, the setup deleted.
Restart(c) ==
  /\ upd[c].at = "won"
  /\ temp' = [temp EXCEPT ![upd[c].release] = "none"]
  /\ running' = IF running = 0 /\ disk["main"] \in Builds THEN disk["main"] ELSE running
  /\ upd' = [upd EXCEPT ![c].at = "leaving"]
  /\ UNCHANGED <<worldVars, disk, pageVars, setup, pastVars>>

\* A command is left behind that deletes the updater's file after a moment.
Leave(c) ==
  /\ upd[c].at = "leaving"
  /\ upd' = [upd EXCEPT ![c].at = "deleting"]
  /\ UNCHANGED <<worldVars, disk, running, pageVars, temp, setup, pastVars>>
DeleteUpdater(c) ==
  /\ upd[c].at = "deleting"
  /\ disk' = [disk EXCEPT !["updater"] = IF Locked("updater") THEN @ ELSE Missing]
  /\ upd' = [upd EXCEPT ![c] = NoUpd]
  /\ UNCHANGED <<worldVars, running, pageVars, temp, setup, pastVars>>

-----------------------------------------------------------------------------
(* The setup: deploy_to                                                    *)

\* kill_app_processes: everything that runs from the install directory, but
\* for the setup's parents: its updater, and the application that started it.
Clear(c) ==
  /\ setup[c].at = "clearing" /\ setup[c].bytes = "good"
  /\ setup' = [setup EXCEPT ![c].at = "extracting"]
  /\ LET spared == upd[c].child
     IN  /\ IF spared THEN UNCHANGED <<running, pageVars>> ELSE running' = 0 /\ PageEnds
         /\ upd' = [d \in Clicks |->
              IF d # c /\ UpdaterRuns(d) THEN NoUpd
              ELSE [upd[d] EXCEPT !.child = @ /\ spared]]
  /\ UNCHANGED <<worldVars, disk, temp, pastVars>>

\* What is not a setup does not run as one.
NotASetup(c) ==
  /\ setup[c].at = "clearing" /\ setup[c].bytes = "junk"
  /\ SetupEnds(c, FALSE)
  /\ UNCHANGED <<worldVars, disk, running, pageVars, temp, pastVars>>

\* Mutant: a file in use is left out.
ExtractOrSkip(c, x) ==
  /\ setup[c].at = "extracting" /\ x \in setup[c].todo
  /\ setup' = [setup EXCEPT ![c].todo = @ \ {x}]
  /\ disk' = IF Locked(x) THEN disk ELSE [disk EXCEPT ![x] = setup[c].release]
  /\ UNCHANGED <<worldVars, running, pageVars, temp, upd, pastVars>>

\* extract_payload stops at the first file it cannot write.
Extract(c, x) ==
  /\ setup[c].at = "extracting" /\ x \in setup[c].todo
  /\ IF Locked(x)
       THEN SetupEnds(c, FALSE) /\ UNCHANGED disk
       ELSE /\ disk' = [disk EXCEPT ![x] = setup[c].release]
            /\ setup' = [setup EXCEPT ![c].todo = @ \ {x}]
            /\ UNCHANGED upd
  /\ UNCHANGED <<worldVars, running, pageVars, temp, pastVars>>

WriteFails(c, x) ==
  /\ setup[c].at = "extracting" /\ x \in setup[c].todo /\ ~ Locked(x)
  /\ disk' = [disk EXCEPT ![x] = Torn] /\ faulty' = TRUE
  /\ SetupEnds(c, FALSE)
  /\ UNCHANGED <<worldVars, running, pageVars, temp, overlapped>>

\* ensure_main_exe, and a copy of the setup where there is no updater.
Deployed(c) ==
  /\ setup[c].at = "extracting" /\ setup[c].todo = {}
  /\ SetupEnds(c, disk["main"] # Missing)
  /\ disk' = IF disk["main"] # Missing /\ disk["updater"] = Missing
               THEN [disk EXCEPT !["updater"] = setup[c].release] ELSE disk
  /\ UNCHANGED <<worldVars, running, pageVars, temp, pastVars>>

-----------------------------------------------------------------------------
(* Around it                                                               *)

\* The user closes the application: the page is gone, an updater an orphan.
AppQuits ==
  /\ running # 0
  /\ running' = 0 /\ PageEnds /\ upd' = Orphaned
  /\ UNCHANGED <<worldVars, disk, temp, setup, pastVars>>

Open ==
  /\ running = 0 /\ disk["main"] \in Builds
  /\ running' = disk["main"]
  /\ UNCHANGED <<worldVars, disk, pageVars, temp, upd, setup, pastVars>>

Offer ==
  /\ feed' \in Builds \ {feed}
  /\ UNCHANGED <<payload, hashed, disk, running, pageVars, temp, upd, setup, pastVars>>

PowerOff ==
  /\ \E c \in Clicks : upd[c] # NoUpd \/ setup[c] # NoSetup
  /\ running' = 0 /\ PageEnds /\ faulty' = TRUE
  /\ upd' = [c \in Clicks |-> NoUpd] /\ setup' = [c \in Clicks |-> NoSetup]
  /\ UNCHANGED <<worldVars, disk, temp, overlapped>>

UpdaterActs(c) == WaitEnds(c) \/ RunSetup(c) \/ Restart(c) \/ Leave(c) \/ DeleteUpdater(c)
SetupActs(c) == Clear(c) \/ NotASetup(c) \/ Deployed(c) \/ \E x \in Files : Extract(c, x) \/ WriteFails(c, x)

UpdateNext ==
  \/ AppQuits \/ Open \/ Offer \/ PowerOff
  \/ \E c \in Clicks :
       \/ Ask(c) \/ Answers(c) \/ NoAnswer(c) \/ Fetched(c) \/ Verify(c) \/ Apply(c)
       \/ UpdaterActs(c) \/ SetupActs(c)

\* Processes that were started go on; the page and the user need not.
UpdateFairness ==
  \A c \in Clicks : WF_updateVars(UpdaterActs(c)) /\ WF_updateVars(SetupActs(c))
UpdateSpec == UpdateInit /\ [][UpdateNext]_updateVars /\ UpdateFairness

-----------------------------------------------------------------------------
(* Properties                                                              *)

\* Where the feed gives a hash, the setup that runs is the one that was
\* verified, although the file and the verified bytes are two things; two
\* updates at a time share the file.
RunsVerified ==
  \A c \in Clicks : setup[c].at # "none" /\ hashed /\ ~ overlapped => setup[c].bytes = "good"

\* The application is restarted only over a complete installation of the
\* release that was offered: what was locked, torn or interrupted ends as a
\* failure.
RestartIsWhole ==
  \A c \in Clicks :
    upd[c].at = "won" /\ ~ overlapped =>
      /\ disk["main"] \in Builds
      /\ \A x \in payload[upd[c].release] : disk[x] = upd[c].release

\* An updater ends, also when the application does not.
UpdateEnds == \A c \in Clicks : UpdaterRuns(c) ~> ~ UpdaterRuns(c)
=============================================================================
