----------------------------- MODULE UpdateClaims -----------------------------
(***************************************************************************)
(* What the repository says of an update, checked against what it does.    *)
(* The payload is what build-installer.mjs packs: application and updater. *)
(***************************************************************************)
EXTENDS SelfUpdate

BuiltPayload == {[r \in Builds |-> Files]}

\* "The updater was started, it will overwrite and restart" (SettingsPanel):
\* once the application has ended, a sound setup that runs alone and whose
\* writes succeed ends with a restart.  In fact its payload holds updater.exe,
\* which is the file the updater runs from, and the setup stops there.
UpdateTakesEffect ==
  [][\A c \in Clicks :
       setup[c].at = "extracting" /\ running = 0 /\ setup'[c].at = "none"
         /\ ~ overlapped /\ ~ faulty' => upd'[c].at = "won"]_updateVars
=============================================================================
