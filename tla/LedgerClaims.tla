----------------------------- MODULE LedgerClaims -----------------------------
(***************************************************************************)
(* What comments and tests of the repository say of the installation       *)
(* ledger and the code does not do.  Each claim is refuted by a run.       *)
(***************************************************************************)
EXTENDS MCInstallLedger

\* The releases of the running build take effect: when setup has gone through
\* the builtins, whatever it met, each of them has its bundled release active
\* (the comment on the builtin branch of the installer says a new release is
\* made active directly because it would never take effect otherwise; the test
\* of register_builtins asserts it of a first start).  A failure to copy a
\* file or to write the ledger during this very start is not counted.
BundledReleaseTakesEffect ==
  [][app = "booting" /\ op = Idle /\ app' = "running" =>
       \A b \in Builtins : \E i \in DOMAIN ledger' :
         ledger'[i].pkg = b /\ ledger'[i].active.rel = bundle[b]]_ledgerVars

\* The host deletes no source directory of a developer, whatever is done with
\* the installation (the comment on unregister_dev_dir and the test after it:
\* neither the source directory nor user data is deleted).
SourcesKept == SourcesUntouched
=============================================================================
