--------------------------- MODULE MCInstallLedger ---------------------------
(***************************************************************************)
(* Small instances of InstallLedger.                                       *)
(***************************************************************************)
EXTENDS InstallLedger

CONSTANTS b1, x1, x2

\* No builtins: the one build that bundles nothing.
NoBuiltins == <<>>
NoBundles  == [{} -> Releases]

\* One builtin, two builds with a release of it each.
OneBuiltin == <<b1>>
OneBundles == {[b \in {b1} |-> x] : x \in {x1, x2}}
=============================================================================
