---------------------------- MODULE MCPluginStart -----------------------------
(***************************************************************************)
(* Small instances of PluginStart: no builtins.                            *)
(***************************************************************************)
EXTENDS PluginStart, TLC

NoBuiltins == <<>>
NoBundles  == [{} -> Releases]

\* Calls differ in nothing but their name.
SameCalls == Permutations(Calls)
=============================================================================
