----------------------------- MODULE BridgeClaims -----------------------------
(***************************************************************************)
(* What a comment says of the bridge and the code does not do.             *)
(***************************************************************************)
EXTENDS MCBridge

\* Repetition does not make the platform execute, and bill, a request a second
\* time (the comment of relay_with_retry: a timeout of the gateway is not
\* repeated, because the request may have been executed by then and a
\* repetition would bill twice).
RepetitionNeverBillsTwice == \A k \in Conns : conn[k].ran <= 1
=============================================================================
