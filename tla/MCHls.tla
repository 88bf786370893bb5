------------------------------- MODULE MCHls --------------------------------
(***************************************************************************)
(* Small instances of the HLS sessions.                                    *)
(***************************************************************************)
EXTENDS HlsSessions, TLC

\* The code tries twice for the web player, three times for external players.
TwoAttempts == [start |-> 2, auto |-> 2, serve |-> 2]

\* The operations of the threads of an instance.
AnyRequest == [w \in Workers |-> AllOps]
Players == [w \in Workers |-> {"start", "serve", "stop"}]

WorkerSymmetry == Permutations(Workers)
=============================================================================
