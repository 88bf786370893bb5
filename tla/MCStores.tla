------------------------------ MODULE MCStores ------------------------------
(* Small values for Stores.                                                *)
EXTENDS Stores, TLC

CONSTANTS plain, raw, tidy, bad, endpoint, bitrate

MCCanonical == plain :> plain @@ raw :> tidy @@ tidy :> tidy @@ bad :> Invalid
MCDefaults == endpoint :> tidy @@ bitrate :> plain

(* A new installation, a file of an older version under the old name, one  *)
(* edited by hand under both, and one whose endpoint is refused.           *)
MCFirstSettings == {
    NoFile,
    [current |-> bitrate :> plain, legacy |-> endpoint :> raw],
    [current |-> endpoint :> tidy @@ bitrate :> plain, legacy |-> endpoint :> plain],
    [current |-> endpoint :> bad @@ bitrate :> plain, legacy |-> Nothing]}

MCUpdates == {File(endpoint :> raw), File(bitrate :> raw), File(endpoint :> bad)}

MCUrls == {"u1", "u2"}

(* A version 1 list with a URL twice and an item without one.              *)
Repeating == "u1" :> 2 @@ "u2" :> 0 @@ Blank :> 1
One(url) == [NoSources EXCEPT ![url] = 1]

MCFirstRegistry == {
    [version |-> "none", sources |-> NoSources],
    [version |-> "v1", sources |-> Repeating],
    V2(One("u2")),
    [version |-> "future", sources |-> One("u1")],
    [version |-> "corrupt", sources |-> One("u1")]}

Symmetry == Permutations(Threads)
=============================================================================
