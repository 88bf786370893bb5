------------------------------ MODULE MCAgenda ------------------------------
(***************************************************************************)
(* A catalogue of "DAZN 1" and "DAZN 2" against a guide that names them    *)
(* and one web-only broadcaster.  The events of the first page start so    *)
(* that 21:29 and 21:30 lie on both sides of every window: begun three     *)
(* hours ago, live for 135 minutes, live in five, two hours ahead.  One    *)
(* event is live at an hour the guide cannot read, and one has an hour     *)
(* that only the guide can.                                                *)
(***************************************************************************)
EXTENDS Agenda, TLC

CONSTANTS s1, s2, g1, g2, gx, v1

Dazn(n) == [words |-> {"dazn"}, dial |-> n]

MCTokensOf == (s1 :> Dazn(1)) @@ (s2 :> Dazn(2))
MCEquivalences == (g1 :> {Dazn(1)}) @@ (g2 :> {Dazn(2)}) @@ (gx :> {Dazn(1)})
MCTvgIdOf == (s1 :> v1) @@ (s2 :> NoTvg)

Read(when, printed, names) ==
    [when |-> when, printed |-> printed, complete |-> TRUE, channels |-> names]
MCRow(when, names) == Read(when, when, names)

FullPage ==
    << MCRow(1109, {g1}), MCRow(1154, {g1, gx}), MCRow(1295, {g2}),
       Read(1265, NoTime, {g1}), Read(NoTime, 1300, {g1}), MCRow(1300, {gx}),
       [when |-> 1300, printed |-> 1300, complete |-> FALSE, channels |-> {g1}],
       MCRow(1410, {g1, g2}), MCRow(1450, {g2}) >>

EmptyPage == << >>

MCPages == {FullPage, EmptyPage}
MCCatalogs == {{s1, s2}, {s1}}
MCFirstWorlds == {<<FullPage, {s1, s2}>>}
=============================================================================
