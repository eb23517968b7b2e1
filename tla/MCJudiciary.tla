---------------------------- MODULE MCJudiciary ----------------------------
(* Two workers' actions over two cache keys, or three over one key: enough *)
(* for an approval to be stored, and to be looked up late.                 *)
EXTENDS RulesHistory

CONSTANTS a1, a2, a3, k1, k2

MCActions == {a1, a2, a3}
MCTwoActions == {a1, a2}
MCKeys == {k1, k2}
MCOneKey == {k1}
=============================================================================
