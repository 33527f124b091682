--------------------------- MODULE MCVersionChain ---------------------------
(* All shapes of versions over the numbers 0 and 1. *)
EXTENDS VersionChain

Identifiers == [numeric : BOOLEAN, value : 0..1]
MCSemverVersions ==
    [ok : {TRUE}, text : {0}, pseudo : {FALSE}, major : {1}, minor : 0..1, patch : 0..1,
     pre : {<<>>} \cup [1..1 -> Identifiers] \cup [1..2 -> Identifiers]]

MCPEP440Versions ==
    {v \in [ok : {TRUE}, text : {0}, epoch : {0}, release : {<<1>>, <<1, 0>>, <<1, 1>>},
            prePhase : 0..2, preNum : 0..1, hasPost : BOOLEAN, postNum : 0..1,
            hasDev : BOOLEAN, devNum : 0..1] :
        /\ v.prePhase # 1 => v.preNum = 0
        /\ ~v.hasPost => v.postNum = 0
        /\ ~v.hasDev => v.devNum = 0}
    \cup
    [ok : {TRUE}, text : {0}, epoch : {1}, release : {<<1>>}, prePhase : {0}, preNum : {0},
     hasPost : {FALSE}, postNum : {0}, hasDev : {FALSE}, devNum : {0}]
=============================================================================
