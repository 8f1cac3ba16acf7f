---------------------------- MODULE MC_Startup ----------------------------
(***************************************************************************)
(* Command lines of up to three flags, in any order and given twice, with  *)
(* values that are missing, empty, no number, out of range, look like a    *)
(* flag, or are lists with holes.                                          *)
(***************************************************************************)
EXTENDS Startup, TLC

MCNumber == (<<"0">> :> 0) @@ (<<"1">> :> 1) @@ (<<"3">> :> 3) @@ (<<"-1">> :> -1) @@ (<<"9999">> :> 9999)

Groups ==
  {<<<<"--model">>, v>> : v \in {<<"m">>, <<>>, <<"--help">>}}
    \cup {<<<<"--ctx">>, v>> : v \in {<<"3">>, <<"1">>, <<"0">>, <<"9999">>, <<"x">>, <<"--model">>}}
    \cup {<<<<"--threads">>, v>> : v \in {<<"-1">>, <<"1">>}} \cup {<<<<"--ngl">>, <<"-1">>>>}
    \cup {<<<<"--devices">>, v>> : v \in {<<"g0">>, <<"g1", ",", "g0">>, <<"g0", ",", "g0">>, <<"g0", ",">>,
                                          <<"none">>}}
    \cup {<<<<"--tensor-split">>, v>> : v \in {<<"3", ",", "1">>, <<"0", ",", "0">>, <<"0">>, <<"-1">>, <<"1">>,
                                               <<"1", ",", "3", ",", "0">>, <<"x">>}}
    \cup {<<<<"--help">>>>, <<<<"-h">>>>, <<<<"--version">>>>, <<<<"--list-devices">>>>, <<<<"--bogus">>>>, <<<<"--ctx">>>>}

MCCommandLines == {<<>>} \cup {g \o h \o i : g, h, i \in Groups} \cup {g \o h : g, h \in Groups}

D(n, t) == [name |-> n, type |-> t]
MCMachines == {<<D("cpu", "cpu")>>, <<D("g0", "igpu"), D("g1", "gpu"), D("cpu", "cpu")>>,
               <<D("g0", "gpu"), D("g1", "gpu")>>}

G == [loads |-> TRUE, vocab |-> TRUE, pooling |-> "none", train |-> 0, warm |-> TRUE, template |-> "good"]
MCGgufs == {G, [G EXCEPT !.loads = FALSE], [G EXCEPT !.vocab = FALSE], [G EXCEPT !.pooling = "rank"],
            [G EXCEPT !.template = "bad", !.warm = FALSE], [G EXCEPT !.pooling = "mean"],
            [G EXCEPT !.pooling = "mean", !.train = 1]}
=============================================================================
