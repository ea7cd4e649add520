------------------------------- MODULE Overlay -------------------------------
(* What Python does to mappings and lists when it merges, sorts and filters them. *)
EXTENDS Integers, FiniteSets

\* dict.update and {**old, **new}: what the newer of two mappings says comes first.
Over(new, old) ==
    [x \in DOMAIN new \cup DOMAIN old |-> IF x \in DOMAIN new THEN new[x] ELSE old[x]]

\* sorted: each element has those before it that the order of pairs puts there.
Listed(S, before) ==
    [i \in 1..Cardinality(S) |->
        CHOOSE x \in S : Cardinality({y \in S : <<y, x>> \in before}) = i - 1]

\* [x for x in seq if ...]: the elements at some positions, in their order.
At(seq, positions) ==
    LET order == Listed(positions, {p \in positions \X positions : p[1] < p[2]})
    IN  [i \in DOMAIN order |-> seq[order[i]]]
=============================================================================
