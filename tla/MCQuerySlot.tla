---------------------------- MODULE MCQuerySlot ----------------------------
(* QuerySlot on the queries of a view for TLC. *)
EXTENDS QuerySlot

\* A table that depends on the filters, the rows of a page of it, and a legend.
MCOrder == <<"table", "rows", "legend">>

MCKeys ==
    [s \in Slots |->
        CASE s = "table"  -> {[filter |-> f] : f \in 1..2}
          [] s = "rows"   -> {[page |-> p] : p \in 1..2}
          [] s = "legend" -> {[page |-> 1], [filter |-> 1], [page |-> 2]}]

MCRetainOn == [s \in Slots |-> IF s = "rows" THEN {"page"} ELSE {}]

MCNeeds == [s \in Slots |-> IF s = "rows" THEN "table" ELSE None]
=============================================================================
