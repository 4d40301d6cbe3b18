------------------------------ MODULE MCStores ------------------------------
(* Three ids and pages of one row, so that a walk takes up to three cursors, *)
(* and an id that is inserted falls before, between or after them; two       *)
(* values, so that sorts and filters tell rows apart and sorts meet ties.    *)
EXTENDS Stores

Listing(mode, sort, filter) == [mode |-> mode, sort |-> sort, filter |-> filter]
MCListings ==
    {Listing("cursor", FALSE, Unfiltered), Listing("cursor", FALSE, 1),
     Listing("cursor", TRUE, Unfiltered), Listing("offset", TRUE, Unfiltered)}

Live(v) == [is |-> "live", val |-> v]
MCStocks == {<<Live(1), [is |-> "absent", val |-> 0], Live(0)>>}
=============================================================================
