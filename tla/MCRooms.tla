------------------------------- MODULE MCRooms ------------------------------
(* Small instances of Rooms. *)
EXTENDS Rooms, TLC

CONSTANTS s1, s2, lobby

\* files of the channels directory: with and without rooms, and three that
\* load_channels skips
MCFiles ==
    LET file(n, r, p, d) == [named |-> n, readable |-> r, parses |-> p, def |-> d]
        def(a, r) == [auth |-> a, rooms |-> r]
    IN  {file(TRUE, TRUE, TRUE, def({"member"}, TRUE)),
         file(TRUE, TRUE, TRUE, def({"public"}, FALSE)),
         file(TRUE, TRUE, FALSE, def({"none"}, TRUE)),
         file(TRUE, FALSE, TRUE, def({"none"}, TRUE)),
         file(FALSE, TRUE, TRUE, def({"none"}, TRUE))}

MCTokens == {[kind |-> "none", role |-> ""], [kind |-> "invalid", role |-> ""],
             [kind |-> "valid", role |-> "member"], [kind |-> "valid", role |-> "viewer"]}
=============================================================================
