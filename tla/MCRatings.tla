----------------------------- MODULE MCRatings -----------------------------
(***************************************************************************)
(* Small instances of Ratings for TLC.                                     *)
(***************************************************************************)
EXTENDS Ratings

CONSTANTS b1, b2, b3, b4, w1, w2

\* Two bookings of one washer, one of another, and an old one without a washer.
MCWasherOf == [b \in Bookings |-> CASE b \in {b1, b2} -> w1
                                    [] b = b3 -> w2
                                    [] OTHER -> None]
=============================================================================
