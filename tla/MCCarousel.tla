----------------------------- MODULE MCCarousel -----------------------------
(***************************************************************************)
(* A small instance of Carousel for TLC.                                   *)
(***************************************************************************)
EXTENDS Carousel, TLC

Symmetry == Permutations(Slides) \cup Permutations(Looks)
              \cup Permutations(Slots) \cup Permutations(Watchers)
=============================================================================
