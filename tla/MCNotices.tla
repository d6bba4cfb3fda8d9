----------------------------- MODULE MCNotices -----------------------------
(***************************************************************************)
(* Small instances of Notices for TLC, over those of MCMarketplace.        *)
(***************************************************************************)
EXTENDS Notices, MCMarketplace
=============================================================================
