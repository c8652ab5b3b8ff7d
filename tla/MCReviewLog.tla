---------------------------- MODULE MCReviewLog -----------------------------
(* ReviewLog for TLC.                                                        *)
EXTENDS ReviewLog, TLC
=============================================================================
