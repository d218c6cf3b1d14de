------------------------------ MODULE MCLaunch ------------------------------
(* Instances of Launch for TLC.                                            *)
EXTENDS Launch

CONSTANTS s1, s2, by_hand
=============================================================================
