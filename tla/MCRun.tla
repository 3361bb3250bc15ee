-------------------------------- MODULE MCRun ---------------------------------
(* The numbers TLC runs Run with.                                          *)
EXTENDS Run

AllStatuses == 0..255
AllSignals  == 1..64
===============================================================================
