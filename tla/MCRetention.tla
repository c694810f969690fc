------------------------------- MODULE MCRetention -------------------------------
(* Three goroutines that call the manager: one in the middle of UpdateConfig, and *)
(* two that come between.                                                      *)
EXTENDS Retention
================================================================================
