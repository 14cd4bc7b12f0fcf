------------------------------ MODULE MCHitagSApp ------------------------------
(* Instances of the application for TLC: two attempts stand for the 10 or 15  *)
(* of the worker, one or two presses for a patient and for a hurried user.    *)
EXTENDS HitagSApp
================================================================================
