-------------------------------- MODULE MCApp --------------------------------
(* Instances of AppLifecycle for TLC.                                      *)
EXTENDS AppLifecycle

CONSTANTS r1, r2, f1

=============================================================================
