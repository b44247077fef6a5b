-------------------------------- MODULE Null --------------------------------
(* The constant the modules share: NULL where the code has a pointer, and    *)
(* the value of every variable of a module while, in a run made of several   *)
(* modules, only another one moves.                                          *)
CONSTANT None
=============================================================================
