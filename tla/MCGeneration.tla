-------------------------------- MODULE MCGeneration --------------------------------
(* One generation, small channels: a queue and an event channel of one place make   *)
(* full channels happen with three events.                                          *)
EXTENDS Generation
=====================================================================================
