------------------------ MODULE MCProducerController ------------------------
(***************************************************************************)
(* Small instances of ProducerController for TLC.                          *)
(***************************************************************************)
EXTENDS ProducerProperties
=============================================================================
