-------------------------------- MODULE MCRtp --------------------------------
(* Constants for the model checking of Rtp. *)
EXTENDS Rtp

\* The frame number wraps, so that frames 2 and 7 have the same one.
Microphone == [server |-> 0, client |-> 7]

OneEach == [server |-> 1, client |-> 1]
=============================================================================
