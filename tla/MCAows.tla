-------------------------------- MODULE MCAows --------------------------------
(* The voice server's sessions and its decoder.  A message is decoded before  *)
(* node runs any other handler and the decoder keeps nothing between two      *)
(* messages, so either one runs from its initial state while the other rests. *)
EXTENDS AowsServer, MCAdpcm

DecoderRests == DecoderInit /\ length = 0 /\ format.frame = 3

ServerInit == Init /\ DecoderInit
ServerNext == \/ Next /\ DecoderRests /\ UNCHANGED decoderVars
              \/ DecoderNext /\ Init /\ UNCHANGED vars

ServerSpec == ServerInit /\ [][ServerNext]_<<vars, decoderVars>> /\ Fairness
===============================================================================
