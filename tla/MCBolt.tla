-------------------------------- MODULE MCBolt --------------------------------
(* The whole of sign_bolt_rdk.sh.  BoltSign writes an archive in one step and *)
(* BoltZip counts the bytes of one: they share no variable, so either one     *)
(* runs from its initial state while the other rests in its own.              *)
EXTENDS MCBoltSign, MCBoltZip

SigningRests == Init /\ call = CHOOSE c \in Calls : TRUE
ArchiveRests == ZipInit /\ listing = <<>>

ScriptInit == \/ Init /\ ArchiveRests
              \/ SigningRests /\ ZipInit

ScriptNext == \/ Next /\ ArchiveRests /\ UNCHANGED zipVars
              \/ ZipNext /\ SigningRests /\ UNCHANGED vars

ScriptSpec == ScriptInit /\ [][ScriptNext]_<<vars, zipVars>>
===============================================================================
