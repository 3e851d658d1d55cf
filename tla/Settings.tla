------------------------------ MODULE Settings ------------------------------
(***************************************************************************)
(* A program that reads its command line and then the configuration file   *)
(* that an option names.                                                   *)
(***************************************************************************)
EXTENDS Options, Configuration

CONSTANT FileVar

readVars == <<optVars, confVars>>

ReadInit == OptInit /\ ConfInit

Load == phase = "gone" /\ value[FileVar] # NONE /\ ConfNext /\ UNCHANGED optVars
ReadNext == (OptNext /\ UNCHANGED confVars) \/ Load

ReadSpec == ReadInit /\ [][ReadNext]_readVars

=============================================================================
