------------------------------ MODULE MCStartup ------------------------------
(***************************************************************************)
(* Instances of Startup: two bridges and a process that only opens the     *)
(* database, such as the facade or a command of the CLI.                   *)
(***************************************************************************)
EXTENDS Startup

CONSTANTS a1, b1, facade, python, bash
=============================================================================
