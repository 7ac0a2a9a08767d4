------------------------------ MODULE MCShell ------------------------------
(***************************************************************************)
(* A small screen for Shell: 3 rows of 4 columns in a page of 14 cells, a  *)
(* prompt of one column, lines of up to 4 characters, so that a line wraps *)
(* and a few of them scroll the screen.  The commands are one letter each. *)
(***************************************************************************)
EXTENDS Shell

MCBanner  == <<"x", "nl">>
MCPrompt  == <<">">>
MCUnknown == <<"?">>
MCHint    == <<"nl">>
MCPFAULT  == <<"b", "b">>

(* help prints two lines, mem one.                                         *)
MCCommands ==
  [name \in {<<"a">>, <<"b">>, MCPFAULT} |->
     CASE name = <<"a">> -> <<"x", "nl", "x", "nl">>
       [] name = <<"b">> -> <<"y", "nl">>
       [] OTHER          -> <<"x", "nl">>]
=============================================================================
