------------------------------- MODULE MCOsh --------------------------------
(***************************************************************************)
(* Three lines, typed to whichever shell is at its prompt, and four        *)
(* processes.  "cat &" and the like have no operands that matter.          *)
(***************************************************************************)
EXTENDS Osh

MCLines == {
  <<"cat", "proc">>, <<"cat", "proc", "&">>, <<"echo", "1", ">", "proc">>,
  <<"cat", "<", "proc">>, <<"cat", "proc", "|", "less">>, <<"yes", "|", "less", "-e">>,
  <<"yes", "|", "less">>, <<"nosuch">>, <<"!!">>, <<"exit">>}
=============================================================================
