------------------------------- MODULE MCPid1 --------------------------------
(***************************************************************************)
(* Boot from the kernel's first process to the reboot.                     *)
(***************************************************************************)
EXTENDS Pid1, TLC

CONSTANTS o1, o2

MCOrphans == {o1, o2}

Token(key, num) == [key |-> key, num |-> num]

\* A plain command line, one that sets the wait twice, one whose wait does not
\* parse, one without a root, one that asks for recovery.
MCCmdLines ==
  {<<Token("root", <<>>)>>,
   <<Token("rootwait", <<0>>), Token("root", <<>>), Token("rootwait", <<3>>)>>,
   <<Token("root", <<>>), Token("rootwait", <<>>)>>,
   <<Token("other", <<>>), Token("rootwait", <<1>>)>>,
   <<Token("recovery", <<>>), Token("root", <<>>)>>}

==============================================================================
