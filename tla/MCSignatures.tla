---------------------------- MODULE MCSignatures ----------------------------
(***************************************************************************)
(* A group of two, both of whom must sign.  Transactions of peers are said *)
(* to be ready without a signature, or signed by one; those that are       *)
(* neither signed nor ready are made here.  Those of blocks are signed by  *)
(* nobody or by both.                                                      *)
(***************************************************************************)
EXTENDS Signatures

CONSTANTS m1, m2

MCMembers == {m1, m2}
MCPeerCopies ==
  {[sigs |-> <<>>, array |-> FALSE, ready |-> TRUE],
   [sigs |-> <<m1>>, array |-> TRUE, ready |-> FALSE]}
MCBlockCopies ==
  {[sigs |-> <<>>, array |-> FALSE, ready |-> FALSE],
   [sigs |-> <<m1, m2>>, array |-> TRUE, ready |-> TRUE]}
=============================================================================
