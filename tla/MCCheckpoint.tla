---------------------------- MODULE MCCheckpoint ----------------------------
(* TLC instances of Checkpoint.  Among the trusted witnesses: one key under  *)
(* two names, one name with two keys, the operator's key and the operator's  *)
(* name, a weak key, a name sign_line does not put into a note.              *)
EXTENDS Checkpoint

Info(name, key) == [name |-> name, key |-> key]

MCOperator == Info("op", "KO")
w1 == Info("w1", "K1")
w2 == Info("w2", "K2")
MCPolicy ==
  {{w1, w2, Info("op", "K3")}, {w1, w2, Info("w4", "KW")},
   {w1, w2, Info("w1", "K2")}, {w1, Info("w3", "KO"), Info("w5 ctl", "K5")}}

LogA == NameLine("log A", TRUE)
LogB == NameLine("log B", TRUE)
\* One name only, a padded one, none, and one that brings a size and a root.
MCOrigin ==
  {<<LogA>>, <<LogB>>, <<NameLine("log A ", FALSE)>>, <<Blank>>,
   <<LogB, SizeLine(1, TRUE), RootLine("r2")>>}

\* The key pairs above leave the operator's signature to the sequencers.
ASSUME AloneAssumption == OperatorIsAlone

MCTree == {[size |-> 1, root |-> "r1"], [size |-> 2, root |-> "r2"]}
=============================================================================
