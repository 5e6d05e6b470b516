---------------------------- MODULE MCDnsParse ------------------------------
(* Small instances of DnsParse.                                            *)
EXTENDS DnsParse

\* Labels of one and of two octets.
MCLabel == {"a", "bb"}
MCLabelLen == [a |-> 1, bb |-> 2]
=============================================================================
