----------------------------- MODULE MCConsole -----------------------------
(* An instance of Console for TLC: the links and the rows of each table.   *)
EXTENDS Console

MCLinks == {<<1, 2>>, <<2, 3>>}
MCRows == [memories |-> 3, sessions |-> 1]

=============================================================================
