---------------------------- MODULE MCProfileGate ----------------------------
(***************************************************************************)
(* Instances of ProfileGate for TLC; the constants are in the cfg files.   *)
(*                                                                         *)
(* Approval ids are random and nothing orders by them (the sweep reads the *)
(* oldest request first, any of those with equal times), so a behaviour is *)
(* one of OrderedSpec up to a renaming of its ids. A key starts with the   *)
(* kind of its memory; as a bound, k1 is the key of decisions and k2 that  *)
(* of the others.                                                          *)
(***************************************************************************)
EXTENDS ProfileGate

IdsInOrder == \A a, b \in ApprovalIds : a < b /\ b \in Present => a \in Present

KindsByKey ==
    \A m \in MemoryIds : (memories[m].key = "k1") <=> (memories[m].kind = "decision")

Ordered == IdsInOrder' /\ KindsByKey'

OrderedNext == Next /\ Ordered

OrderedSpec ==
    /\ Init /\ [][OrderedNext]_vars
    /\ \A p \in Passes : WF_vars(PassProgress(p) /\ Ordered)

=============================================================================
