----------------------------- MODULE MCEmbedQueue -----------------------------
(* Instances of EmbedQueue for TLC; the constants are in the cfg files.     *)
EXTENDS EmbedQueue

=============================================================================
