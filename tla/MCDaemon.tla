----------------------------- MODULE MCDaemon -----------------------------
(* Instances of Daemon for TLC; the constants are in the cfg files.        *)
EXTENDS Daemon

=============================================================================
