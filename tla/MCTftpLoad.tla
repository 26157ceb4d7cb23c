----------------------------- MODULE MCTftpLoad -----------------------------
(* Instances of TftpLoad for TLC: a file of a few blocks, one client port or *)
(* two, and a server with one session or two.                                *)
EXTENDS TftpLoad
=============================================================================
