---------------------------- MODULE MCTlsServer ----------------------------
(***************************************************************************)
(* An instance of TlsServer: one client that is being served, one that     *)
(* comes or goes meanwhile.  A worker touches no variable of another       *)
(* worker, so a third one repeats what the second does to the globals.     *)
(***************************************************************************)
EXTENDS TlsServer
=============================================================================
