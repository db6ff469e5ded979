--------------------------- MODULE MCAuthSessions ---------------------------
(* A small instance of AuthSessions for TLC. *)
EXTENDS AuthSessions, TLC
=============================================================================
