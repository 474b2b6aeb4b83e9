----------------------------- MODULE MCUpdating -----------------------------
(* Three endpoints, the middle one configured without TLS.                 *)
EXTENDS Updating
MCEndpoints == <<"https", "http", "https">>
=============================================================================
