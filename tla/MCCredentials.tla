---------------------------- MODULE MCCredentials ----------------------------
(* Instances of Credentials for TLC. *)
EXTENDS Credentials
CONSTANTS a, b, pw1, pw2, pw3
=============================================================================
