--------------------------- MODULE MCSecureConnection ---------------------------
(* One session of the secure transport. *)
EXTENDS SecureConnection

CONSTANTS a, b
===============================================================================
