------------------------------ MODULE MCAuditSync ------------------------------
(* Two nodes that both receive trust events and copy from each other. *)
EXTENDS AuditSync

CONSTANTS a, b, e1

Mirror == Permutations({a, b})
===============================================================================
