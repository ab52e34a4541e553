----------------------------- MODULE MCCrdtRuntime -----------------------------
(* CrdtRuntime on two nodes. *)
EXTENDS CrdtRuntime

CONSTANTS v1, v2, g1

MCRegisterBoth == [n \in Node |-> CrdtId]

\* The register only, as IrisNode registers it.
MCRegisterOnly == [n \in Node |-> {"reg"}]
===============================================================================
