---------------------------- MODULE MCInvocation ----------------------------
(* All the helper processes an agent may start, for Invocation.            *)
EXTENDS Invocation

AnyHelpers == Helper
=============================================================================
