---------------------------- MODULE MCRpcClient ----------------------------
(* Two interchangeable callers of a client that may try each call twice.   *)
EXTENDS RpcClient, TLC

CallerSymmetry == Permutations(Callers)
=============================================================================
