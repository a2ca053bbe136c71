---------------------------- MODULE MCRpcClient ----------------------------
(***************************************************************************)
(* RpcClient on a small instance: the list handler, whose client waits     *)
(* for it, and a detail handler whose client may hang up.  No symmetry,    *)
(* because liveness is checked.                                            *)
(***************************************************************************)
EXTENDS RpcClient
=============================================================================
