---------------------------- MODULE MCAuthProxy ----------------------------
(* Instances of AuthProxy for TLC: RpcMax and Overhead are scaled down from *)
(* 4096 and 6.                                                             *)
EXTENDS AuthProxy
=============================================================================
