---------------------------- MODULE MCWrapupSync ----------------------------
(* A small instance of the wrap-up pipeline.                                *)
EXTENDS WrapupSync
=============================================================================
