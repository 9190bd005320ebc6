---------------------------- MODULE MCLocalInference ----------------------------
(* Checking LocalInference with TLC. *)
EXTENDS LocalInferenceProperties
=============================================================================
