--------------------------- MODULE MCProviderCalls ---------------------------
(* The instance of ProviderCalls for TLC; the cfg file gives the constants.  *)
EXTENDS ProviderCalls
=============================================================================
