----------------------------- MODULE MCEbpfLoader -----------------------------
(***************************************************************************)
(* Instances of EbpfLoader for TLC: with two plugins and two programs a    *)
(* plugin is reloaded while its first program runs, or both plugins run.   *)
(***************************************************************************)
EXTENDS EbpfLoader

==============================================================================
