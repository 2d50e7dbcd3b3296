-------------------------- MODULE MCConverterStream --------------------------
(* TLC instance of ConverterStream: two tool calls, two tool indexes. *)
EXTENDS ConverterStream

MCNoIndex == -1
MCToolIndexes == 0..1
MCBlockIndexes == 0..2
==============================================================================
