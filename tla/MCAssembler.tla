---------------------------- MODULE MCAssembler ----------------------------
(***************************************************************************)
(* An instance of Assembler: 5-byte frames, chunks of every length a       *)
(* 5-byte buffer holds, a stream of seven frames.  After each frame the    *)
(* next can start with any number of leftovers, so two frames already show *)
(* every combination of counter, leftovers and chunk.                      *)
(***************************************************************************)
EXTENDS Assembler

MCPacketSize == 5
MCMaxChunk == 5
MCMaxBytes == 35
=============================================================================
