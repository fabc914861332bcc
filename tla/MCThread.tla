----------------------------- MODULE MCThread -----------------------------
(* A small instance of CaptureThread: a packet that the filter wants and   *)
(* one it does not, headers and records of one to two bytes.               *)
EXTENDS CaptureThread

CONSTANTS hit, miss

MCIds == {hit, miss}
MCMatching == {hit}
=============================================================================
