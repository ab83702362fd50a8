---------------------------- MODULE MCUrbPipeline ----------------------------
(***************************************************************************)
(* Three URBs instead of SDRGG_STREAM_BUF_COUNT: enough for one to be with *)
(* the event loop, one completed and one in flight.                        *)
(***************************************************************************)
EXTENDS UrbPipeline

ThreeUrbs == 3

\* Every URB has been through the device once and one of them twice.
OneRoundAndMore == ThreeUrbs + 1
=============================================================================
