-------------------------- MODULE BatchPipelineMC --------------------------
(* Two inputs, two output paths and two worker threads: the inputs share a path or
   do not, run beside each other or one after the other, and are split over the
   phases in every way. *)
EXTENDS BatchPipeline

CONSTANTS p1, p2
=============================================================================
