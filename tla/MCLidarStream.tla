--------------------------- MODULE MCLidarStream ----------------------------
(* Values of the constants of LidarStream for TLC. *)
EXTENDS LidarStream, TLC

\* The frames differ in nothing but their names.
FrameSymmetry == Permutations(Packets)
=============================================================================
