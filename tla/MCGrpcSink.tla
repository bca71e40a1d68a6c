----------------------------- MODULE MCGrpcSink -----------------------------
(* Sizes and last-message positions for the runs of GrpcSink.              *)
EXTENDS GrpcSink

MixedSizes == <<1, 2, 4, 1, 2>>  \* the first two fit a budget of 3, the third is oversized
MixedUpto == [n \in 0..5 |-> <<0, 1, 3, 7, 8, 10>>[n + 1]]

FifthIsLast == {5}
=============================================================================
