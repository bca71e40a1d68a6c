------------------------------- MODULE Upload -------------------------------
(***************************************************************************)
(* What a caller of the gRPC sink relies on while the replay buffer is     *)
(* large enough: however often the stream breaks, the backend stores the   *)
(* events in order and without gaps, and the sink reports Ok only when the *)
(* backend has them all, up to the last one or to the end of the upstream. *)
(***************************************************************************)
EXTENDS Naturals

CONSTANT Final  \* the events that end a build

VARIABLES published, closed, stored, outcome

uvars == <<published, closed, stored, outcome>>

UploadInit ==
  /\ published = 0
  /\ closed = FALSE
  /\ stored = {}
  /\ outcome = "running"

Produce ==
  /\ ~closed
  /\ published' = published + 1
  /\ UNCHANGED <<closed, stored, outcome>>

CloseUpload ==
  /\ closed' = TRUE
  /\ UNCHANGED <<published, stored, outcome>>

Store ==
  /\ \E n \in 1..published : stored = 1..(n - 1) /\ stored' = 1..n
  /\ UNCHANGED <<published, closed, outcome>>

Complete == \/ Final \cap stored # {}
            \/ closed /\ stored = 1..published

Report ==
  /\ outcome = "running"
  /\ \/ outcome' = "ok" /\ Complete
     \/ outcome' = "err"
  /\ UNCHANGED <<published, closed, stored>>

UploadNext == Produce \/ CloseUpload \/ Store \/ Report

UploadSpec == UploadInit /\ [][UploadNext]_uvars
=============================================================================
