--------------------------- MODULE MCUploadResume ---------------------------
(* Two versions that share size and time stamp, so that one upload resumes   *)
(* the other's temporary file, and a shorter one.                            *)
EXTENDS UploadResume

MCSize == [v1 |-> 2, v2 |-> 2, v3 |-> 1]
MCName == [v1 |-> "n1", v2 |-> "n1", v3 |-> "n2"]
=============================================================================
