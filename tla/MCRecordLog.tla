---------------------------- MODULE MCRecordLog ----------------------------
(* RecordLog on short histories.                                           *)
EXTENDS RecordLog

\* One-cell changes of a three-cell state are worth a diff, others are not.
A == <<0, 0, 0>>
B == <<1, 0, 0>>
C == <<1, 1, 0>>
MCHistories == {<<A, B, A, B>>, <<A, Absent, B, C>>, <<A, B, C, <<1>>>>}
MCShort == {<<A, B, C>>, <<A, Absent, B>>}
=============================================================================
