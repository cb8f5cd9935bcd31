---------------------------- MODULE MCWriterLease ----------------------------
(* A small instance of WriterLease: two supervisors and one operator tool. *)
(* A tick is one renewal interval (15 s).  The lease lives for three of    *)
(* them, one less than in the code, so that it can expire within MaxClock. *)
(* The clock of the tool's host is a tick ahead of the others, or none is. *)
EXTENDS WriterLease, TLC

CONSTANTS s1, s2, t1

ToolAhead == [h \in Holders |-> IF h \in Tools THEN 1 ELSE 0]
NoneAhead == [h \in Holders |-> 0]

SupervisorSymmetry == Permutations(Supervisors)
=============================================================================
