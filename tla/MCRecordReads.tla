---------------------------- MODULE MCRecordReads ----------------------------
(* RecordReads with two days of two moments and a rate card of primes.        *)
EXTENDS RecordReads

Rates == [labor |-> 2, equipment |-> 3, material |-> 5]
=============================================================================
