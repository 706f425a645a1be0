------------------------------ MODULE MCSiteDay ------------------------------
(* SiteDay as it is: a day of four ticks, of which the first engine misses     *)
(* two, and trips of two ticks, which count, and of three, which do not.       *)
EXTENDS SiteDay
=============================================================================
