--------------------------- MODULE MCInvestigation --------------------------
(* Four requests of read tools and one that is none. *)
EXTENDS Investigation

CONSTANTS t1, t2, t3, t4, bad

\* A tool's evidence has a longer source than what the service adds itself.
ShortAndLongSources == [o \in Requests \cup {"baseline", "rejected", "limit"} |->
                          IF o \in Requests THEN 2 ELSE 1]

=============================================================================
