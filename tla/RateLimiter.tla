---------------------------- MODULE RateLimiter -----------------------------
(***************************************************************************)
(* The fixed-window limiter in front of the API: what one call of Allow    *)
(* does to the limiter's entries.  Times are integers, 0 is Go's zero      *)
(* time, and a key without an entry has NoEntry.  The reading of the clock *)
(* a call uses was taken before the limiter's lock, so now may lie before  *)
(* what an entry or the last collection holds.                             *)
(***************************************************************************)
EXTENDS Integers

CONSTANTS
  Window,        \* the length of a window
  CollectAfter   \* windows between two collections of old entries, 5 in the code

ASSUME WindowAssumption == Window \in Nat \ {0} /\ CollectAfter \in Nat \ {0}

NoEntry == [windowStart |-> 0, count |-> 0]

CollectDue(lastGC, now) == now - lastGC >= CollectAfter * Window

Collected(entries, now) ==
  [k \in DOMAIN entries |->
     IF now - entries[k].windowStart >= 2 * Window THEN NoEntry ELSE entries[k]]

\* The entry a call counts itself in: a new one when the old window is over.
Current_Unbounded(entry, now) ==
  IF now # entry.windowStart THEN [windowStart |-> now, count |-> 0] ELSE entry
Current(entry, now) ==
  IF entry.windowStart = 0 \/ now - entry.windowStart >= Window
    THEN [windowStart |-> now, count |-> 0]
    ELSE entry

Admits_Early(entry, limit) == entry.count + 1 < limit
Admits(entry, limit) == entry.count < limit

Counted(entry, limit) ==
  IF Admits(entry, limit) THEN [entry EXCEPT !.count = @ + 1] ELSE entry

=============================================================================
