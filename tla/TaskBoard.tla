------------------------------ MODULE TaskBoard ------------------------------
(***************************************************************************)
(* What the outbound task queue promises its callers, with runners,        *)
(* leases, polling and the network left out.  A caller posts a task and    *)
(* waits.  The tool may be tried any number of times, each try under a     *)
(* number of its own; the board adopts the result of one try, once and for *)
(* good; a waiting caller is told exactly that result.                     *)
(***************************************************************************)
EXTENDS Naturals

CONSTANT Tasks      \* the dispatched tool calls

VARIABLES
  state,     \* per task: "absent", "open" or "settled"
  tried,     \* per task: the numbers of the tries that ran the tool
  outcome,   \* per task: the try whose result was adopted, 0 before that
  told       \* per task: where its caller stands, and the try it was told of

vars == <<state, tried, outcome, told>>

Init ==
  /\ state = [t \in Tasks |-> "absent"]
  /\ tried = [t \in Tasks |-> {}]
  /\ outcome = [t \in Tasks |-> 0]
  /\ told = [t \in Tasks |-> [caller |-> "none", answer |-> 0]]

Post(t) ==
  /\ state[t] = "absent"
  /\ state' = [state EXCEPT ![t] = "open"]
  /\ told' = [told EXCEPT ![t] = [caller |-> "waiting", answer |-> 0]]
  /\ UNCHANGED <<tried, outcome>>

\* One more try, under a number no try of the task had before.  A try may end
\* after another try's result was adopted: it changes nothing then.
Try(t) ==
  /\ state[t] # "absent"
  /\ \E n \in tried'[t] \ tried[t] : tried' = [tried EXCEPT ![t] = @ \cup {n}]
  /\ UNCHANGED <<state, outcome, told>>

\* n is one of the tries made.
Settle(t, n) ==
  /\ state[t] = "open"
  /\ state' = [state EXCEPT ![t] = "settled"]
  /\ outcome' = [outcome EXCEPT ![t] = n]
  /\ UNCHANGED <<tried, told>>

Tell(t) ==
  /\ state[t] = "settled"
  /\ told[t].caller = "waiting"
  /\ told' = [told EXCEPT ![t] = [caller |-> "returned", answer |-> outcome[t]]]
  /\ UNCHANGED <<state, tried, outcome>>

Leave(t) ==
  /\ told[t].caller = "waiting"
  /\ told' = [told EXCEPT ![t] = [caller |-> "gone", answer |-> 0]]
  /\ UNCHANGED <<state, tried, outcome>>

Next ==
  \E t \in Tasks :
    \/ Post(t)
    \/ Tell(t)
    \/ Leave(t)
    \/ Try(t)
    \/ \E n \in tried[t] : Settle(t, n)

Spec == Init /\ [][Next]_vars

=============================================================================
