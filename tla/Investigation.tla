---------------------------- MODULE Investigation ---------------------------
(***************************************************************************)
(* One investigation: the baseline evidence, the loop in which the AI      *)
(* service asks for tools, the goroutines that run them and send their     *)
(* results over a channel, the deadline that may pass at any time, the     *)
(* bounds on tool calls and on retained evidence, and the final finding.   *)
(*                                                                         *)
(* An item of evidence is where it came from and the length of its output. *)
(***************************************************************************)
EXTENDS Naturals, Sequences, FiniteSets

CONSTANTS
  Requests,      \* what the AI service may ask for: tools with arguments
  ReadTools,     \* those of a tool of this environment, complete and read-only
  Baseline,      \* the typed diagnostics every investigation starts with (5)
  MaxSteps,      \* reasoning steps (3)
  MaxPerStep,    \* tool requests taken from one decision (3)
  MaxToolCalls,  \* the tool budget, the baseline included
  MaxItems,      \* evidence items retained
  MaxBytes,      \* bytes of evidence retained
  PerItem,       \* bytes of one output, above which it is cut ...
  Suffix,        \* ... and marked with a suffix of this length
  Source,        \* for each origin of evidence, the length of its name, never empty
  Sizes,         \* bound: the lengths of outputs that occur
  MaxCollected,  \* bound: evidence found before the AI service is asked
  MaxAsked       \* bound: requests of one decision

ASSUME RequestsAssumption == ReadTools \subseteq Requests /\ IsFiniteSet(Requests)
ASSUME BudgetAssumption ==
  /\ Baseline \in Nat /\ MaxToolCalls \in Nat /\ Baseline <= MaxToolCalls
  /\ MaxSteps \in Nat \ {0} /\ MaxPerStep \in Nat \ {0} /\ MaxAsked \in Nat \ {0}
ASSUME EvidenceAssumption ==
  /\ MaxItems \in Nat \ {0} /\ MaxBytes \in Nat /\ PerItem \in Nat /\ Suffix \in Nat
  /\ MaxCollected \in Nat /\ Sizes \subseteq Nat
  /\ Source \in [Requests \cup {"baseline", "rejected", "limit"} -> Nat \ {0}]

VARIABLES
  stage,      \* where the investigation is
  step,       \* reasoning steps begun before the present one
  toolCalls,  \* calls charged to the budget
  seen,       \* requests the AI service has made
  evidence,   \* the retained evidence
  asked,      \* the valid requests of the present step
  running,    \* those whose goroutine is calling its tool
  channel,    \* results sent and not yet received
  awaited,    \* results of the present step still to be received
  expired,    \* the deadline has passed
  ran,        \* history: requests that were run
  produced    \* history: all evidence, before any bound

progress == <<stage, step>>
tools == <<asked, running, channel, awaited, ran>>
vars == <<progress, toolCalls, seen, evidence, tools, expired, produced>>

TypeOK ==
  /\ stage \in {"collecting", "hung", "reasoning", "gathering", "concluding", "found", "failed"}
  /\ step \in 0 .. MaxSteps
  /\ toolCalls \in 0 .. MaxToolCalls
  /\ seen \subseteq Requests
  /\ asked \subseteq Requests
  /\ running \subseteq asked
  /\ channel \subseteq [from : asked, size : Sizes] /\ IsFiniteSet(channel)
  /\ awaited \in Nat
  /\ expired \in BOOLEAN
  /\ ran \subseteq Requests

Init ==
  /\ stage = "collecting"
  /\ step = 0
  /\ toolCalls = 0
  /\ seen = {}
  /\ evidence = <<>>
  /\ asked = {}
  /\ running = {}
  /\ channel = {}
  /\ awaited = 0
  /\ expired = FALSE
  /\ ran = {}
  /\ produced = <<>>

-----------------------------------------------------------------------------
(* boundEvidence: newest first, every output cut to its limit, the last one
   that fits in part cut to what is left. *)

Least(m, n) == IF m < n THEN m ELSE n
Limit == Least(PerItem, MaxBytes)
Capped(size) == IF size > Limit THEN Limit + Suffix ELSE size

\* Mutated Cost: an output counts with its length before the cut.
Cost_Uncut(item) == Source[item.from] + item.size

Cost(item) == Source[item.from] + Capped(item.size)

\* Part of an item is kept only if its source fits.
Fits(item, left) == Cost(item) <= left \/ Source[item.from] < left

\* What is kept of an output when this many bytes are left.
Fitted(item, left) ==
  IF Cost(item) > left THEN left - Source[item.from] ELSE Capped(item.size)

\* The newest items that both bounds leave room for.
BoundEvidence(items) ==
  LET n == Len(items)
      walk[i \in 0 .. n] ==
        IF i = 0 THEN [kept |-> <<>>, left |-> MaxBytes]
        ELSE LET w == walk[i - 1]
                 item == items[n + 1 - i]
                 size == Fitted(item, w.left)
             IN  IF Len(w.kept) = MaxItems \/ w.left = 0 \/ ~ Fits(item, w.left) THEN w
                 ELSE [kept |-> <<[item EXCEPT !.size = size]>> \o w.kept,
                       left |-> w.left - Least(w.left, Source[item.from] + size)]
  IN  walk[n].kept

\* Mutated AddEvidence: the bound is applied before the item is added.
AddEvidence_Late(item) ==
  /\ evidence' = Append(BoundEvidence(evidence), item)
  /\ produced' = Append(produced, item)

\* One more item, and the bound applied anew.
AddEvidence(item) ==
  /\ evidence' = BoundEvidence(Append(evidence, item))
  /\ produced' = Append(produced, item)

\* So many rejections, one after the other.
AddRejections(n) ==
  LET rejection == [from |-> "rejected", size |-> 1]
      bounded[i \in 0 .. n] ==
        IF i = 0 THEN evidence ELSE BoundEvidence(Append(bounded[i - 1], rejection))
  IN  /\ evidence' = bounded[n]
      /\ produced' = produced \o [i \in 1 .. n |-> rejection]

-----------------------------------------------------------------------------
(* The investigation *)

Fail == stage' = "failed" /\ UNCHANGED step
Conclude == stage' = "concluding" /\ UNCHANGED step

\* The baseline diagnostics ran, each with a result or an error, and what the
\* caller and the incident memory know is added.  The baseline is charged in
\* full, whatever it yields.
Collect ==
  /\ stage = "collecting"
  /\ stage' = "reasoning" /\ UNCHANGED step
  /\ toolCalls' = Baseline
  /\ \E n \in 0 .. MaxCollected :
       produced' \in [1 .. n -> [from : {"baseline"}, size : Sizes]]
  /\ evidence' = BoundEvidence(produced')
  /\ UNCHANGED <<seen, tools, expired>>

\* The environment is not found, or its baseline cannot be collected at all.
CollectFails ==
  /\ stage = "collecting"
  /\ Fail
  /\ UNCHANGED <<toolCalls, seen, evidence, tools, expired, produced>>

\* The baseline is collected over SSH, and the host stops answering in a
\* handshake.  No time limit ends that, and the collection waits for all of its
\* diagnostics without looking at the deadline.
CollectHangs ==
  /\ stage = "collecting"
  /\ stage' = "hung" /\ UNCHANGED step
  /\ UNCHANGED <<toolCalls, seen, evidence, tools, expired, produced>>

\* The AI service is satisfied, or the loop ends because it cannot be asked,
\* asks for nothing, or has been asked often enough.
DecideEnough ==
  /\ stage = "reasoning"
  /\ \/ step < MaxSteps /\ ~ expired /\ stage' = "found" /\ UNCHANGED step
     \/ step < MaxSteps /\ ~ expired /\ Conclude
     \/ step = MaxSteps /\ Conclude
  /\ UNCHANGED <<toolCalls, seen, evidence, tools, expired, produced>>

\* Mutated DeadlineSeen: results are awaited however long they take.
DeadlineSeen_BetweenSteps ==
  /\ expired
  /\ stage = "reasoning" \/ stage = "concluding"
  /\ Fail
  /\ UNCHANGED <<toolCalls, seen, evidence, tools, expired, produced>>

\* The deadline is noticed before a step, between results, or at the end.
DeadlineSeen ==
  /\ expired
  /\ \/ stage = "reasoning" /\ step < MaxSteps
     \/ stage \in {"gathering", "concluding"}
  /\ Fail
  /\ UNCHANGED <<toolCalls, seen, evidence, tools, expired, produced>>

\* The AI service asks for tools and there is budget for none.
DecideOverBudget ==
  /\ stage = "reasoning" /\ step < MaxSteps /\ ~ expired
  /\ toolCalls >= MaxToolCalls
  /\ AddEvidence([from |-> "limit", size |-> 1])
  /\ Conclude
  /\ UNCHANGED <<toolCalls, seen, tools, expired>>

\* Mutated Taken: the budget is not looked at.
Taken_AnyNumber(requests) == {requests[i] : i \in 1 .. Least(Len(requests), MaxPerStep)}

\* The requests of a decision that are considered: at most so many per step
\* and so many as the budget has left.
Taken(requests) ==
  {requests[i] : i \in 1 .. Least(Len(requests), Least(MaxPerStep, MaxToolCalls - toolCalls))}

Fresh(requests) == Taken(requests) \ seen

Valid(requests) == Fresh(requests) \cap ReadTools

\* The AI service asks for tools.  Requests it made before are skipped; of the
\* others, those that are no complete read-only request of this environment
\* become evidence.  There is a goroutine for each of the rest.
DecideTools(requests) ==
  /\ stage = "reasoning" /\ step < MaxSteps /\ ~ expired
  /\ toolCalls < MaxToolCalls
  /\ seen' = seen \cup Fresh(requests)
  /\ AddRejections(Cardinality(Fresh(requests) \ Valid(requests)))
  /\ \/ Valid(requests) = {} /\ Conclude /\ UNCHANGED <<toolCalls, tools>>
     \/ /\ Valid(requests) # {}
        /\ stage' = "gathering" /\ UNCHANGED step
        /\ toolCalls' = toolCalls + Cardinality(Valid(requests))
        /\ asked' = Valid(requests)
        /\ running' = Valid(requests)
        /\ channel' = {}
        /\ awaited' = Cardinality(Valid(requests))
        /\ ran' = ran \cup Valid(requests)
  /\ UNCHANGED expired

\* Mutated Capacity: room for one result.
Capacity_One == 1

\* The channel of a step is made for all of its results.
Capacity == Cardinality(asked)

\* A tool call ends, with a result or an error, and its goroutine sends what
\* it has once the channel takes it.
ToolEnds(r) ==
  /\ r \in running
  /\ Cardinality(channel) < Capacity
  /\ running' = running \ {r}
  /\ \E size \in Sizes : channel' = channel \cup {[from |-> r, size |-> size]}
  /\ UNCHANGED <<progress, toolCalls, seen, evidence, asked, awaited, expired, ran, produced>>

\* Mutated LastResult: gathering ends one result early.
LastResult_Early == awaited <= 2

LastResult == awaited = 1

\* A result is received; after the step's last one the next step begins.
Receive ==
  /\ stage = "gathering"
  /\ \E item \in channel : AddEvidence(item) /\ channel' = channel \ {item}
  /\ awaited' = awaited - 1
  /\ IF LastResult
     THEN stage' = "reasoning" /\ step' = step + 1
     ELSE UNCHANGED progress
  /\ UNCHANGED <<toolCalls, seen, asked, running, expired, ran>>

\* The final analysis succeeds or not.
Finish ==
  /\ stage = "concluding" /\ ~ expired
  /\ stage' \in {"found", "failed"} /\ UNCHANGED step
  /\ UNCHANGED <<toolCalls, seen, evidence, tools, expired, produced>>

\* The deadline of the investigation passes, or its caller goes away.
Expire ==
  /\ ~ expired
  /\ expired' = TRUE
  /\ UNCHANGED <<progress, toolCalls, seen, evidence, tools, produced>>

-----------------------------------------------------------------------------
Asks == UNION {[1 .. n -> Requests] : n \in 1 .. MaxAsked}

Decide == DecideEnough \/ DecideOverBudget \/ \E requests \in Asks : DecideTools(requests)

Investigate == Collect \/ CollectFails \/ Decide \/ DeadlineSeen \/ Receive \/ Finish

Next == Investigate \/ CollectHangs \/ Expire \/ \E r \in Requests : ToolEnds(r)

Spec == Init /\ [][Next]_vars

(* The goroutine of the investigation goes on and the timer goes off: what it
   waits for, the AI service included, ends with the context of the deadline,
   except a collection over SSH that hangs.  Nothing is assumed of the tools
   the AI service asks for, which may never answer. *)
Fairness == WF_vars(Investigate) /\ WF_vars(Expire)

FairSpec == Spec /\ Fairness

-----------------------------------------------------------------------------
(* Properties *)

Returned == stage \in {"found", "failed"}

\* The tools that were run, with the baseline, never exceed the budget,
\* however the AI service spreads, repeats and mixes its requests.
WithinBudget == toolCalls # 0 => Baseline + Cardinality(ran) <= MaxToolCalls

\* No request of the AI service is run twice, in one step or in two.
NoToolTwice ==
  [][\A r \in Requests : r \in running' \ running => r \notin ran]_vars

\* The AI service reasons, and a finding is returned, only when every tool of
\* the steps before has ended and its result was taken into account.
StepsAreSeparate ==
  stage \in {"reasoning", "concluding", "found"} => running = {} /\ channel = {}

\* No goroutine waits for the channel, which nobody receives from any more when
\* the investigation returned at its deadline.
NobodyBlocked == running # {} => Cardinality(channel) < Capacity

TotalBytes(items) ==
  LET total[i \in 0 .. Len(items)] ==
        IF i = 0 THEN 0 ELSE total[i - 1] + Source[items[i].from] + items[i].size
  IN  total[Len(items)]

\* What goes to the AI service, to the caller and to the incident is within
\* both bounds.
EvidenceIsBounded == Len(evidence) <= MaxItems /\ TotalBytes(evidence) <= MaxBytes

\* The last so many of a sequence of items.
Newest(items, n) == SubSeq(items, Len(items) - n + 1, Len(items))

\* The last so many of all evidence, each output cut to its limit.
CappedNewest(items, n) ==
  [i \in 1 .. n |-> [Newest(items, n)[i] EXCEPT !.size = Capped(@)]]

\* Although the bounds are applied after every item, to what they left before,
\* the newest evidence is retained, as much of it as fits within both bounds.
NewestEvidenceIsKept ==
  \A n \in 0 .. Len(produced) :
    LET newest == CappedNewest(produced, n) IN
    n <= MaxItems /\ TotalBytes(newest) <= MaxBytes
      => Len(evidence) >= n /\ Newest(evidence, n) = newest

\* boundEvidence keeps to its bounds and cuts off the oldest evidence first.
EvidenceIsKept == EvidenceIsBounded /\ NewestEvidenceIsKept

\* An investigation whose baseline collection does not hang returns, even if a
\* tool the AI service asked for never answers.
Returns == <>(Returned \/ stage = "hung")

-----------------------------------------------------------------------------
(* The inductive invariant *)

\* What was charged was run, and only what was asked for.
Charged ==
  /\ ran \subseteq seen
  /\ ran \subseteq ReadTools
  /\ asked \subseteq ran
  /\ (toolCalls = 0 /\ ran = {}) \/ toolCalls = Baseline + Cardinality(ran)

\* Every awaited result is in the channel or has a goroutine.
Outstanding ==
  /\ \A item \in channel : item.from \notin running
  /\ awaited = Cardinality(running) + Cardinality(channel)
  /\ awaited <= Cardinality(asked)
  /\ stage \notin {"gathering", "failed"} => awaited = 0

\* The baseline is charged first, and results are awaited in a step that began.
Begun ==
  /\ stage \in {"collecting", "hung"} => toolCalls = 0 /\ ran = {}
  /\ stage \notin {"collecting", "hung", "failed"} => toolCalls = Baseline + Cardinality(ran)
  /\ stage = "gathering" => step < MaxSteps /\ awaited > 0

IInv == TypeOK /\ Charged /\ Outstanding /\ Begun

=============================================================================
