------------------------ MODULE Investigation_proofs ------------------------
(***************************************************************************)
(* Proofs about Investigation, for any requests, tools, bounds and number  *)
(* of steps.                                                               *)
(***************************************************************************)
EXTENDS Investigation, FiniteSetTheorems, SequenceTheorems, WellFoundedInduction, TLAPS

-----------------------------------------------------------------------------
(* The requests taken from a decision *)

\* Of a sequence of requests, at most what the budget has left is taken.
LEMMA TakenIsWithinBudget ==
  ASSUME TypeOK, NEW requests \in Asks
  PROVE  /\ IsFiniteSet(Taken(requests))
         /\ Cardinality(Taken(requests)) <= MaxToolCalls - toolCalls
         /\ Taken(requests) \subseteq Requests
<1> DEFINE n == Least(Len(requests), Least(MaxPerStep, MaxToolCalls - toolCalls))
<1>1. PICK k \in 1 .. MaxAsked : requests \in [1 .. k -> Requests]
  BY DEF Asks
<1>2. requests \in Seq(Requests) /\ Len(requests) = k
  BY <1>1, BudgetAssumption
<1>3. /\ n \in Nat /\ n <= k /\ n <= MaxToolCalls - toolCalls
  BY <1>1, <1>2, BudgetAssumption DEF Least, TypeOK
<1>4. Taken(requests) = {requests[i] : i \in 1 .. n}
  BY DEF Taken
<1>5. [i \in 1 .. n |-> requests[i]] \in Surjection(1 .. n, Taken(requests))
  BY <1>4 DEF Surjection
<1>6. IsFiniteSet(1 .. n) /\ Cardinality(1 .. n) = n
  BY <1>3, FS_Interval
<1>7. IsFiniteSet(Taken(requests)) /\ Cardinality(Taken(requests)) <= n
  BY <1>5, <1>6, FS_Surjection
<1>8. Taken(requests) \subseteq Requests
  BY <1>1, <1>3, <1>4
<1>9. Cardinality(Taken(requests)) \in Nat /\ MaxToolCalls - toolCalls \in Int
  BY <1>7, FS_CardinalityType, BudgetAssumption DEF TypeOK
<1> HIDE DEF n
<1>. QED BY <1>3, <1>7, <1>8, <1>9

\* What is started was asked for now and never before, and the budget has it.
LEMMA ValidIsWithinBudget ==
  ASSUME TypeOK, NEW requests \in Asks
  PROVE  /\ IsFiniteSet(Valid(requests))
         /\ Cardinality(Valid(requests)) \in Nat
         /\ toolCalls + Cardinality(Valid(requests)) <= MaxToolCalls
         /\ Valid(requests) \subseteq Fresh(requests) \cap ReadTools
         /\ Fresh(requests) \subseteq Requests \ seen
<1>1. Valid(requests) \in SUBSET Taken(requests)
  BY DEF Valid, Fresh
<1>2. /\ IsFiniteSet(Valid(requests))
      /\ Cardinality(Valid(requests)) <= Cardinality(Taken(requests))
  BY <1>1, TakenIsWithinBudget, FS_Subset
<1>3. /\ Cardinality(Valid(requests)) \in Nat
      /\ Cardinality(Taken(requests)) \in Nat
  BY <1>2, TakenIsWithinBudget, FS_CardinalityType
<1>4. toolCalls + Cardinality(Valid(requests)) <= MaxToolCalls
  BY <1>2, <1>3, TakenIsWithinBudget, BudgetAssumption DEF TypeOK
<1>. QED BY <1>2, <1>3, <1>4, TakenIsWithinBudget DEF Valid, Fresh

-----------------------------------------------------------------------------
(* The inductive invariant *)

\* Sets of requests are finite and can be counted.
LEMMA Counted ==
  ASSUME TypeOK
  PROVE  /\ IsFiniteSet(running) /\ Cardinality(running) \in Nat
         /\ IsFiniteSet(ran) /\ Cardinality(ran) \in Nat
         /\ IsFiniteSet(asked) /\ Cardinality(asked) \in Nat
         /\ Cardinality(channel) \in Nat
BY RequestsAssumption, FS_Subset, FS_CardinalityType DEF TypeOK

LEMMA Empty == IsFiniteSet({}) /\ Cardinality({}) = 0
BY FS_EmptySet

LEMMA InitInvariant == Init => IInv
<1> SUFFICES ASSUME Init PROVE IInv
  OBVIOUS
<1>1. step \in 0 .. MaxSteps /\ toolCalls \in 0 .. MaxToolCalls /\ awaited \in Nat
  BY BudgetAssumption DEF Init
<1>2. running \subseteq asked /\ channel \subseteq [from : asked, size : Sizes] /\ IsFiniteSet(channel)
  BY Empty DEF Init
<1>3. TypeOK
  BY <1>1, <1>2 DEF Init, TypeOK
<1>4. Charged /\ Outstanding /\ Begun
  BY Empty, BudgetAssumption DEF Init, Charged, Outstanding, Begun
<1>. QED BY <1>3, <1>4 DEF IInv

LEMMA DecideToolsStep ==
  ASSUME IInv, NEW requests \in Asks, DecideTools(requests) PROVE IInv'
<1> USE DEF IInv
<1> DEFINE v == Valid(requests)
<1>0. /\ IsFiniteSet(v) /\ Cardinality(v) \in Nat
      /\ toolCalls + Cardinality(v) <= MaxToolCalls
      /\ v \subseteq Fresh(requests) \cap ReadTools
      /\ Fresh(requests) \subseteq Requests \ seen
  BY ValidIsWithinBudget
<1>1. /\ seen' = seen \cup Fresh(requests)
      /\ step < MaxSteps /\ stage = "reasoning" /\ step' = step /\ expired' = expired
  BY DEF DecideTools, Conclude
<1>2. CASE v = {}
  <2>1. stage' = "concluding" /\ toolCalls' = toolCalls /\ UNCHANGED tools
    BY <1>2 DEF DecideTools, Conclude
  <2>. QED BY <1>0, <1>1, <2>1 DEF TypeOK, Charged, Outstanding, Begun, tools
<1>3. CASE v # {}
  <2>1. /\ stage' = "gathering" /\ toolCalls' = toolCalls + Cardinality(v)
        /\ asked' = v /\ running' = v /\ channel' = {} /\ awaited' = Cardinality(v)
        /\ ran' = ran \cup v
    BY <1>3 DEF DecideTools
  <2>2. TypeOK'
    BY <1>0, <1>1, <2>1, FS_EmptySet, BudgetAssumption DEF TypeOK
  <2>3. Cardinality(ran') = Cardinality(ran) + Cardinality(v)
    <3>1. ran \cap v = {}
      BY <1>0 DEF Charged
    <3>2. Cardinality(ran \cup v) = Cardinality(ran) + Cardinality(v) - Cardinality({})
      BY <1>0, <3>1, Counted, FS_Union
    <3>. QED BY <1>0, <2>1, <3>2, Counted, Empty
  <2>4. Charged'
    <3>1. toolCalls = Baseline + Cardinality(ran)
      BY <1>1 DEF Begun
    <3>2. toolCalls' = Baseline + Cardinality(ran')
      BY <1>0, <2>1, <2>3, <3>1, Counted, BudgetAssumption
    <3>. QED BY <1>0, <1>1, <2>1, <3>2 DEF Charged
  <2>5. Outstanding'
    BY <1>0, <2>1, Empty DEF Outstanding
  <2>6. Begun'
    BY <1>0, <1>1, <1>3, <2>1, <2>4, FS_EmptySet DEF Begun, Charged
  <2>. QED BY <2>2, <2>4, <2>5, <2>6
<1>. QED BY <1>2, <1>3

LEMMA ToolEndsStep == ASSUME IInv, NEW r \in Requests, ToolEnds(r) PROVE IInv'
<1> USE DEF IInv
<1>1. PICK size \in Sizes : channel' = channel \cup {[from |-> r, size |-> size]}
  BY DEF ToolEnds
<1>2. [from |-> r, size |-> size] \notin channel
  BY DEF Outstanding, ToolEnds
<1>3. /\ IsFiniteSet(channel') /\ Cardinality(channel') = Cardinality(channel) + 1
      /\ Cardinality(running') = Cardinality(running) - 1
  BY <1>1, <1>2, Counted, FS_AddElement, FS_RemoveElement DEF ToolEnds, TypeOK
<1>4. TypeOK'
  BY <1>1, <1>3 DEF TypeOK, ToolEnds, progress
<1>5. Outstanding'
  BY <1>1, <1>3, Counted DEF Outstanding, ToolEnds, progress
<1>. QED BY <1>4, <1>5 DEF ToolEnds, Charged, Begun, progress

LEMMA ReceiveStep == ASSUME IInv, Receive PROVE IInv'
<1> USE DEF IInv
<1>1. PICK item \in channel : channel' = channel \ {item}
  BY DEF Receive
<1>2. IsFiniteSet(channel') /\ Cardinality(channel') = Cardinality(channel) - 1
  BY <1>1, FS_RemoveElement DEF TypeOK
<1>3. step' \in 0 .. MaxSteps /\ stage' \in {"gathering", "reasoning"}
  BY BudgetAssumption DEF Receive, Begun, TypeOK, progress
<1>4. TypeOK'
  BY <1>1, <1>2, <1>3 DEF TypeOK, Receive, Begun
<1>5. Outstanding'
  BY <1>1, <1>2, <1>3, Counted DEF Outstanding, Begun, Receive, LastResult, TypeOK, progress
<1>6. Begun'
  BY <1>3 DEF Begun, Receive, LastResult, TypeOK, progress
<1>. QED BY <1>4, <1>5, <1>6 DEF Receive, Charged

\* The steps of the investigation's goroutine that start or end no tool.
LEMMA PlainStep ==
  ASSUME IInv,
         \/ CollectFails \/ CollectHangs \/ DecideEnough \/ DeadlineSeen \/ DecideOverBudget
         \/ Finish \/ Expire
  PROVE  IInv'
BY DEF CollectFails, CollectHangs, DecideEnough, DeadlineSeen, DecideOverBudget, Finish, Expire,
       Fail, Conclude,
       progress, tools, IInv, TypeOK, Charged, Outstanding, Begun

LEMMA CollectStep == ASSUME IInv, Collect PROVE IInv'
<1>1. TypeOK'
  BY BudgetAssumption DEF Collect, tools, IInv, TypeOK
<1>2. ran' = {} /\ toolCalls' = Baseline + Cardinality(ran') /\ stage' = "reasoning"
  <2>1. ran = {}
    BY DEF Collect, IInv, Begun
  <2>. QED BY <2>1, Empty, BudgetAssumption DEF Collect, tools
<1>3. Charged' /\ Begun'
  BY <1>2 DEF Collect, tools, IInv, Charged, Begun
<1>4. Outstanding'
  BY DEF Collect, tools, IInv, Outstanding
<1>. QED BY <1>1, <1>3, <1>4 DEF IInv

LEMMA NextInvariant == ASSUME IInv, [Next]_vars PROVE IInv'
<1>1. CASE UNCHANGED vars
  BY <1>1 DEF vars, progress, tools, IInv, TypeOK, Charged, Outstanding, Begun
<1>. QED
  BY <1>1, CollectStep, PlainStep, DecideToolsStep, ReceiveStep, ToolEndsStep
     DEF Next, Investigate, Decide

\* The inductive invariant holds in every reachable state.
THEOREM Invariance == Spec => []IInv
BY InitInvariant, NextInvariant, PTL DEF Spec

-----------------------------------------------------------------------------
(* Induction and recursion over the natural numbers, by sets *)

\* What holds of 0, and of the successor of each number it holds of, holds of all.
LEMMA SetInduction ==
  ASSUME NEW S, 0 \in S, \A n \in Nat : n \in S => n + 1 \in S PROVE Nat \subseteq S
<1>1. SUFFICES ASSUME Nat \ S # {} PROVE FALSE
  OBVIOUS
<1>2. IsWellFoundedOn(OpToRel(<, Nat), Nat)
  BY NatLessThanWellFounded
<1>3. PICK m \in Nat \ S : \A k \in Nat \ S : ~(<<k, m>> \in OpToRel(<, Nat))
  BY <1>1, <1>2, WFMin
<1>4. \A k \in Nat \ S : ~(k < m)
  BY <1>3 DEF OpToRel
<1>5. m # 0 /\ m \in Nat
  OBVIOUS
<1>6. m - 1 \in Nat /\ m - 1 < m /\ (m - 1) + 1 = m
  BY ONLY <1>5
<1>. QED BY <1>4, <1>5, <1>6

\* f[0], f[1] and so on up to f[n] start with a and follow one another by g.
Steps(f, D, a, n, g) ==
  f \in [0 .. n -> D] /\ f[0] = a /\ \A i \in 1 .. n : f[i] = g[<<i, f[i - 1]>>]

\* A sequence of states is given by its first and by how each follows from the last.
LEMMA Recursion ==
  ASSUME NEW D, NEW a \in D, NEW n \in Nat, NEW g \in [(1 .. n) \X D -> D]
  PROVE  \E f : Steps(f, D, a, n, g)
<1> DEFINE Upto(m) == \E f \in [0 .. m -> D] :
                        f[0] = a /\ \A i \in 1 .. m : f[i] = g[<<i, f[i - 1]>>]
           S == {m \in Nat : m <= n => Upto(m)}
<1>1. 0 \in S
  <2>1. [i \in 0 .. 0 |-> a] \in [0 .. 0 -> D] /\ [i \in 0 .. 0 |-> a][0] = a
    OBVIOUS
  <2>2. \A i \in 1 .. 0 : FALSE
    OBVIOUS
  <2>. QED BY <2>1, <2>2
<1>2. ASSUME NEW m \in Nat, m \in S PROVE m + 1 \in S
  <2>1. SUFFICES ASSUME m + 1 <= n PROVE Upto(m + 1)
    OBVIOUS
  <2>2. PICK f \in [0 .. m -> D] : f[0] = a /\ \A i \in 1 .. m : f[i] = g[<<i, f[i - 1]>>]
    BY <1>2, <2>1
  <2> DEFINE h == [i \in 0 .. m + 1 |-> IF i <= m THEN f[i] ELSE g[<<m + 1, f[m]>>]]
  <2>3. g[<<m + 1, f[m]>>] \in D
    <3>1. m + 1 \in 1 .. n /\ f[m] \in D
      BY <2>1, <2>2
    <3>. QED BY <3>1
  <2>4. h \in [0 .. m + 1 -> D]
    BY <2>2, <2>3
  <2>5. h[0] = a
    BY <2>2
  <2>6. ASSUME NEW i \in 1 .. m + 1 PROVE h[i] = g[<<i, h[i - 1]>>]
    <3>1. i - 1 \in 0 .. m /\ h[i - 1] = f[i - 1]
      OBVIOUS
    <3>2. CASE i <= m
      <4>1. i \in 1 .. m /\ h[i] = f[i]
        BY <3>2
      <4>. QED BY <2>2, <3>1, <4>1
    <3>3. CASE i = m + 1
      <4>1. h[i] = g[<<m + 1, f[m]>>] /\ i - 1 = m
        BY <3>3
      <4>. QED BY <3>1, <3>3, <4>1
    <3>. QED BY <3>2, <3>3
  <2> HIDE DEF h
  <2>. QED BY <2>4, <2>5, <2>6
<1> HIDE DEF Upto
<1>3. n \in S
  <2> HIDE DEF S
  <2>. QED BY <1>1, <1>2, SetInduction
<1>4. Upto(n)
  BY <1>3
<1>. QED BY <1>4 DEF Upto, Steps

-----------------------------------------------------------------------------
(* The evidence *)

\* An item of evidence, and how many bytes it counts for.
Item == [from : Requests \cup {"baseline", "rejected", "limit"}, size : Nat]
Weight(item) == Source[item.from] + item.size

\* Lengths are numbers, and no item is without a source.
LEMMA ItemTypes ==
  ASSUME NEW item \in Item
  PROVE  /\ Source[item.from] \in Nat \ {0} /\ item.size \in Nat
         /\ Weight(item) \in Nat \ {0} /\ Cost(item) \in Nat \ {0}
         /\ Capped(item.size) \in Nat
<1>1. Source[item.from] \in Nat \ {0} /\ item.size \in Nat
  BY EvidenceAssumption DEF Item
<1>2. Capped(item.size) \in Nat
  BY <1>1, EvidenceAssumption DEF Capped, Limit, Least
<1>. QED BY <1>1, <1>2 DEF Weight, Cost

\* The bytes of a sequence of items, one item after the other.
Totals(items, total) ==
  /\ total \in [0 .. Len(items) -> Nat] /\ total[0] = 0
  /\ \A i \in 1 .. Len(items) : total[i] = total[i - 1] + Weight(items[i])

\* TotalBytes is defined: the sums it is the last of exist.
LEMMA TotalExists ==
  ASSUME NEW items \in Seq(Item)
  PROVE  \E total : Totals(items, total) /\ TotalBytes(items) = total[Len(items)]
<1> DEFINE n == Len(items)
           g == [p \in (1 .. n) \X Nat |-> p[2] + Weight(items[p[1]])]
           F(f) == [i \in 0 .. n |-> IF i = 0 THEN 0
                                     ELSE f[i - 1] + Source[items[i].from] + items[i].size]
<1>1. n \in Nat /\ \A i \in 1 .. n : items[i] \in Item
  OBVIOUS
<1>2. g \in [(1 .. n) \X Nat -> Nat]
  BY <1>1, ItemTypes
<1>3. PICK f : Steps(f, Nat, 0, n, g)
  <2> HIDE DEF n, g
  <2>1. 0 \in Nat
    OBVIOUS
  <2>. QED BY <1>1, <1>2, <2>1, Recursion
<1>4. ASSUME NEW i \in 1 .. n
      PROVE  /\ f[i] = f[i - 1] + Weight(items[i])
             /\ f[i] = f[i - 1] + Source[items[i].from] + items[i].size
  <2>1. i - 1 \in 0 .. n /\ f[i - 1] \in Nat /\ items[i] \in Item
    BY <1>1, <1>3 DEF Steps
  <2>2. f[i] = f[i - 1] + Weight(items[i])
    BY <1>3, <2>1 DEF Steps
  <2>. QED BY <2>1, <2>2, ItemTypes DEF Weight
<1>5. f = F(f)
  BY <1>3, <1>4 DEF Steps
<1>6. PICK total : total = F(total) /\ TotalBytes(items) = total[n]
  BY <1>5 DEF TotalBytes
<1>7. total[0] = 0 /\ DOMAIN total = 0 .. n
  BY <1>6, <1>1
<1>8. \A i \in 1 .. n : total[i] = total[i - 1] + Source[items[i].from] + items[i].size
  <2>1. SUFFICES ASSUME NEW i \in 1 .. n
                 PROVE  total[i] = total[i - 1] + Source[items[i].from] + items[i].size
    OBVIOUS
  <2>2. F(total)[i] = total[i - 1] + Source[items[i].from] + items[i].size
    BY <1>1
  <2> HIDE DEF F
  <2>. QED BY <1>6, <2>2
<1> DEFINE S == {i \in Nat : i <= n => total[i] = f[i]}
<1> HIDE DEF F, n, g
<1>9. 0 \in S
  BY <1>7, <1>3 DEF Steps
<1>10. ASSUME NEW i \in Nat, i \in S PROVE i + 1 \in S
  <2>1. SUFFICES ASSUME i + 1 <= n PROVE total[i + 1] = f[i + 1]
    OBVIOUS
  <2>2. total[i] = f[i] /\ i + 1 \in 1 .. n /\ (i + 1) - 1 = i
    BY <2>1, <1>10, <1>1
  <2>. QED BY <2>2, <1>8, <1>4
<1>11. \A i \in 0 .. n : total[i] = f[i]
  <2>1. Nat \subseteq S
    <3> HIDE DEF S
    <3>. QED BY <1>9, <1>10, SetInduction
  <2>. QED BY <2>1, <1>1
<1>12. total = f
  BY <1>3, <1>6, <1>7, <1>11 DEF F, Steps
<1>. QED BY <1>3, <1>4, <1>6, <1>12 DEF Totals, n, Steps

\* There is one way to sum up the bytes of a sequence.
LEMMA TotalUnique ==
  ASSUME NEW items \in Seq(Item), NEW t, NEW u, Totals(items, t), Totals(items, u)
  PROVE  t[Len(items)] = u[Len(items)]
<1> DEFINE n == Len(items)
           S == {i \in Nat : i <= n => t[i] = u[i]}
<1>1. n \in Nat
  OBVIOUS
<1>2. /\ t[0] = u[0]
      /\ \A i \in 1 .. n : t[i] = t[i - 1] + Weight(items[i]) /\ u[i] = u[i - 1] + Weight(items[i])
  BY DEF Totals
<1> HIDE DEF n
<1>3. 0 \in S
  BY <1>2
<1>4. ASSUME NEW i \in Nat, i \in S PROVE i + 1 \in S
  <2>1. SUFFICES ASSUME i + 1 <= n PROVE t[i + 1] = u[i + 1]
    OBVIOUS
  <2>2. t[i] = u[i] /\ i + 1 \in 1 .. n /\ (i + 1) - 1 = i
    BY <2>1, <1>4, <1>1
  <2>. QED BY <2>2, <1>2
<1>5. n \in S
  <2> HIDE DEF S
  <2>. QED BY <1>1, <1>3, <1>4, SetInduction
<1>. QED BY <1>1, <1>5 DEF n

\* TotalBytes is the last of the sums.
LEMMA TotalOf ==
  ASSUME NEW items \in Seq(Item), NEW t, Totals(items, t)
  PROVE  TotalBytes(items) = t[Len(items)] /\ TotalBytes(items) \in Nat
<1>1. PICK u : Totals(items, u) /\ TotalBytes(items) = u[Len(items)]
  BY TotalExists
<1>. QED BY <1>1, TotalUnique DEF Totals

\* No items have no bytes.
LEMMA TotalOfNone == TotalBytes(<<>>) = 0
<1>1. Totals(<<>>, [i \in 0 .. 0 |-> 0])
  BY DEF Totals
<1>. QED BY <1>1, TotalOf

\* An item more at the end adds its bytes.
LEMMA TotalOfAppend ==
  ASSUME NEW items \in Seq(Item), NEW item \in Item
  PROVE  /\ TotalBytes(Append(items, item)) = TotalBytes(items) + Weight(item)
         /\ TotalBytes(items) \in Nat
<1> DEFINE n == Len(items)
           all == Append(items, item)
<1>1. PICK t : Totals(items, t) /\ TotalBytes(items) = t[n]
  BY TotalExists
<1> DEFINE u == [i \in 0 .. n + 1 |-> IF i <= n THEN t[i] ELSE t[n] + Weight(item)]
<1>2. /\ n \in Nat /\ all \in Seq(Item) /\ Len(all) = n + 1
      /\ \A i \in 1 .. n : all[i] = items[i]
      /\ all[n + 1] = item
  OBVIOUS
<1>3. /\ t \in [0 .. n -> Nat] /\ t[0] = 0 /\ t[n] \in Nat
      /\ \A i \in 1 .. n : t[i] = t[i - 1] + Weight(items[i])
  BY <1>1 DEF Totals
<1>4. Weight(item) \in Nat
  BY ItemTypes
<1> HIDE DEF n, all
<1>5. u \in [0 .. n + 1 -> Nat] /\ u[0] = 0 /\ u[n + 1] = t[n] + Weight(item)
  BY <1>2, <1>3, <1>4
<1>6. ASSUME NEW i \in 1 .. n + 1 PROVE u[i] = u[i - 1] + Weight(all[i])
  <2>1. u[i - 1] = t[i - 1]
    BY <1>2
  <2>2. CASE i <= n
    <3>1. i \in 1 .. n /\ u[i] = t[i]
      BY <1>2, <2>2
    <3>. QED BY <1>2, <1>3, <2>1, <3>1
  <2>3. CASE i = n + 1
    <3>1. i - 1 = n /\ u[i] = t[n] + Weight(item)
      BY <1>2, <2>3
    <3>. QED BY <1>2, <2>1, <2>3, <3>1
  <2>. QED BY <1>2, <2>2, <2>3
<1>7. Totals(all, u)
  <2> HIDE DEF u
  <2>. QED BY <1>2, <1>5, <1>6 DEF Totals
<1> HIDE DEF u
<1>8. TotalBytes(all) = u[n + 1]
  BY <1>2, <1>7, TotalOf
<1>. QED BY <1>1, <1>3, <1>5, <1>8 DEF all

\* An item more at the front adds its bytes.
LEMMA TotalOfPrepend ==
  ASSUME NEW items \in Seq(Item), NEW item \in Item
  PROVE  TotalBytes(<<item>> \o items) = Weight(item) + TotalBytes(items)
<1> DEFINE n == Len(items)
           all == <<item>> \o items
<1>1. PICK t : Totals(items, t) /\ TotalBytes(items) = t[n]
  BY TotalExists
<1> DEFINE u == [i \in 0 .. n + 1 |-> IF i = 0 THEN 0 ELSE Weight(item) + t[i - 1]]
<1>2. /\ n \in Nat /\ all \in Seq(Item) /\ Len(all) = n + 1
      /\ all[1] = item
      /\ \A i \in 2 .. n + 1 : all[i] = items[i - 1]
  OBVIOUS
<1>3. /\ t \in [0 .. n -> Nat] /\ t[0] = 0
      /\ \A i \in 1 .. n : t[i] = t[i - 1] + Weight(items[i])
  BY <1>1 DEF Totals
<1>4. Weight(item) \in Nat /\ \A i \in 1 .. n : Weight(items[i]) \in Nat
  <2>1. \A i \in 1 .. n : items[i] \in Item
    OBVIOUS
  <2>. QED BY <2>1, ItemTypes
<1> HIDE DEF n, all
<1>5. u \in [0 .. n + 1 -> Nat] /\ u[0] = 0 /\ u[n + 1] = Weight(item) + t[n]
  BY <1>2, <1>3, <1>4
<1>6. ASSUME NEW i \in 1 .. n + 1 PROVE u[i] = u[i - 1] + Weight(all[i])
  <2>1. CASE i = 1
    <3>1. u[i] = Weight(item) + t[0] /\ u[i - 1] = 0
      BY <1>2, <2>1
    <3>. QED BY <1>2, <1>3, <1>4, <2>1, <3>1
  <2>2. CASE i > 1
    <3>1. i - 1 \in 1 .. n /\ i \in 2 .. n + 1 /\ i - 2 \in 0 .. n /\ (i - 1) - 1 = i - 2
      BY <1>2, <2>2
    <3>2. u[i] = Weight(item) + t[i - 1] /\ u[i - 1] = Weight(item) + t[i - 2]
      BY <1>2, <3>1
    <3>3. t[i - 1] = t[i - 2] + Weight(items[i - 1]) /\ all[i] = items[i - 1]
      BY <1>2, <1>3, <3>1
    <3>4. t[i - 2] \in Nat /\ Weight(items[i - 1]) \in Nat
      BY <1>3, <1>4, <3>1
    <3>. QED BY <1>4, <3>2, <3>3, <3>4
  <2>. QED BY <1>2, <2>1, <2>2
<1>7. Totals(all, u)
  <2> HIDE DEF u
  <2>. QED BY <1>2, <1>5, <1>6 DEF Totals
<1> HIDE DEF u
<1>8. TotalBytes(all) = u[n + 1]
  BY <1>2, <1>7, TotalOf
<1>. QED BY <1>1, <1>5, <1>8 DEF all

-----------------------------------------------------------------------------
(* What boundEvidence keeps *)

\* What has been kept on the way from the newest item to the oldest, and what is left.
State == [kept : Seq(Item), left : 0 .. MaxBytes]
Start == [kept |-> <<>>, left |-> MaxBytes]

\* One item considered.
Considered(w, item) ==
  LET size == Fitted(item, w.left) IN
  IF Len(w.kept) = MaxItems \/ w.left = 0 \/ ~ Fits(item, w.left) THEN w
  ELSE [kept |-> <<[item EXCEPT !.size = size]>> \o w.kept,
        left |-> w.left - Least(w.left, Source[item.from] + size)]

\* The whole way.
Walks(items, w) ==
  /\ w \in [0 .. Len(items) -> State] /\ w[0] = Start
  /\ \A i \in 1 .. Len(items) : w[i] = Considered(w[i - 1], items[Len(items) + 1 - i])

\* Both bounds, with every byte accounted for.
Within(w) == Len(w.kept) <= MaxItems /\ TotalBytes(w.kept) + w.left = MaxBytes

\* What fits is taken whole, what fits in part takes all that is left.
LEMMA FittedTypes ==
  ASSUME NEW item \in Item, NEW left \in Nat, left # 0, Fits(item, left)
  PROVE  /\ Fitted(item, left) \in Nat
         /\ Source[item.from] + Fitted(item, left) \in 1 .. left
         /\ [item EXCEPT !.size = Fitted(item, left)] \in Item
         /\ Weight([item EXCEPT !.size = Fitted(item, left)])
              = Source[item.from] + Fitted(item, left)
<1> DEFINE size == Fitted(item, left)
<1>1. /\ Source[item.from] \in Nat \ {0} /\ Capped(item.size) \in Nat
      /\ Cost(item) = Source[item.from] + Capped(item.size)
  BY ItemTypes DEF Cost
<1>2. size \in Nat /\ Source[item.from] + size \in 1 .. left
  BY <1>1 DEF Fitted, Fits
<1> HIDE DEF size
<1>3. [item EXCEPT !.size = size] \in Item
  BY <1>2 DEF Item
<1>4. Weight([item EXCEPT !.size = size]) = Source[item.from] + size
  BY <1>2 DEF Weight, Item
<1>. QED BY <1>2, <1>3, <1>4 DEF size

\* An item considered adds at most itself, in front, and stays within the bounds.
LEMMA ConsideredTypes ==
  ASSUME NEW w \in State, NEW item \in Item
  PROVE  /\ Considered(w, item) \in State
         /\ Within(w) => Within(Considered(w, item))
         /\ \E p \in Seq(Item) : Considered(w, item).kept = p \o w.kept
<1>1. w.kept \in Seq(Item) /\ w.left \in Nat /\ w.left <= MaxBytes /\ MaxBytes \in Nat
  BY EvidenceAssumption DEF State
<1>2. CASE Len(w.kept) = MaxItems \/ w.left = 0 \/ ~ Fits(item, w.left)
  <2>1. Considered(w, item) = w
    BY <1>2 DEF Considered
  <2>2. <<>> \in Seq(Item) /\ w.kept = <<>> \o w.kept
    BY <1>1
  <2>. QED BY <2>1, <2>2
<1>3. CASE Len(w.kept) # MaxItems /\ w.left # 0 /\ Fits(item, w.left)
  <2> DEFINE size == Fitted(item, w.left)
             cut == [item EXCEPT !.size = size]
             cost == Source[item.from] + size
             kept == <<cut>> \o w.kept
             left == w.left - cost
  <2>1. cut \in Item /\ cost \in 1 .. w.left /\ Weight(cut) = cost
    BY <1>1, <1>3, FittedTypes
  <2>2. Least(w.left, cost) = cost
    <3> HIDE DEF cost
    <3>. QED BY <1>1, <2>1 DEF Least
  <2>3. Considered(w, item) = [kept |-> kept, left |-> left]
    <3>1. Considered(w, item) = [kept |-> kept, left |-> w.left - Least(w.left, cost)]
      BY <1>3 DEF Considered
    <3>. QED BY <2>2, <3>1
  <2> HIDE DEF size, cut, cost
  <2>4. kept \in Seq(Item) /\ Len(kept) = Len(w.kept) + 1 /\ left \in 0 .. MaxBytes
    BY <1>1, <2>1
  <2>5. TotalBytes(kept) = cost + TotalBytes(w.kept) /\ TotalBytes(w.kept) \in Nat
    BY <1>1, <2>1, TotalOfPrepend, TotalOf, TotalExists
  <2>6. Considered(w, item) \in State
    BY <2>3, <2>4 DEF State
  <2>7. Within(w) => Within(Considered(w, item))
    <3> SUFFICES ASSUME Within(w) PROVE Within([kept |-> kept, left |-> left])
      BY <2>3
    <3>1. Len(kept) <= MaxItems
      BY <1>1, <1>3, <2>4, EvidenceAssumption DEF Within
    <3>2. TotalBytes(kept) + left = MaxBytes
      BY <1>1, <2>1, <2>5 DEF Within
    <3> HIDE DEF kept, left
    <3>. QED BY <3>1, <3>2 DEF Within
  <2>8. <<cut>> \in Seq(Item) /\ Considered(w, item).kept = <<cut>> \o w.kept
    BY <2>1, <2>3
  <2>. QED BY <2>6, <2>7, <2>8
<1>. QED BY <1>2, <1>3

\* BoundEvidence is defined: the walk it is the last state of exists.
LEMMA WalkExists ==
  ASSUME NEW items \in Seq(Item)
  PROVE  \E w : Walks(items, w) /\ BoundEvidence(items) = w[Len(items)].kept
<1> DEFINE n == Len(items)
           g == [p \in (1 .. n) \X State |-> Considered(p[2], items[n + 1 - p[1]])]
           F(f) == [i \in 0 .. n |-> IF i = 0 THEN Start
                                     ELSE Considered(f[i - 1], items[n + 1 - i])]
<1>1. n \in Nat /\ \A i \in 1 .. n : items[n + 1 - i] \in Item
  OBVIOUS
<1>2. g \in [(1 .. n) \X State -> State]
  BY <1>1, ConsideredTypes
<1>3. Start \in State
  BY EvidenceAssumption DEF Start, State
<1>4. PICK f : Steps(f, State, Start, n, g)
  <2> HIDE DEF n, g
  <2>. QED BY <1>1, <1>2, <1>3, Recursion
<1>5. ASSUME NEW i \in 1 .. n PROVE f[i] = Considered(f[i - 1], items[n + 1 - i])
  <2>1. i - 1 \in 0 .. n /\ f[i - 1] \in State
    BY <1>1, <1>4 DEF Steps
  <2>. QED BY <1>4, <2>1 DEF Steps
<1>6. f = F(f)
  BY <1>4, <1>5 DEF Steps
<1>7. PICK w : w = F(w) /\ BoundEvidence(items) = w[n].kept
  BY <1>6 DEF BoundEvidence, Considered, Start
<1>8. w[0] = Start /\ DOMAIN w = 0 .. n
  BY <1>7, <1>1
<1>9. ASSUME NEW i \in 1 .. n PROVE w[i] = Considered(w[i - 1], items[n + 1 - i])
  <2>1. F(w)[i] = Considered(w[i - 1], items[n + 1 - i])
    BY <1>1
  <2> HIDE DEF F
  <2>. QED BY <1>7, <2>1
<1> DEFINE S == {i \in Nat : i <= n => w[i] = f[i]}
<1> HIDE DEF F, n, g
<1>10. 0 \in S
  BY <1>4, <1>8 DEF Steps
<1>11. ASSUME NEW i \in Nat, i \in S PROVE i + 1 \in S
  <2>1. SUFFICES ASSUME i + 1 <= n PROVE w[i + 1] = f[i + 1]
    OBVIOUS
  <2>2. w[i] = f[i] /\ i + 1 \in 1 .. n /\ (i + 1) - 1 = i
    BY <2>1, <1>11, <1>1
  <2>. QED BY <2>2, <1>5, <1>9
<1>12. \A i \in 0 .. n : w[i] = f[i]
  <2>1. Nat \subseteq S
    <3> HIDE DEF S
    <3>. QED BY <1>10, <1>11, SetInduction
  <2>. QED BY <2>1, <1>1
<1>13. w \in [0 .. n -> State]
  <2>1. w = [i \in 0 .. n |-> w[i]]
    BY <1>7 DEF F
  <2>. QED BY <1>4, <1>12, <2>1 DEF Steps
<1>. QED BY <1>7, <1>8, <1>9, <1>13 DEF Walks, n

\* Every state of a walk keeps to the bounds.
LEMMA WalksWithin ==
  ASSUME NEW items \in Seq(Item), NEW w, Walks(items, w), NEW i \in 0 .. Len(items)
  PROVE  w[i] \in State /\ Within(w[i])
<1> DEFINE n == Len(items)
           S == {j \in Nat : j <= n => Within(w[j])}
<1>1. /\ n \in Nat /\ w[0] = Start
      /\ \A j \in 0 .. n : w[j] \in State
      /\ \A j \in 1 .. n : w[j] = Considered(w[j - 1], items[n + 1 - j])
                           /\ items[n + 1 - j] \in Item
  BY DEF Walks
<1>2. 0 \in S
  <2>1. Len(<<>>) = 0 /\ MaxItems \in Nat /\ MaxBytes \in Nat
    BY EvidenceAssumption
  <2>2. Within(Start)
    BY <2>1, TotalOfNone DEF Within, Start
  <2>. QED BY <1>1, <2>2
<1> HIDE DEF n
<1>3. ASSUME NEW j \in Nat, j \in S PROVE j + 1 \in S
  <2>1. SUFFICES ASSUME j + 1 <= n PROVE Within(w[j + 1])
    OBVIOUS
  <2>2. j + 1 \in 1 .. n /\ (j + 1) - 1 = j /\ j \in 0 .. n /\ Within(w[j])
    BY <2>1, <1>1, <1>3
  <2>3. w[j] \in State /\ w[j + 1] = Considered(w[j], items[n + 1 - (j + 1)])
        /\ items[n + 1 - (j + 1)] \in Item
    BY <1>1, <2>2
  <2>. QED BY <2>2, <2>3, ConsideredTypes
<1>4. Nat \subseteq S
  <2> HIDE DEF S
  <2>. QED BY <1>2, <1>3, SetInduction
<1>. QED BY <1>1, <1>4 DEF n

\* An item with its output cut to the limit.
Cut(item) == [item EXCEPT !.size = Capped(@)]

\* Cutting an output to its limit a second time changes nothing.
LEMMA CutTypes ==
  ASSUME NEW item \in Item
  PROVE  Cut(item) \in Item /\ Weight(Cut(item)) = Cost(item) /\ Cut(Cut(item)) = Cut(item)
<1>1. Capped(item.size) \in Nat /\ Capped(Capped(item.size)) = Capped(item.size)
  BY ItemTypes, EvidenceAssumption DEF Capped, Limit, Least
<1>2. Cut(item) = [from |-> item.from, size |-> Capped(item.size)]
  BY DEF Cut, Item
<1>. QED BY <1>1, <1>2 DEF Item, Weight, Cost, Cut

\* What the newest items of a sequence are, and the same cut to the limit.
LEMMA NewestTypes ==
  ASSUME NEW items \in Seq(Item), NEW n \in 0 .. Len(items)
  PROVE  /\ Newest(items, n) \in Seq(Item) /\ Len(Newest(items, n)) = n
         /\ \A i \in 1 .. n : Newest(items, n)[i] = items[Len(items) - n + i]
         /\ CappedNewest(items, n) \in Seq(Item) /\ Len(CappedNewest(items, n)) = n
         /\ \A i \in 1 .. n : CappedNewest(items, n)[i] = Cut(items[Len(items) - n + i])
<1> DEFINE m == Len(items)
<1>1. m \in Nat /\ n \in Nat /\ n <= m /\ \A i \in 1 .. m : items[i] \in Item
  OBVIOUS
<1>2. /\ Newest(items, n) \in Seq(Item) /\ Len(Newest(items, n)) = n
      /\ \A i \in 1 .. n : Newest(items, n)[i] = items[m - n + i]
  <2>1. \A i \in m - n + 1 .. m : items[i] \in Item
    BY <1>1
  <2>2. /\ SubSeq(items, m - n + 1, m) \in Seq(Item)
        /\ Len(SubSeq(items, m - n + 1, m)) = IF m - n + 1 <= m THEN m - (m - n + 1) + 1 ELSE 0
        /\ \A i \in 1 .. m - (m - n + 1) + 1 :
             SubSeq(items, m - n + 1, m)[i] = items[(m - n + 1) + i - 1]
    <3>1. m - n + 1 \in Int /\ m \in Int
      BY <1>1
    <3> HIDE DEF m
    <3>. QED BY <2>1, <3>1, SubSeqProperties
  <2> HIDE DEF m
  <2>3. m - (m - n + 1) + 1 = n /\ \A i \in 1 .. n : (m - n + 1) + i - 1 = m - n + i
    BY <1>1
  <2>. QED BY <1>1, <2>2, <2>3 DEF Newest, m
<1>3. ASSUME NEW i \in 1 .. n
      PROVE  CappedNewest(items, n)[i] = Cut(items[m - n + i]) /\ CappedNewest(items, n)[i] \in Item
  <2>1. m - n + i \in 1 .. m
    BY <1>1
  <2>2. CappedNewest(items, n)[i] = Cut(Newest(items, n)[i])
    BY DEF CappedNewest, Cut
  <2>. QED BY <1>1, <1>2, <2>1, <2>2, CutTypes
<1>4. CappedNewest(items, n) \in [1 .. n -> Item]
  <2>1. CappedNewest(items, n) = [i \in 1 .. n |-> CappedNewest(items, n)[i]]
    BY DEF CappedNewest
  <2>. QED BY <1>3, <2>1
<1>5. CappedNewest(items, n) \in Seq(Item) /\ Len(CappedNewest(items, n)) = n
  BY <1>1, <1>4
<1>. QED BY <1>2, <1>3, <1>5

\* The newest items and one more are the one more and the newest items.
LEMMA NewestPrepend ==
  ASSUME NEW items \in Seq(Item), NEW n \in Nat, n + 1 <= Len(items)
  PROVE  /\ items[Len(items) - n] \in Item
         /\ CappedNewest(items, n + 1) = <<Cut(items[Len(items) - n])>> \o CappedNewest(items, n)
<1> DEFINE m == Len(items)
           x == items[m - n]
           c == CappedNewest(items, n)
           d == CappedNewest(items, n + 1)
<1>1. m \in Nat /\ n \in 0 .. m /\ n + 1 \in 0 .. m /\ x \in Item
  OBVIOUS
<1>2. /\ c \in Seq(Item) /\ Len(c) = n /\ \A i \in 1 .. n : c[i] = Cut(items[m - n + i])
      /\ d \in Seq(Item) /\ Len(d) = n + 1
      /\ \A i \in 1 .. n + 1 : d[i] = Cut(items[m - (n + 1) + i])
  BY <1>1, NewestTypes
<1>3. Cut(x) \in Item
  BY <1>1, CutTypes
<1> HIDE DEF m, x, c, d
<1>4. /\ <<Cut(x)>> \o c \in Seq(Item) /\ Len(<<Cut(x)>> \o c) = n + 1
      /\ (<<Cut(x)>> \o c)[1] = Cut(x)
      /\ \A i \in 2 .. n + 1 : (<<Cut(x)>> \o c)[i] = c[i - 1]
  BY <1>2, <1>3
<1>5. ASSUME NEW i \in 1 .. n + 1 PROVE d[i] = (<<Cut(x)>> \o c)[i]
  <2>1. CASE i = 1
    <3>1. m - (n + 1) + 1 = m - n
      BY <1>1
    <3>. QED BY <1>2, <1>4, <2>1, <3>1 DEF x
  <2>2. CASE i > 1
    <3>1. i \in 2 .. n + 1 /\ i - 1 \in 1 .. n /\ m - n + (i - 1) = m - (n + 1) + i
      BY <1>1, <2>2
    <3>2. d[i] = Cut(items[m - (n + 1) + i]) /\ c[i - 1] = Cut(items[m - n + (i - 1)])
      BY <1>2, <3>1
    <3>3. (<<Cut(x)>> \o c)[i] = c[i - 1]
      BY <1>4, <3>1
    <3>. QED BY <3>1, <3>2, <3>3
  <2>3. i = 1 \/ i > 1
    OBVIOUS
  <2>. QED BY <2>1, <2>2, <2>3
<1>6. d = <<Cut(x)>> \o c
  BY <1>2, <1>4, <1>5, SeqEqual
<1>. QED BY <1>1, <1>6 DEF m, x, c, d

\* The newest items that fit within both bounds are kept whole, and last.
LEMMA BoundKeepsNewest ==
  ASSUME NEW items \in Seq(Item), NEW n \in 0 .. Len(items), n <= MaxItems,
         TotalBytes(CappedNewest(items, n)) <= MaxBytes
  PROVE  \E p \in Seq(Item) : BoundEvidence(items) = p \o CappedNewest(items, n)
<1> DEFINE m == Len(items)
           c(j) == CappedNewest(items, j)
<1>1. PICK w : Walks(items, w) /\ BoundEvidence(items) = w[m].kept
  BY WalkExists
<1>2. /\ m \in Nat /\ w[0] = Start /\ MaxItems \in Nat /\ MaxBytes \in Nat
      /\ \A j \in 1 .. m : w[j] = Considered(w[j - 1], items[m + 1 - j])
      /\ \A j \in 0 .. m : w[j] \in State /\ Within(w[j])
  <2>1. m \in Nat /\ MaxItems \in Nat /\ MaxBytes \in Nat
    BY EvidenceAssumption
  <2>2. w[0] = Start /\ \A j \in 1 .. m : w[j] = Considered(w[j - 1], items[m + 1 - j])
    BY <1>1 DEF Walks
  <2>3. \A j \in 0 .. m : w[j] \in State /\ Within(w[j])
    BY <1>1, WalksWithin
  <2>. QED BY <2>1, <2>2, <2>3
<1> DEFINE S == {j \in Nat : j <= m /\ j <= MaxItems /\ TotalBytes(c(j)) <= MaxBytes
                               => w[j].kept = c(j)}
<1>3. 0 \in S
  <2>1. c(0) \in Seq(Item) /\ Len(c(0)) = 0
    BY <1>2, NewestTypes
  <2>2. c(0) = <<>>
    BY <2>1
  <2>. QED BY <1>2, <2>2 DEF Start
<1> HIDE DEF m
<1>4. ASSUME NEW j \in Nat, j \in S PROVE j + 1 \in S
  <2>1. SUFFICES ASSUME j + 1 <= m, j + 1 <= MaxItems, TotalBytes(c(j + 1)) <= MaxBytes
                 PROVE  w[j + 1].kept = c(j + 1)
    OBVIOUS
  <2> DEFINE x == items[m - j]
             left == w[j].left
  <2>2. x \in Item /\ c(j + 1) = <<Cut(x)>> \o c(j)
    BY <2>1, NewestPrepend DEF m
  <2>3. c(j) \in Seq(Item) /\ Len(c(j)) = j
    <3>1. j \in 0 .. m
      BY <1>2, <2>1
    <3>. QED BY <3>1, NewestTypes DEF m
  <2>4. TotalBytes(c(j + 1)) = Cost(x) + TotalBytes(c(j)) /\ TotalBytes(c(j)) \in Nat
        /\ Cost(x) \in Nat \ {0}
    <3>1. Cut(x) \in Item /\ Weight(Cut(x)) = Cost(x)
      BY <2>2, CutTypes
    <3>2. TotalBytes(c(j)) \in Nat /\ Cost(x) \in Nat \ {0}
      BY <2>2, <2>3, TotalExists, TotalOf, ItemTypes
    <3>3. TotalBytes(<<Cut(x)>> \o c(j)) = Weight(Cut(x)) + TotalBytes(c(j))
      BY <2>3, <3>1, TotalOfPrepend
    <3>. QED BY <2>2, <3>1, <3>2, <3>3
  <2>5. w[j].kept = c(j)
    <3>1. TotalBytes(c(j)) <= MaxBytes /\ j <= m /\ j <= MaxItems
      BY <1>2, <2>1, <2>4
    <3>. QED BY <1>4, <3>1
  <2>6. w[j] \in State /\ Within(w[j]) /\ w[j + 1] = Considered(w[j], x)
    <3>1. j \in 0 .. m /\ j + 1 \in 1 .. m /\ (j + 1) - 1 = j /\ m + 1 - (j + 1) = m - j
      BY <1>2, <2>1
    <3>. QED BY <1>2, <3>1
  <2>7. left \in Nat /\ left = MaxBytes - TotalBytes(c(j))
    BY <1>2, <2>4, <2>5, <2>6 DEF State, Within
  <2> HIDE DEF c, x, left
  <2>8. left >= Cost(x) /\ left # 0 /\ Len(w[j].kept) # MaxItems
    BY <1>2, <2>1, <2>3, <2>4, <2>5, <2>7
  <2>9. Fits(x, left) /\ Fitted(x, left) = Capped(x.size)
    BY <2>4, <2>7, <2>8 DEF Fits, Fitted
  <2>10. Considered(w[j], x).kept = <<[x EXCEPT !.size = Fitted(x, left)]>> \o w[j].kept
    BY <2>8, <2>9 DEF Considered, left
  <2>. QED BY <2>2, <2>5, <2>6, <2>9, <2>10 DEF Cut
<1>5. w[n].kept = c(n)
  <2>1. n \in S
    <3> HIDE DEF S
    <3>. QED BY <1>3, <1>4, SetInduction
  <2>. QED BY <1>2, <2>1 DEF m
<1> DEFINE R == {k \in Nat : n + k <= m => \E p \in Seq(Item) : w[n + k].kept = p \o c(n)}
<1>6. c(n) \in Seq(Item) /\ n \in Nat /\ n <= m
  BY NewestTypes DEF m
<1>7. 0 \in R
  <2>1. c(n) = <<>> \o c(n) /\ <<>> \in Seq(Item) /\ n + 0 = n
    BY <1>6
  <2> HIDE DEF c
  <2>. QED BY <1>5, <2>1
<1>8. ASSUME NEW k \in Nat, k \in R PROVE k + 1 \in R
  <2>1. SUFFICES ASSUME n + (k + 1) <= m
                 PROVE  \E p \in Seq(Item) : w[n + (k + 1)].kept = p \o c(n)
    OBVIOUS
  <2> DEFINE j == n + k
  <2>2. /\ j \in 0 .. m /\ j + 1 \in 1 .. m /\ n + (k + 1) = j + 1 /\ (j + 1) - 1 = j
        /\ m + 1 - (j + 1) \in 1 .. m
    BY <1>2, <1>6, <2>1
  <2>3. PICK p \in Seq(Item) : w[j].kept = p \o c(n)
    BY <1>8, <2>2
  <2>4. w[j] \in State /\ w[j + 1] = Considered(w[j], items[m + 1 - (j + 1)])
    BY <1>2, <2>2
  <2>5. items[m + 1 - (j + 1)] \in Item
    BY <2>2 DEF m
  <2> HIDE DEF c, j
  <2>6. PICK q \in Seq(Item) : w[j + 1].kept = q \o w[j].kept
    BY <2>4, <2>5, ConsideredTypes
  <2>7. q \o (p \o c(n)) = (q \o p) \o c(n) /\ q \o p \in Seq(Item)
    BY <1>6, ConcatAssociative, ConcatProperties
  <2>. QED BY <2>2, <2>3, <2>6, <2>7
<1>9. m - n \in R
  <2>1. m - n \in Nat
    BY <1>2, <1>6
  <2> HIDE DEF R
  <2>. QED BY <1>7, <1>8, <2>1, SetInduction
<1>10. n + (m - n) = m /\ n + (m - n) <= m
  BY <1>2, <1>6
<1>. QED BY <1>1, <1>9, <1>10

-----------------------------------------------------------------------------
(* The evidence of an investigation *)

\* What is retained of all that was produced: EvidenceIsKept, of any two sequences.
Keeps(items, all) ==
  /\ items \in Seq(Item) /\ all \in Seq(Item)
  /\ Len(items) <= MaxItems /\ TotalBytes(items) <= MaxBytes
  /\ \A n \in 0 .. Len(all) :
       n <= MaxItems /\ TotalBytes(CappedNewest(all, n)) <= MaxBytes
         => Len(items) >= n /\ Newest(items, n) = CappedNewest(all, n)

\* boundEvidence keeps to both bounds and keeps the newest.
LEMMA BoundKeeps ==
  ASSUME NEW items \in Seq(Item)
  PROVE  /\ Len(BoundEvidence(items)) <= MaxItems /\ TotalBytes(BoundEvidence(items)) <= MaxBytes
         /\ Keeps(BoundEvidence(items), items)
<1> DEFINE b == BoundEvidence(items)
<1>1. PICK w : Walks(items, w) /\ b = w[Len(items)].kept
  BY WalkExists
<1>2. w[Len(items)] \in State /\ Within(w[Len(items)])
  <2>1. Len(items) \in 0 .. Len(items)
    OBVIOUS
  <2>. QED BY <1>1, <2>1, WalksWithin
<1>3. b \in Seq(Item) /\ Len(b) <= MaxItems /\ TotalBytes(b) <= MaxBytes
  <2>1. b \in Seq(Item) /\ w[Len(items)].left \in Nat /\ MaxBytes \in Nat
    BY <1>1, <1>2, EvidenceAssumption DEF State
  <2>2. TotalBytes(b) \in Nat
    BY <2>1, TotalExists, TotalOf
  <2>. QED BY <1>1, <1>2, <2>1, <2>2 DEF Within
<1>4. ASSUME NEW n \in 0 .. Len(items), n <= MaxItems,
             TotalBytes(CappedNewest(items, n)) <= MaxBytes
      PROVE  Len(b) >= n /\ Newest(b, n) = CappedNewest(items, n)
  <2> DEFINE c == CappedNewest(items, n)
  <2>1. PICK p \in Seq(Item) : b = p \o c
    BY <1>4, BoundKeepsNewest
  <2>2. c \in Seq(Item) /\ Len(c) = n /\ n \in Nat
    BY NewestTypes
  <2> HIDE DEF b, c
  <2>3. /\ Len(b) = Len(p) + n /\ Len(p) \in Nat
        /\ \A i \in 1 .. n : b[Len(p) + i] = c[i]
    <3>1. /\ Len(b) = Len(p) + n /\ Len(p) \in Nat
          /\ \A i \in 1 .. Len(p) + n : b[i] = IF i <= Len(p) THEN p[i] ELSE c[i - Len(p)]
      <4>0. p \in Seq(Item) /\ c \in Seq(Item)
        BY <2>2
      <4>1. /\ Len(p \o c) = Len(p) + Len(c) /\ Len(p) \in Nat
            /\ \A i \in 1 .. Len(p) + Len(c) :
                 (p \o c)[i] = IF i <= Len(p) THEN p[i] ELSE c[i - Len(p)]
        BY ONLY <4>0, ConcatProperties, LenProperties
      <4>. QED BY <2>1, <2>2, <4>1
    <3>2. ASSUME NEW i \in 1 .. n PROVE b[Len(p) + i] = c[i]
      <4>1. /\ Len(p) + i \in 1 .. Len(p) + n /\ ~(Len(p) + i <= Len(p))
            /\ (Len(p) + i) - Len(p) = i
        BY <2>2, <3>1
      <4>. QED BY <3>1, <4>1
    <3>. QED BY <3>1, <3>2
  <2>4. n \in 0 .. Len(b) /\ Len(b) - n = Len(p)
    BY <2>2, <2>3
  <2>5. /\ Newest(b, n) \in Seq(Item) /\ Len(Newest(b, n)) = n
        /\ \A i \in 1 .. n : Newest(b, n)[i] = b[Len(b) - n + i]
    BY <1>3, <2>4, NewestTypes
  <2>6. Newest(b, n) = c
    BY <2>2, <2>3, <2>4, <2>5, SeqEqual
  <2>. QED BY <2>2, <2>3, <2>6 DEF c
<1>. QED BY <1>3, <1>4 DEF Keeps

\* Of one item more, as much is kept as if the bounds had not been applied before.
LEMMA KeepsAppend ==
  ASSUME NEW items, NEW all, Keeps(items, all), NEW item \in Item
  PROVE  Keeps(BoundEvidence(Append(items, item)), Append(all, item))
<1> DEFINE more == Append(items, item)
           every == Append(all, item)
           b == BoundEvidence(more)
<1>1. items \in Seq(Item) /\ all \in Seq(Item) /\ more \in Seq(Item) /\ every \in Seq(Item)
  BY DEF Keeps
<1>2. /\ Len(more) = Len(items) + 1 /\ Len(every) = Len(all) + 1
      /\ Len(items) \in Nat /\ Len(all) \in Nat
      /\ more[Len(items) + 1] = item /\ every[Len(all) + 1] = item
      /\ \A i \in 1 .. Len(items) : more[i] = items[i]
      /\ \A i \in 1 .. Len(all) : every[i] = all[i]
  BY <1>1
<1> HIDE DEF more, every
<1>3. /\ b \in Seq(Item) /\ Len(b) <= MaxItems /\ TotalBytes(b) <= MaxBytes
      /\ Keeps(b, more)
  BY <1>1, BoundKeeps DEF Keeps
<1>4. ASSUME NEW n \in 0 .. Len(every), n <= MaxItems,
             TotalBytes(CappedNewest(every, n)) <= MaxBytes
      PROVE  Len(b) >= n /\ Newest(b, n) = CappedNewest(every, n)
  <2>1. CASE n = 0
    <3>1. 0 \in 0 .. Len(b) /\ 0 \in 0 .. Len(every) /\ Len(b) \in Nat
      BY <1>1, <1>2, <1>3
    <3>2. /\ Newest(b, 0) \in Seq(Item) /\ Len(Newest(b, 0)) = 0
          /\ CappedNewest(every, 0) \in Seq(Item) /\ Len(CappedNewest(every, 0)) = 0
      BY <1>1, <1>3, <3>1, NewestTypes
    <3>3. Newest(b, 0) = CappedNewest(every, 0)
      BY <3>2
    <3>. QED BY <2>1, <3>1, <3>3
  <2>2. CASE n # 0
    <3> DEFINE k == n - 1
               c == CappedNewest(all, k)
               d == CappedNewest(every, n)
    <3>1. k \in Nat /\ n = k + 1 /\ k \in 0 .. Len(all) /\ k <= MaxItems
      BY <1>2, <1>4, <2>2, EvidenceAssumption
    <3> HIDE DEF k
    <3>2. /\ c \in Seq(Item) /\ Len(c) = k
          /\ \A i \in 1 .. k : c[i] = Cut(all[Len(all) - k + i])
          /\ d \in Seq(Item) /\ Len(d) = n
          /\ \A i \in 1 .. n : d[i] = Cut(every[Len(every) - n + i])
      BY <1>1, <3>1, NewestTypes
    <3>3. Cut(item) \in Item
      BY CutTypes
    <3> HIDE DEF c, d
    <3>4. d = Append(c, Cut(item))
      <4>1. /\ Append(c, Cut(item)) \in Seq(Item) /\ Len(Append(c, Cut(item))) = n
            /\ \A i \in 1 .. k : Append(c, Cut(item))[i] = c[i]
            /\ Append(c, Cut(item))[n] = Cut(item)
        BY <3>1, <3>2, <3>3
      <4>2. ASSUME NEW i \in 1 .. n PROVE d[i] = Append(c, Cut(item))[i]
        <5>1. CASE i = n
          <6>1. Len(every) - n + i = Len(all) + 1
            BY <1>2, <3>1, <5>1
          <6>2. d[i] = Cut(item)
            BY <1>2, <3>2, <6>1
          <6>. QED BY <4>1, <5>1, <6>2
        <5>2. CASE i # n
          <6>1. /\ i \in 1 .. k /\ Len(every) - n + i = Len(all) - k + i
                /\ Len(all) - k + i \in 1 .. Len(all)
            BY <1>2, <3>1, <5>2
          <6>2. d[i] = Cut(all[Len(all) - k + i])
            BY <1>2, <3>2, <6>1
          <6>. QED BY <3>2, <4>1, <6>1, <6>2
        <5>. QED BY <5>1, <5>2
      <4>. QED BY <3>2, <4>1, <4>2, SeqEqual
    <3>5. TotalBytes(c) <= MaxBytes
      <4>1. TotalBytes(d) = TotalBytes(c) + Weight(Cut(item)) /\ TotalBytes(c) \in Nat
        BY <3>2, <3>3, <3>4, TotalOfAppend
      <4>2. Weight(Cut(item)) \in Nat /\ MaxBytes \in Nat
        BY <3>3, ItemTypes, EvidenceAssumption
      <4>. QED BY <1>4, <4>1, <4>2 DEF d
    <3>6. Len(items) >= k /\ Newest(items, k) = c
      BY <3>1, <3>5 DEF Keeps, c
    <3> DEFINE e == CappedNewest(more, n)
    <3>7. /\ k \in 0 .. Len(items) /\ n \in 0 .. Len(more)
      BY <1>2, <3>1, <3>6
    <3>8. /\ \A i \in 1 .. k : Newest(items, k)[i] = items[Len(items) - k + i]
          /\ e \in Seq(Item) /\ Len(e) = n
          /\ \A i \in 1 .. n : e[i] = Cut(more[Len(more) - n + i])
      BY <1>1, <3>7, NewestTypes
    <3> HIDE DEF e
    <3>9. e = d
      <4>1. ASSUME NEW i \in 1 .. n PROVE e[i] = d[i]
        <5>1. CASE i = n
          <6>1. Len(more) - n + i = Len(items) + 1 /\ Len(every) - n + i = Len(all) + 1
            BY <1>2, <3>1, <5>1
          <6>. QED BY <1>2, <3>2, <3>8, <6>1
        <5>2. CASE i # n
          <6>1. /\ i \in 1 .. k /\ Len(every) - n + i = Len(all) - k + i
                /\ Len(all) - k + i \in 1 .. Len(all)
                /\ Len(more) - n + i = Len(items) - k + i
                /\ Len(items) - k + i \in 1 .. Len(items)
            BY <1>2, <3>1, <3>7, <5>2
          <6>2. e[i] = Cut(items[Len(items) - k + i])
            BY <1>2, <3>8, <6>1
          <6>3. items[Len(items) - k + i] = Cut(all[Len(all) - k + i])
            BY <3>2, <3>6, <3>8, <6>1
          <6>4. all[Len(all) - k + i] \in Item
            BY <1>1, <6>1
          <6>5. d[i] = Cut(all[Len(all) - k + i])
            BY <1>2, <3>2, <6>1
          <6>. QED BY <6>2, <6>3, <6>4, <6>5, CutTypes
        <5>. QED BY <5>1, <5>2
      <4>. QED BY <3>2, <3>8, <4>1, SeqEqual
    <3>10. Len(b) >= n /\ Newest(b, n) = e
      BY <1>3, <1>4, <3>7, <3>9 DEF Keeps, d, e
    <3>. QED BY <3>9, <3>10 DEF d
  <2>. QED BY <2>1, <2>2
<1> HIDE DEF b
<1>5. Keeps(b, every)
  BY <1>1, <1>3, <1>4 DEF Keeps
<1>. QED BY <1>5 DEF b, more, every

\* What is retained of the evidence of this investigation.
EvidenceInv == Keeps(evidence, produced)

\* An item is added.
LEMMA AddEvidenceKeeps ==
  ASSUME EvidenceInv, NEW item \in Item, AddEvidence(item) PROVE EvidenceInv'
<1>1. Keeps(BoundEvidence(Append(evidence, item)), Append(produced, item))
  BY KeepsAppend DEF EvidenceInv
<1>. QED BY <1>1 DEF AddEvidence, EvidenceInv

\* Rejections are added one by one, each with the bounds applied anew.
LEMMA AddRejectionsKeeps ==
  ASSUME EvidenceInv, NEW n \in Nat, AddRejections(n) PROVE EvidenceInv'
<1> DEFINE x == [from |-> "rejected", size |-> 1]
           g == [p \in (1 .. n) \X Seq(Item) |-> BoundEvidence(Append(p[2], x))]
           F(f) == [i \in 0 .. n |-> IF i = 0 THEN evidence
                                     ELSE BoundEvidence(Append(f[i - 1], x))]
           some(i) == [j \in 1 .. i |-> x]
<1>1. x \in Item
  BY DEF Item
<1>2. evidence \in Seq(Item) /\ produced \in Seq(Item) /\ Keeps(evidence, produced)
  BY DEF EvidenceInv, Keeps
<1> HIDE DEF x
<1>3. ASSUME NEW s \in Seq(Item) PROVE BoundEvidence(Append(s, x)) \in Seq(Item)
  <2>1. Append(s, x) \in Seq(Item)
    BY <1>1
  <2>. QED BY <2>1, BoundKeeps DEF Keeps
<1>4. g \in [(1 .. n) \X Seq(Item) -> Seq(Item)]
  BY <1>3
<1>5. PICK f : Steps(f, Seq(Item), evidence, n, g)
  <2> HIDE DEF g
  <2>. QED BY <1>2, <1>4, Recursion
<1>6. ASSUME NEW i \in 1 .. n PROVE f[i] = BoundEvidence(Append(f[i - 1], x))
  <2>1. i - 1 \in 0 .. n /\ f[i - 1] \in Seq(Item)
    BY <1>5 DEF Steps
  <2>. QED BY <1>5, <2>1 DEF Steps
<1>7. f = F(f)
  BY <1>5, <1>6 DEF Steps
<1>8. PICK w : w = F(w) /\ evidence' = w[n] /\ produced' = produced \o some(n)
  BY <1>7 DEF AddRejections, x
<1>9. w[0] = evidence
  BY <1>8
<1>10. ASSUME NEW i \in 1 .. n PROVE w[i] = BoundEvidence(Append(w[i - 1], x))
  <2>1. F(w)[i] = BoundEvidence(Append(w[i - 1], x))
    OBVIOUS
  <2> HIDE DEF F
  <2>. QED BY <1>8, <2>1
<1> DEFINE S == {i \in Nat : i <= n => Keeps(w[i], produced \o some(i))}
<1> HIDE DEF F, g
<1>11. 0 \in S
  <2>1. some(0) = <<>>
    OBVIOUS
  <2>2. produced \o some(0) = produced
    BY <1>2, <2>1
  <2>. QED BY <1>2, <1>9, <2>2
<1>12. ASSUME NEW i \in Nat, i \in S PROVE i + 1 \in S
  <2>1. SUFFICES ASSUME i + 1 <= n PROVE Keeps(w[i + 1], produced \o some(i + 1))
    OBVIOUS
  <2>2. Keeps(w[i], produced \o some(i)) /\ i + 1 \in 1 .. n /\ (i + 1) - 1 = i
    BY <2>1, <1>12
  <2>3. w[i + 1] = BoundEvidence(Append(w[i], x))
    BY <1>10, <2>2
  <2>4. produced \o some(i + 1) = Append(produced \o some(i), x)
    <3>1. /\ some(i) \in Seq(Item) /\ Len(some(i)) = i /\ \A j \in 1 .. i : some(i)[j] = x
          /\ some(i + 1) \in Seq(Item) /\ Len(some(i + 1)) = i + 1
          /\ \A j \in 1 .. i + 1 : some(i + 1)[j] = x
      BY <1>1
    <3>2. some(i + 1) = Append(some(i), x)
      <4> HIDE DEF some
      <4>1. /\ Append(some(i), x) \in Seq(Item) /\ Len(Append(some(i), x)) = i + 1
            /\ \A j \in 1 .. i + 1 : Append(some(i), x)[j] = x
        BY <1>1, <3>1
      <4>. QED BY <3>1, <4>1, SeqEqual
    <3>3. Append(some(i), x) = some(i) \o <<x>> /\ <<x>> \in Seq(Item)
      <4> HIDE DEF some
      <4>. QED BY <1>1, <3>1, AppendIsConcat
    <3>4. produced \o some(i) \in Seq(Item)
      <4> HIDE DEF some
      <4>. QED BY <1>2, <3>1
    <3>5. Append(produced \o some(i), x) = (produced \o some(i)) \o <<x>>
      <4> HIDE DEF some
      <4>. QED BY <1>1, <3>4, AppendIsConcat
    <3>6. (produced \o some(i)) \o <<x>> = produced \o (some(i) \o <<x>>)
      <4> HIDE DEF some
      <4>1. produced \in Seq(Item) /\ some(i) \in Seq(Item) /\ <<x>> \in Seq(Item)
        BY <1>2, <3>1, <3>3
      <4>. QED BY ONLY <4>1, ConcatAssociative
    <3> HIDE DEF some
    <3>. QED BY <3>2, <3>3, <3>5, <3>6
  <2> HIDE DEF some
  <2>5. Keeps(BoundEvidence(Append(w[i], x)), Append(produced \o some(i), x))
    BY <1>1, <2>2, KeepsAppend
  <2>. QED BY <2>3, <2>4, <2>5
<1> HIDE DEF some
<1>13. n \in S
  <2> HIDE DEF S
  <2>. QED BY <1>11, <1>12, SetInduction
<1>14. Keeps(w[n], produced \o some(n))
  BY <1>13
<1>. QED BY <1>8, <1>14 DEF EvidenceInv

\* At first there is no evidence.
LEMMA InitEvidence == Init => EvidenceInv
<1> SUFFICES ASSUME Init PROVE EvidenceInv
  OBVIOUS
<1>1. <<>> \in Seq(Item) /\ Len(<<>>) = 0 /\ 0 <= MaxItems /\ 0 <= MaxBytes
  BY EvidenceAssumption
<1>2. ASSUME NEW n \in 0 .. Len(<<>>) PROVE Newest(<<>>, n) = CappedNewest(<<>>, n)
  <2>1. n = 0 /\ n \in 0 .. Len(<<>>)
    BY <1>1
  <2>2. /\ Newest(<<>>, n) \in Seq(Item) /\ Len(Newest(<<>>, n)) = 0
        /\ CappedNewest(<<>>, n) \in Seq(Item) /\ Len(CappedNewest(<<>>, n)) = 0
    BY <1>1, <2>1, NewestTypes
  <2>. QED BY <2>2
<1>3. Keeps(<<>>, <<>>)
  BY <1>1, <1>2, TotalOfNone DEF Keeps
<1>. QED BY <1>3 DEF Init, EvidenceInv

\* Every step keeps the newest evidence.
LEMMA NextEvidence == ASSUME TypeOK, EvidenceInv, [Next]_vars PROVE EvidenceInv'
<1>1. CASE Collect
  <2>1. PICK n \in 0 .. MaxCollected : produced' \in [1 .. n -> [from : {"baseline"}, size : Sizes]]
    BY <1>1 DEF Collect
  <2>2. [from : {"baseline"}, size : Sizes] \subseteq Item
    BY EvidenceAssumption DEF Item
  <2>3. produced' \in [1 .. n -> Item] /\ n \in Nat
    BY <2>1, <2>2
  <2>4. produced' \in Seq(Item)
    BY <2>3
  <2>5. Keeps(BoundEvidence(produced'), produced')
    BY <2>4, BoundKeeps
  <2>. QED BY <1>1, <2>5 DEF Collect, EvidenceInv
<1>2. CASE DecideOverBudget
  <2>1. [from |-> "limit", size |-> 1] \in Item
    BY DEF Item
  <2>. QED BY <1>2, <2>1, AddEvidenceKeeps DEF DecideOverBudget
<1>3. ASSUME NEW requests \in Asks, DecideTools(requests) PROVE EvidenceInv'
  <2>1. Fresh(requests) \ Valid(requests) \subseteq Requests
    <3>1. Taken(requests) \subseteq Requests
      BY TakenIsWithinBudget
    <3>. QED BY <3>1 DEF Fresh
  <2>2. Cardinality(Fresh(requests) \ Valid(requests)) \in Nat
    BY <2>1, RequestsAssumption, FS_Subset, FS_CardinalityType
  <2>. QED BY <1>3, <2>2, AddRejectionsKeeps DEF DecideTools
<1>4. CASE Receive
  <2>1. PICK item \in channel : AddEvidence(item)
    BY <1>4 DEF Receive
  <2>2. item \in Item
    BY <2>1, EvidenceAssumption DEF TypeOK, Item
  <2>. QED BY <2>1, <2>2, AddEvidenceKeeps
<1>5. CASE UNCHANGED <<evidence, produced>>
  BY <1>5 DEF EvidenceInv
<1>6. ASSUME ~Collect, ~DecideOverBudget, ~Receive,
             ~\E requests \in Asks : DecideTools(requests)
      PROVE  UNCHANGED <<evidence, produced>>
  BY <1>6 DEF Next, Investigate, Decide, CollectFails, CollectHangs, DecideEnough, DeadlineSeen,
              Finish, Expire,
              ToolEnds, vars
<1>. QED BY <1>1, <1>2, <1>3, <1>4, <1>5, <1>6

-----------------------------------------------------------------------------
(* What follows from it *)

\* Every variable keeps its type; at most MaxToolCalls are charged.
THEOREM TypeCorrect == Spec => []TypeOK
<1>1. IInv => TypeOK
  BY DEF IInv
<1>. QED BY <1>1, Invariance, PTL

\* The tools run never exceed the budget, whatever the AI service asks for.
THEOREM Budgeted == Spec => []WithinBudget
<1>1. ASSUME IInv PROVE WithinBudget
  BY <1>1, Counted, BudgetAssumption DEF IInv, TypeOK, Charged, WithinBudget
<1>. QED BY <1>1, Invariance, PTL

\* Every step's tools have ended before the AI service is asked again and
\* before a finding is returned.
THEOREM Separate == Spec => []StepsAreSeparate
<1>1. ASSUME IInv PROVE StepsAreSeparate
  <2>1. SUFFICES ASSUME stage \in {"reasoning", "concluding", "found"}
                 PROVE  running = {} /\ channel = {}
    BY DEF StepsAreSeparate
  <2>2. Cardinality(running) + Cardinality(channel) = 0
    BY <1>1, <2>1 DEF IInv, Outstanding
  <2>3. Cardinality(running) = 0 /\ Cardinality(channel) = 0
    BY <1>1, <2>2, Counted DEF IInv
  <2>. QED BY <1>1, <2>3, Counted, FS_EmptySet DEF IInv, TypeOK
<1>. QED BY <1>1, Invariance, PTL

\* No goroutine is blocked on the channel of its step, so none is left behind
\* by an investigation that returns at its deadline.
THEOREM Unblocked == Spec => []NobodyBlocked
<1>1. ASSUME IInv PROVE NobodyBlocked
  <2>1. SUFFICES ASSUME running # {} PROVE Cardinality(channel) < Cardinality(asked)
    BY DEF NobodyBlocked, Capacity
  <2>2. Cardinality(running) # 0
    BY <1>1, <2>1, Counted, FS_EmptySet DEF IInv
  <2>. QED BY <1>1, <2>2, Counted DEF IInv, Outstanding
<1>. QED BY <1>1, Invariance, PTL

\* No request is run twice.
THEOREM RunOnce == Spec => NoToolTwice
<1>1. ASSUME IInv, [Next]_vars, NEW r \in Requests, r \in running' \ running
      PROVE  r \notin ran
  <2>1. CASE \E requests \in Asks : DecideTools(requests)
    <3>1. PICK requests \in Asks : DecideTools(requests)
      BY <2>1
    <3>2. r \in Valid(requests)
      BY <1>1, <3>1 DEF DecideTools, tools
    <3>. QED BY <1>1, <3>2, ValidIsWithinBudget DEF IInv, Charged
  <2>2. CASE UNCHANGED running \/ running' \subseteq running
    BY <1>1, <2>2
  <2>3. UNCHANGED running \/ running' \subseteq running \/ \E requests \in Asks : DecideTools(requests)
    BY <1>1 DEF Next, Investigate, Decide, Collect, CollectFails, CollectHangs, DecideEnough, DeadlineSeen,
                DecideOverBudget, Receive, ToolEnds, Finish, Expire, vars, tools
  <2>. QED BY <2>1, <2>2, <2>3
<1>2. IInv /\ [Next]_vars => [\A r \in Requests : r \in running' \ running => r \notin ran]_vars
  BY <1>1
<1>. QED BY <1>2, Invariance, PTL DEF Spec, NoToolTwice

\* The evidence retained is within both bounds, and is the newest there is, whatever
\* the bounds, the outputs and their order.
THEOREM EvidenceKept == Spec => []EvidenceIsKept
<1>1. IInv /\ EvidenceInv /\ [Next]_vars => EvidenceInv'
  BY NextEvidence DEF IInv
<1>2. EvidenceInv => EvidenceIsKept
  BY DEF EvidenceInv, Keeps, EvidenceIsKept, EvidenceIsBounded, NewestEvidenceIsKept
<1>. QED BY <1>1, <1>2, InitEvidence, Invariance, PTL DEF Spec

=============================================================================
