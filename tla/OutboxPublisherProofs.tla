------------------------ MODULE OutboxPublisherProofs ------------------------
(***************************************************************************)
(* Proofs about OutboxPublisher for any number of events, instances,       *)
(* overlapping cycles, faults and stalls, and any batch size.              *)
(*                                                                         *)
(* Two of the invariants count, and neither count is inductive by itself.  *)
(* DuplicatesNeedRecovery needs PublishBudget, which adds to the copies    *)
(* made those that may still be made without a recovery: one per cycle     *)
(* about to publish and one for a row that can still be claimed.           *)
(* ExecutionsCounted needs the set it counts to be finite, which holds     *)
(* although the constants may allow for infinitely many cycles.            *)
(***************************************************************************)
EXTENDS OutboxPublisher, FiniteSetTheorems, WellFoundedInduction, TLAPS

(* The cycles of instance i, those about to publish e, and what a row that *)
(* no cycle has claimed since its last recovery still allows.              *)
Running(i) == {c \in Cycles : Host(c) = i /\ pc[c] # "idle"}
Publishing(e) == {c \in Cycles : pc[c] = "publish" /\ Current(c) = e}
Unclaimed(e) == IF status[e] \in {"absent", "PENDING"} THEN 1 ELSE 0

(* A cycle between its claim and its markAsSent still has the event.       *)
BatchHeld == \A c \in Cycles : pc[c] \in {"publish", "mark"} => batch[c] # {}

(* Copies made, and those that may be made without another recovery.       *)
PublishBudget ==
  \A e \in Events :
    /\ IsFiniteSet(Publishing(e))
    /\ copies[e] + Cardinality(Publishing(e)) + Unclaimed(e) <= 1 + recoveries[e]

RunningFinite == \A i \in Instances : IsFiniteSet(Running(i))

Inv == /\ TypeOK
       /\ BatchHeld
       /\ SentWasPublished
       /\ PublishBudget
       /\ ExecutionsCounted
       /\ RunningFinite

-----------------------------------------------------------------------------
(* A set of numbers has a least one, and Min finds it.                     *)
LEMMA MinInSet ==
  ASSUME NEW S \in SUBSET Nat, S # {}
  PROVE  Min(S) \in S
<1>1. PICK x \in S : \A y \in S : ~ (<<y, x>> \in OpToRel(<, Nat))
  BY WFMin, NatLessThanWellFounded, Zenon
<1>2. ASSUME NEW y \in S PROVE ~ (y < x)
  <2>1. <<y, x>> \in OpToRel(<, Nat) <=> y < x
    BY Zenon DEF OpToRel
  <2> QED
    BY <1>1, <2>1, Zenon
<1>3. \A y \in S : x =< y
  BY <1>2
<1> QED
  BY <1>3 DEF Min

(* The event of the iteration is one of the batch.                         *)
LEMMA CurrentInBatch ==
  ASSUME TypeOK, NEW c \in Cycles, batch[c] # {}
  PROVE  Current(c) \in batch[c] /\ Current(c) \in Events
<1>1. batch[c] \subseteq Events /\ batch[c] \in SUBSET Nat
  BY OutboxAssumption DEF TypeOK
<1>2. Min(batch[c]) \in batch[c]
  BY <1>1, MinInSet
<1> QED
  BY <1>1, <1>2 DEF Current

(* What the counts see of a step of cycle c alone.                         *)
OnlyCycle(c) == \A d \in Cycles \ {c} : pc'[d] = pc[d] /\ batch'[d] = batch[d]

(* When only c moves, each counted set changes by c at most.               *)
LEMMA OthersStay ==
  ASSUME NEW c \in Cycles, OnlyCycle(c)
  PROVE  /\ \A i \in Instances : Running(i)' \ {c} = Running(i) \ {c}
         /\ \A e \in Events : Publishing(e)' \ {c} = Publishing(e) \ {c}
BY DEF OnlyCycle, Running, Publishing, Host, Current

(* A set that gains, keeps or loses c is counted accordingly.              *)
LEMMA CountWithout ==
  ASSUME NEW S, NEW T, NEW c, IsFiniteSet(S), T \ {c} = S \ {c}
  PROVE  /\ IsFiniteSet(T)
         /\ Cardinality(S) \in Nat
         /\ c \in S /\ c \notin T => Cardinality(T) = Cardinality(S) - 1
         /\ c \notin S /\ c \in T => Cardinality(T) = Cardinality(S) + 1
         /\ (c \in S <=> c \in T) => T = S
<1>1. Cardinality(S) \in Nat
  BY FS_CardinalityType
<1>2. CASE c \in S /\ c \notin T
  <2>1. T = S \ {c}
    BY <1>2
  <2> QED
    BY <1>1, <1>2, <2>1, FS_RemoveElement
<1>3. CASE c \notin S /\ c \in T
  <2>1. T = S \cup {c}
    BY <1>3
  <2> QED
    BY <1>1, <1>3, <2>1, FS_AddElement
<1>4. CASE c \in S <=> c \in T
  <2>1. T = S
    BY <1>4
  <2> QED
    BY <1>1, <1>4, <2>1
<1> QED
  BY <1>2, <1>3, <1>4

(* The relay starts with nothing claimed, published or counted.            *)
LEMMA InvInit == Init => Inv
<1> SUFFICES ASSUME Init PROVE Inv
  OBVIOUS
<1>1. TypeOK
  BY OutboxAssumption DEF Init, TypeOK, Calling
<1>2. BatchHeld /\ SentWasPublished
  BY DEF Init, BatchHeld, SentWasPublished
<1>3. \A e \in Events : Publishing(e) = {}
  BY DEF Init, Publishing
<1>4. \A i \in Instances : Running(i) = {}
  BY DEF Init, Running
<1>5. PublishBudget
  BY <1>3, FS_EmptySet DEF Init, PublishBudget, Unclaimed
<1>6. ExecutionsCounted /\ RunningFinite
  BY <1>4, FS_EmptySet DEF Init, ExecutionsCounted, RunningFinite, Running
<1> QED
  BY <1>1, <1>2, <1>5, <1>6 DEF Inv

(* A cycle that runs is counted, and is the only one of its instance.      *)
LEMMA RunningCounted ==
  ASSUME Inv, NEW c \in Cycles
  PROVE  /\ Host(c) \in Instances
         /\ activeExecutions[Host(c)] = Cardinality(Running(Host(c)))
         /\ pc[c] # "idle" => activeExecutions[Host(c)] = 1
<1>1. Host(c) \in Instances
  BY DEF Cycles, Host
<1>2. activeExecutions[Host(c)] = Cardinality(Running(Host(c)))
  BY <1>1 DEF Inv, ExecutionsCounted, Running
<1>3. ASSUME pc[c] # "idle" PROVE activeExecutions[Host(c)] = 1
  <2>1. Running(Host(c)) # {} /\ IsFiniteSet(Running(Host(c)))
    BY <1>1, <1>3 DEF Running, Inv, RunningFinite
  <2>2. Cardinality(Running(Host(c))) # 0 /\ Cardinality(Running(Host(c))) \in Nat
    BY <2>1, FS_EmptySet, FS_CardinalityType
  <2>3. activeExecutions[Host(c)] <= 1
    BY <1>1, Zenon DEF Inv, ExecutionsCounted
  <2> QED
    BY <1>2, <2>2, <2>3
<1> QED
  BY <1>1, <1>2, <1>3

-----------------------------------------------------------------------------
(* The counter of an instance through a step of its cycle c: c goes on, or *)
(* starts while nothing else runs, or leaves.                              *)
LEMMA CycleGoesOn ==
  ASSUME Inv, NEW c \in Cycles, OnlyCycle(c), UNCHANGED activeExecutions,
         pc[c] = "idle" <=> pc'[c] = "idle"
  PROVE  ExecutionsCounted' /\ RunningFinite'
<1>1. \A i \in Instances : Running(i)' = Running(i)
  BY DEF OnlyCycle, Running
<1> QED
  BY <1>1 DEF Inv, ExecutionsCounted, RunningFinite, Running

(* The guard of publishPending leaves room for exactly one.                *)
LEMMA CycleStarts ==
  ASSUME Inv, NEW c \in Cycles, OnlyCycle(c), pc[c] = "idle", pc'[c] # "idle",
         activeExecutions[Host(c)] = 0,
         activeExecutions' = [activeExecutions EXCEPT ![Host(c)] = @ + 1]
  PROVE  ExecutionsCounted' /\ RunningFinite'
<1>1. Host(c) \in Instances /\ Cardinality(Running(Host(c))) = 0
  BY RunningCounted
<1>2. Running(Host(c)) \ {c} = Running(Host(c))' \ {c}
  BY <1>1, OthersStay
<1>3. IsFiniteSet(Running(Host(c)))' /\ Cardinality(Running(Host(c)))' = 1
  <2>1. c \notin Running(Host(c)) /\ c \in Running(Host(c))'
    BY DEF Running
  <2>2. IsFiniteSet(Running(Host(c)))
    BY <1>1 DEF Inv, RunningFinite
  <2> QED
    BY <1>1, <1>2, <2>1, <2>2, CountWithout
<1>4. ASSUME NEW i \in Instances, i # Host(c) PROVE Running(i)' = Running(i)
  BY <1>4 DEF OnlyCycle, Running
<1>5. /\ activeExecutions'[Host(c)] = 1
      /\ \A i \in Instances \ {Host(c)} : activeExecutions'[i] = activeExecutions[i]
  BY <1>1 DEF Inv, TypeOK
<1>6. ASSUME NEW i \in Instances
      PROVE  /\ activeExecutions'[i] = Cardinality(Running(i))'
             /\ activeExecutions'[i] <= 1
             /\ IsFiniteSet(Running(i))'
  <2>1. CASE i = Host(c)
    BY <1>3, <1>5, <2>1
  <2>2. CASE i # Host(c)
    BY <1>4, <1>5, <2>2 DEF Inv, ExecutionsCounted, RunningFinite, Running
  <2> QED
    BY <2>1, <2>2
<1> QED
  BY <1>6 DEF ExecutionsCounted, RunningFinite, Running

(* The finally block gives the one back.                                   *)
LEMMA CycleLeaves ==
  ASSUME Inv, NEW c \in Cycles, OnlyCycle(c), pc[c] # "idle", pc'[c] = "idle",
         activeExecutions' = [activeExecutions EXCEPT ![Host(c)] = @ - 1]
  PROVE  /\ ExecutionsCounted' /\ RunningFinite'
         /\ activeExecutions' \in [Instances -> Nat]
<1>1. /\ Host(c) \in Instances
      /\ activeExecutions[Host(c)] = 1
      /\ Cardinality(Running(Host(c))) = 1
  BY RunningCounted
<1>2. Running(Host(c)) \ {c} = Running(Host(c))' \ {c}
  BY <1>1, OthersStay
<1>3. IsFiniteSet(Running(Host(c)))' /\ Cardinality(Running(Host(c)))' = 0
  <2>1. c \in Running(Host(c)) /\ c \notin Running(Host(c))'
    BY DEF Running
  <2>2. IsFiniteSet(Running(Host(c)))
    BY <1>1 DEF Inv, RunningFinite
  <2> QED
    BY <1>1, <1>2, <2>1, <2>2, CountWithout
<1>4. ASSUME NEW i \in Instances, i # Host(c) PROVE Running(i)' = Running(i)
  BY <1>4 DEF OnlyCycle, Running
<1>5. /\ activeExecutions'[Host(c)] = 0
      /\ \A i \in Instances \ {Host(c)} : activeExecutions'[i] = activeExecutions[i]
      /\ activeExecutions' \in [Instances -> Nat]
  BY <1>1 DEF Inv, TypeOK
<1>6. ASSUME NEW i \in Instances
      PROVE  /\ activeExecutions'[i] = Cardinality(Running(i))'
             /\ activeExecutions'[i] <= 1
             /\ IsFiniteSet(Running(i))'
  <2>1. CASE i = Host(c)
    BY <1>3, <1>5, <2>1
  <2>2. CASE i # Host(c)
    BY <1>4, <1>5, <2>2 DEF Inv, ExecutionsCounted, RunningFinite, Running
  <2> QED
    BY <2>1, <2>2
<1>7. ExecutionsCounted' /\ RunningFinite'
  BY <1>6 DEF ExecutionsCounted, RunningFinite, Running
<1> QED
  BY <1>5, <1>7

(* Whether cycle c is about to publish e.                                  *)
Ready(c, e) == IF pc[c] = "publish" /\ Current(c) = e THEN 1 ELSE 0

(* A step of cycle c keeps the budget if it does for c's own share.        *)
LEMMA BudgetKept ==
  ASSUME Inv, NEW c \in Cycles, OnlyCycle(c), UNCHANGED recoveries,
         copies' \in [Events -> Nat],
         \A e \in Events : copies'[e] + Ready(c, e)' + Unclaimed(e)'
                             <= copies[e] + Ready(c, e) + Unclaimed(e)
  PROVE  PublishBudget'
<1> SUFFICES ASSUME NEW e \in Events
             PROVE  /\ IsFiniteSet(Publishing(e))'
                    /\ copies'[e] + Cardinality(Publishing(e))' + Unclaimed(e)'
                       <= 1 + recoveries'[e]
  BY DEF PublishBudget
<1>1. IsFiniteSet(Publishing(e)) /\ Publishing(e)' \ {c} = Publishing(e) \ {c}
  BY OthersStay DEF Inv, PublishBudget
<1>2. IsFiniteSet(Publishing(e))' /\ Cardinality(Publishing(e)) \in Nat
  BY <1>1, CountWithout
<1>3. Cardinality(Publishing(e))' - Ready(c, e)' = Cardinality(Publishing(e)) - Ready(c, e)
  <2>1. /\ c \in Publishing(e) <=> Ready(c, e) = 1
        /\ c \notin Publishing(e) <=> Ready(c, e) = 0
        /\ c \in Publishing(e)' <=> Ready(c, e)' = 1
        /\ c \notin Publishing(e)' <=> Ready(c, e)' = 0
    BY DEF Publishing, Ready
  <2>2. CASE c \in Publishing(e) <=> c \in Publishing(e)'
    <3>1. Publishing(e)' = Publishing(e)
      BY <1>1, <2>2, CountWithout
    <3> QED
      BY <1>2, <2>1, <2>2, <3>1
  <2>3. CASE c \in Publishing(e) /\ c \notin Publishing(e)'
    <3>1. Cardinality(Publishing(e))' = Cardinality(Publishing(e)) - 1
      BY <1>1, <2>3, CountWithout
    <3> QED
      BY <1>2, <2>1, <2>3, <3>1
  <2>4. CASE c \notin Publishing(e) /\ c \in Publishing(e)'
    <3>1. Cardinality(Publishing(e))' = Cardinality(Publishing(e)) + 1
      BY <1>1, <2>4, CountWithout
    <3> QED
      BY <1>2, <2>1, <2>4, <3>1
  <2> QED
    BY <2>2, <2>3, <2>4
<1>4. /\ copies[e] + Cardinality(Publishing(e)) + Unclaimed(e) <= 1 + recoveries[e]
      /\ copies'[e] + Ready(c, e)' + Unclaimed(e)' <= copies[e] + Ready(c, e) + Unclaimed(e)
      /\ recoveries'[e] = recoveries[e] /\ recoveries[e] \in Nat
      /\ copies[e] \in Nat /\ copies'[e] \in Nat
  BY DEF Inv, PublishBudget, TypeOK
<1>5. /\ Ready(c, e) \in 0..1 /\ Ready(c, e)' \in 0..1
      /\ Unclaimed(e) \in 0..1 /\ Unclaimed(e)' \in 0..1
      /\ Cardinality(Publishing(e))' \in Nat
  BY <1>2, FS_CardinalityType DEF Ready, Unclaimed
<1> QED
  BY <1>2, <1>3, <1>4, <1>5

-----------------------------------------------------------------------------
(* The steps of a cycle.                                                   *)
LEMMA StartInv ==
  ASSUME Inv, NEW c \in Cycles, Start(c)
  PROVE  Inv'
<1>1. OnlyCycle(c) /\ pc[c] = "idle" /\ pc'[c] = "find"
  BY DEF Start, Goto, OnlyCycle, Inv, TypeOK
<1>2. TypeOK'
  <2>1. c \notin stalled
    BY <1>1 DEF Inv, TypeOK, Calling
  <2>2. stalled' \subseteq {d \in Cycles : Calling(d)'}
    BY <1>1, <2>1 DEF Inv, TypeOK, Start, OnlyCycle, Calling
  <2>3. activeExecutions' \in [Instances -> Nat]
    BY RunningCounted DEF Inv, TypeOK, Start
  <2> QED
    BY <1>1, <2>2, <2>3 DEF Inv, TypeOK, Start, Goto, table
<1>3. BatchHeld'
  BY <1>1 DEF Inv, BatchHeld, OnlyCycle, Start
<1>4. SentWasPublished'
  BY <1>1 DEF Inv, SentWasPublished, OnlyCycle, Start, table, Current
<1>5. PublishBudget'
  BY <1>1, BudgetKept DEF Inv, TypeOK, Start, table, Ready, Unclaimed
<1>6. ExecutionsCounted' /\ RunningFinite'
  BY <1>1, CycleStarts DEF Start
<1> QED
  BY <1>2, <1>3, <1>4, <1>5, <1>6 DEF Inv

(* findPending takes a batch of rows that are PENDING now.                 *)
LEMMA FindPendingInv ==
  ASSUME Inv, NEW c \in Cycles, FindPending(c)
  PROVE  Inv'
<1>1. OnlyCycle(c) /\ pc[c] = "find" /\ pc'[c] = "claim"
  BY DEF FindPending, Goto, OnlyCycle, Inv, TypeOK
<1>2. TypeOK'
  <2>1. Lowest(Pending, BatchSize) \subseteq Events
    BY DEF Lowest, Pending
  <2> QED
    BY <1>1, <2>1 DEF Inv, TypeOK, FindPending, Goto, table, Calling, Answered
<1>3. BatchHeld'
  BY <1>1 DEF Inv, BatchHeld, OnlyCycle, FindPending
<1>4. SentWasPublished'
  BY <1>1 DEF Inv, SentWasPublished, OnlyCycle, FindPending, table, Current
<1>5. PublishBudget'
  BY <1>1, BudgetKept DEF Inv, TypeOK, FindPending, table, Ready, Unclaimed
<1>6. ExecutionsCounted' /\ RunningFinite'
  BY <1>1, CycleGoesOn DEF FindPending
<1> QED
  BY <1>2, <1>3, <1>4, <1>5, <1>6 DEF Inv

(* A claim uses up the row's own part of the budget for a publish of c.    *)
LEMMA ClaimInv ==
  ASSUME Inv, NEW c \in Cycles, Claim(c)
  PROVE  Inv'
<1>0. /\ pc[c] = "claim"
      /\ Current(c) \in batch[c]
      /\ Current(c) \in Events
      /\ UNCHANGED <<activeExecutions, copies, faults, stalls, recoveries>>
  BY CurrentInBatch DEF Claim, Inv, ClaimRow, table
<1>1. OnlyCycle(c) /\ pc'[c] \in {"publish", "claim"}
  BY <1>0 DEF Claim, Goto, OnlyCycle, Inv, TypeOK
<1>2. CASE Claimable(Current(c))
  <2>1. /\ status[Current(c)] = "PENDING"
        /\ status' = [status EXCEPT ![Current(c)] = "PROCESSING"]
        /\ overdue' = overdue \ {Current(c)}
        /\ pc' = [pc EXCEPT ![c] = "publish"]
        /\ batch' = batch
        /\ stalled' = stalled \ {c}
    BY <1>2 DEF Claim, Claimable, ClaimRow, Goto, Answered
  <2>2. TypeOK'
    BY <1>0, <2>1 DEF Inv, TypeOK, Calling
  <2>3. BatchHeld'
    BY <1>0, <2>1 DEF Inv, BatchHeld, TypeOK
  <2>4. SentWasPublished'
    BY <1>0, <2>1 DEF Inv, SentWasPublished, TypeOK, Current
  <2>5. PublishBudget'
    <3>1. \A e \in Events : Ready(c, e)' + Unclaimed(e)' <= Ready(c, e) + Unclaimed(e)
      BY <1>0, <2>1 DEF Ready, Unclaimed, Current, Inv, TypeOK
    <3> QED
      BY <1>0, <1>1, <3>1, BudgetKept DEF Inv, TypeOK, Ready, Unclaimed
  <2> QED
    BY <1>0, <1>1, <2>2, <2>3, <2>4, <2>5, CycleGoesOn DEF Inv
<1>3. CASE ~Claimable(Current(c))
  <2>1. /\ UNCHANGED <<table, pc>>
        /\ batch' = [batch EXCEPT ![c] = @ \ {Current(c)}]
        /\ stalled' = stalled \ {c}
    BY <1>3 DEF Claim, Answered
  <2>2. TypeOK'
    BY <1>0, <2>1 DEF Inv, TypeOK, Calling, table
  <2>3. BatchHeld'
    BY <1>0, <2>1 DEF Inv, BatchHeld, TypeOK
  <2>4. SentWasPublished'
    BY <1>0, <1>1, <2>1 DEF Inv, SentWasPublished, OnlyCycle, TypeOK, Current, table
  <2>5. PublishBudget'
    BY <1>0, <1>1, <2>1, BudgetKept DEF Inv, TypeOK, Ready, Unclaimed, table
  <2> QED
    BY <1>0, <1>1, <2>1, <2>2, <2>3, <2>4, <2>5, CycleGoesOn DEF Inv
<1> QED
  BY <1>2, <1>3

(* A confirmed publish turns c's part of the budget into a copy.           *)
LEMMA PublishInv ==
  ASSUME Inv, NEW c \in Cycles, Publish(c)
  PROVE  Inv'
<1>0. /\ pc[c] = "publish"
      /\ Current(c) \in batch[c]
      /\ Current(c) \in Events
      /\ copies' = [copies EXCEPT ![Current(c)] = @ + 1]
      /\ pc' = [pc EXCEPT ![c] = "mark"]
      /\ stalled' = stalled \ {c}
      /\ UNCHANGED <<status, overdue, recoveries, batch, activeExecutions, faults, stalls>>
  BY CurrentInBatch DEF Publish, Inv, BatchHeld, Goto, Answered, table
<1>1. OnlyCycle(c) /\ pc'[c] = "mark"
  BY <1>0 DEF OnlyCycle, Inv, TypeOK
<1>2. TypeOK'
  BY <1>0 DEF Inv, TypeOK, Calling
<1>3. BatchHeld'
  BY <1>0, <1>1 DEF Inv, BatchHeld, OnlyCycle
<1>4. SentWasPublished'
  <2>1. \A e \in Events :
          /\ copies[e] \in Nat /\ copies'[e] \in Nat
          /\ copies'[e] >= copies[e]
          /\ e = Current(c) => copies'[e] >= 1
    BY <1>0 DEF Inv, TypeOK
  <2>2. \A d \in Cycles :
          /\ Current(d)' = Current(d)
          /\ pc'[d] = "mark" => d = c \/ pc[d] = "mark"
    BY <1>0, <1>1 DEF OnlyCycle, Current
  <2> QED
    BY <1>0, <2>1, <2>2 DEF Inv, SentWasPublished
<1>5. PublishBudget'
  <2>1. ASSUME NEW e \in Events
        PROVE  copies'[e] + Ready(c, e)' <= copies[e] + Ready(c, e)
    BY <1>0, <1>1 DEF Inv, TypeOK, Ready, Current
  <2>2. copies' \in [Events -> Nat]
    BY <1>2 DEF TypeOK
  <2> QED
    BY <1>0, <1>1, <2>1, <2>2, BudgetKept DEF Inv, TypeOK, Unclaimed, Ready
<1> QED
  BY <1>0, <1>1, <1>2, <1>3, <1>4, <1>5, CycleGoesOn DEF Inv

(* markAsSent is reached only with a copy at the broker, so it may set any *)
(* row to SENT, also one that was recovered meanwhile.                     *)
LEMMA MarkAsSentInv ==
  ASSUME Inv, NEW c \in Cycles, MarkAsSent(c)
  PROVE  Inv'
<1>0. /\ pc[c] = "mark"
      /\ Current(c) \in batch[c]
      /\ Current(c) \in Events
      /\ status' = [status EXCEPT ![Current(c)] = "SENT"]
      /\ overdue' = overdue \ {Current(c)}
      /\ batch' = [batch EXCEPT ![c] = @ \ {Current(c)}]
      /\ pc' = [pc EXCEPT ![c] = "claim"]
      /\ stalled' = stalled \ {c}
      /\ UNCHANGED <<recoveries, copies, activeExecutions, faults, stalls>>
  BY CurrentInBatch DEF MarkAsSent, MarkRow, Inv, BatchHeld, Goto, Answered
<1>1. OnlyCycle(c) /\ pc'[c] = "claim"
  BY <1>0 DEF OnlyCycle, Inv, TypeOK
<1>2. TypeOK'
  BY <1>0 DEF Inv, TypeOK, Calling
<1>3. BatchHeld'
  BY <1>0, <1>1 DEF Inv, BatchHeld, OnlyCycle
<1>4. SentWasPublished'
  BY <1>0, <1>1 DEF Inv, TypeOK, SentWasPublished, OnlyCycle, Current
<1>5. PublishBudget'
  <2>1. \A e \in Events : Ready(c, e)' + Unclaimed(e)' <= Ready(c, e) + Unclaimed(e)
    BY <1>0, <1>1 DEF Ready, Unclaimed, Inv, TypeOK
  <2> QED
    BY <1>0, <1>1, <2>1, BudgetKept DEF Inv, TypeOK, Ready, Unclaimed
<1> QED
  BY <1>0, <1>1, <1>2, <1>3, <1>4, <1>5, CycleGoesOn DEF Inv

(* The loop ends and the finally block runs.                               *)
LEMMA EndCycleInv ==
  ASSUME Inv, NEW c \in Cycles, EndCycle(c)
  PROVE  Inv'
<1>0. /\ pc[c] = "claim"
      /\ batch[c] = {}
      /\ pc' = [pc EXCEPT ![c] = "idle"]
      /\ batch' = [batch EXCEPT ![c] = {}]
      /\ activeExecutions' = [activeExecutions EXCEPT ![Host(c)] = @ - 1]
      /\ UNCHANGED <<status, overdue, recoveries, copies, faults, stalled, stalls>>
  BY DEF EndCycle, Leave, Goto, table
<1>1. OnlyCycle(c) /\ pc'[c] = "idle"
  BY <1>0 DEF OnlyCycle, Inv, TypeOK
<1>2. ExecutionsCounted' /\ RunningFinite' /\ activeExecutions' \in [Instances -> Nat]
  BY <1>0, <1>1, CycleLeaves
<1>3. TypeOK'
  <2>1. stalled' \subseteq {d \in Cycles : Calling(d)'}
    BY <1>0, <1>1 DEF Inv, TypeOK, OnlyCycle, Calling
  <2> QED
    BY <1>0, <1>2, <2>1 DEF Inv, TypeOK
<1>4. BatchHeld'
  BY <1>0, <1>1 DEF Inv, BatchHeld, OnlyCycle
<1>5. SentWasPublished'
  BY <1>0, <1>1 DEF Inv, SentWasPublished, OnlyCycle, Current
<1>6. PublishBudget'
  BY <1>0, <1>1, BudgetKept DEF Inv, TypeOK, Ready, Unclaimed
<1> QED
  BY <1>2, <1>3, <1>4, <1>5, <1>6 DEF Inv

(* A call that fails may have claimed, published or marked all the same.   *)
LEMMA CallFailsInv ==
  ASSUME Inv, NEW c \in Cycles, CallFails(c)
  PROVE  Inv'
<1>0. /\ Calling(c)
      /\ faults' = faults + 1 /\ faults < MaxFaults
      /\ pc' = [pc EXCEPT ![c] = "idle"]
      /\ batch' = [batch EXCEPT ![c] = {}]
      /\ activeExecutions' = [activeExecutions EXCEPT ![Host(c)] = @ - 1]
      /\ stalled' = stalled \ {c}
      /\ UNCHANGED stalls
  BY DEF CallFails, Failing, Leave, Goto, Answered
<1>1. OnlyCycle(c) /\ pc[c] # "idle" /\ pc'[c] = "idle"
  BY <1>0 DEF OnlyCycle, Calling, Inv, TypeOK
<1>2. pc[c] \in {"claim", "publish", "mark"} => Current(c) \in Events
  BY <1>0, CurrentInBatch DEF Inv, BatchHeld, Calling
<1>3. ExecutionsCounted' /\ RunningFinite' /\ activeExecutions' \in [Instances -> Nat]
  BY <1>0, <1>1, CycleLeaves
<1>4. stalled' \subseteq {d \in Cycles : Calling(d)'}
  BY <1>0, <1>1 DEF Inv, TypeOK, OnlyCycle, Calling
<1>5. BatchHeld'
  BY <1>0, <1>1 DEF Inv, BatchHeld, OnlyCycle
<1>6. \A d \in Cycles : pc'[d] = "mark" => pc[d] = "mark" /\ Current(d)' = Current(d)
  BY <1>1 DEF OnlyCycle, Current
<1>7. faults' \in 0..MaxFaults
  BY <1>0, OutboxAssumption DEF Inv, TypeOK
<1>8. \A e \in Events : Ready(c, e)' = 0
  BY <1>1 DEF Ready
<1> DEFINE Kept == TypeOK' /\ SentWasPublished' /\ PublishBudget'
<1>9. Kept => Inv'
  BY <1>3, <1>5 DEF Inv
<1>10. CASE UNCHANGED <<table, copies>>
  <2>1. TypeOK'
    BY <1>0, <1>3, <1>4, <1>7, <1>10 DEF Inv, TypeOK, table
  <2>2. SentWasPublished'
    BY <1>6, <1>10 DEF Inv, SentWasPublished, table
  <2>3. PublishBudget'
    BY <1>1, <1>8, <1>10, BudgetKept DEF Inv, TypeOK, Ready, Unclaimed, table
  <2> QED
    BY <1>9, <2>1, <2>2, <2>3
<1>11. CASE /\ pc[c] = "claim"
            /\ Claimable(Current(c))
            /\ ClaimRow(Current(c))
            /\ UNCHANGED copies
  <2>0. /\ Current(c) \in Events
        /\ status[Current(c)] = "PENDING"
        /\ status' = [status EXCEPT ![Current(c)] = "PROCESSING"]
        /\ overdue' = overdue \ {Current(c)}
        /\ UNCHANGED <<recoveries, copies>>
    BY <1>2, <1>11 DEF Claimable, ClaimRow
  <2>1. TypeOK'
    BY <1>0, <1>3, <1>4, <1>7, <2>0 DEF Inv, TypeOK
  <2>2. SentWasPublished'
    BY <1>6, <2>0 DEF Inv, TypeOK, SentWasPublished
  <2>3. PublishBudget'
    BY <1>1, <1>8, <2>0, BudgetKept DEF Inv, TypeOK, Ready, Unclaimed
  <2> QED
    BY <1>9, <2>1, <2>2, <2>3
<1>12. CASE /\ pc[c] = "publish"
            /\ copies' = [copies EXCEPT ![Current(c)] = @ + 1]
            /\ UNCHANGED table
  <2>1. TypeOK'
    BY <1>0, <1>2, <1>3, <1>4, <1>7, <1>12 DEF Inv, TypeOK, table
  <2>2. \A e \in Events : copies'[e] >= copies[e] /\ copies[e] \in Nat /\ copies'[e] \in Nat
    BY <1>2, <1>12 DEF Inv, TypeOK
  <2>3. SentWasPublished'
    BY <1>6, <1>12, <2>2 DEF Inv, SentWasPublished, table
  <2>4. \A e \in Events : copies'[e] <= copies[e] + Ready(c, e)
    BY <1>2, <1>12 DEF Inv, TypeOK, Ready
  <2>5. copies' \in [Events -> Nat]
    BY <2>1 DEF TypeOK
  <2>6. PublishBudget'
    BY <1>1, <1>8, <1>12, <2>2, <2>4, <2>5, BudgetKept DEF Ready, Unclaimed, table
  <2> QED
    BY <1>9, <2>1, <2>3, <2>6
<1>13. CASE /\ pc[c] = "mark"
            /\ MarkRow(Current(c))
            /\ UNCHANGED copies
  <2>0. /\ Current(c) \in Events
        /\ status' = [status EXCEPT ![Current(c)] = "SENT"]
        /\ overdue' = overdue \ {Current(c)}
        /\ UNCHANGED <<recoveries, copies>>
    BY <1>2, <1>13 DEF MarkRow
  <2>1. TypeOK'
    BY <1>0, <1>3, <1>4, <1>7, <2>0 DEF Inv, TypeOK
  <2>2. SentWasPublished'
    BY <1>6, <1>13, <2>0 DEF Inv, TypeOK, SentWasPublished
  <2>3. PublishBudget'
    BY <1>1, <1>8, <2>0, BudgetKept DEF Inv, TypeOK, Ready, Unclaimed
  <2> QED
    BY <1>9, <2>1, <2>2, <2>3
<1> QED
  BY <1>10, <1>11, <1>12, <1>13 DEF CallFails

-----------------------------------------------------------------------------
(* Time, faults that belong to no cycle, the recovery and new orders.      *)
LEMMA InsertInv ==
  ASSUME Inv, NEW e \in Events, Insert(e)
  PROVE  Inv'
<1>0. /\ status[e] = "absent"
      /\ status' = [status EXCEPT ![e] = "PENDING"]
      /\ UNCHANGED <<overdue, recoveries, pc, batch, activeExecutions, copies, faults,
                     stalled, stalls>>
  BY DEF Insert, cycle
<1>1. TypeOK'
  BY <1>0 DEF Inv, TypeOK, Calling
<1>2. BatchHeld' /\ SentWasPublished'
  BY <1>0 DEF Inv, TypeOK, BatchHeld, SentWasPublished, Current
<1>3. PublishBudget'
  <2>1. \A d \in Events : Publishing(d)' = Publishing(d) /\ Unclaimed(d)' = Unclaimed(d)
    BY <1>0 DEF Inv, TypeOK, Publishing, Unclaimed, Current
  <2> QED
    BY <1>0, <2>1 DEF Inv, PublishBudget
<1>4. ExecutionsCounted' /\ RunningFinite'
  BY <1>0 DEF Inv, ExecutionsCounted, RunningFinite, Running
<1> QED
  BY <1>1, <1>2, <1>3, <1>4 DEF Inv

(* A hanging call changes nothing but what time may do.                    *)
LEMMA StallInv ==
  ASSUME Inv, NEW c \in Cycles, Stall(c)
  PROVE  Inv'
<1>0. /\ Calling(c)
      /\ stalled' = stalled \cup {c}
      /\ stalls < MaxStalls /\ stalls' = stalls + 1
      /\ UNCHANGED <<status, overdue, recoveries, pc, batch, activeExecutions, copies,
                     faults>>
  BY DEF Stall, table, cycle
<1>1. TypeOK'
  BY <1>0, OutboxAssumption DEF Inv, TypeOK, Calling
<1>2. BatchHeld' /\ SentWasPublished'
  BY <1>0 DEF Inv, BatchHeld, SentWasPublished, Current
<1>3. PublishBudget'
  BY <1>0 DEF Inv, PublishBudget, Publishing, Unclaimed, Current
<1>4. ExecutionsCounted' /\ RunningFinite'
  BY <1>0 DEF Inv, ExecutionsCounted, RunningFinite, Running
<1> QED
  BY <1>1, <1>2, <1>3, <1>4 DEF Inv

(* Thirty seconds go by over a claimed row.                                *)
LEMMA ExpireInv ==
  ASSUME Inv, NEW e \in Events, Expire(e)
  PROVE  Inv'
<1>0. /\ status[e] = "PROCESSING"
      /\ overdue' = overdue \cup {e}
      /\ UNCHANGED <<status, recoveries, pc, batch, activeExecutions, copies, faults,
                     stalled, stalls>>
  BY DEF Expire, cycle
<1>1. TypeOK'
  BY <1>0 DEF Inv, TypeOK, Calling
<1>2. BatchHeld' /\ SentWasPublished'
  BY <1>0 DEF Inv, BatchHeld, SentWasPublished, Current
<1>3. PublishBudget'
  BY <1>0 DEF Inv, PublishBudget, Publishing, Unclaimed, Current
<1>4. ExecutionsCounted' /\ RunningFinite'
  BY <1>0 DEF Inv, ExecutionsCounted, RunningFinite, Running
<1> QED
  BY <1>1, <1>2, <1>3, <1>4 DEF Inv

(* The recovery opens a row for one more claim, and is counted for it.     *)
LEMMA RecoverInv ==
  ASSUME Inv, RecoverStuckProcessing
  PROVE  Inv'
<1>0. /\ status' = [e \in Events |-> IF e \in overdue THEN "PENDING" ELSE status[e]]
      /\ recoveries' = [e \in Events |-> IF e \in overdue THEN recoveries[e] + 1
                                                          ELSE recoveries[e]]
      /\ overdue' = {}
      /\ UNCHANGED <<pc, batch, activeExecutions, copies, faults, stalled, stalls>>
  BY DEF RecoverStuckProcessing, cycle
<1>1. TypeOK'
  BY <1>0 DEF Inv, TypeOK, Calling
<1>2. BatchHeld' /\ SentWasPublished'
  BY <1>0 DEF Inv, BatchHeld, SentWasPublished, Current
<1>3. PublishBudget'
  <2> SUFFICES ASSUME NEW e \in Events
               PROVE  /\ IsFiniteSet(Publishing(e))'
                      /\ copies'[e] + Cardinality(Publishing(e))' + Unclaimed(e)'
                         <= 1 + recoveries'[e]
    BY DEF PublishBudget
  <2>1. Publishing(e)' = Publishing(e)
    BY <1>0 DEF Publishing, Current
  <2>2. /\ IsFiniteSet(Publishing(e)) /\ Cardinality(Publishing(e)) \in Nat
        /\ copies[e] + Cardinality(Publishing(e)) + Unclaimed(e) <= 1 + recoveries[e]
    BY FS_CardinalityType DEF Inv, PublishBudget
  <2>3. Unclaimed(e)' - recoveries'[e] = Unclaimed(e) - recoveries[e]
    BY <1>0 DEF Inv, TypeOK, Unclaimed
  <2>4. /\ copies[e] \in Nat /\ recoveries[e] \in Nat /\ recoveries'[e] \in Nat
        /\ Unclaimed(e) \in 0..1 /\ Unclaimed(e)' \in 0..1
        /\ copies'[e] = copies[e]
    BY <1>0, <1>1 DEF Inv, TypeOK, Unclaimed
  <2> QED
    BY <2>1, <2>2, <2>3, <2>4
<1>4. ExecutionsCounted' /\ RunningFinite'
  BY <1>0 DEF Inv, ExecutionsCounted, RunningFinite, Running
<1> QED
  BY <1>1, <1>2, <1>3, <1>4 DEF Inv

(* The cycles of a process die with it, and so does its counter.           *)
LEMMA CrashInv ==
  ASSUME Inv, NEW i \in Instances, Crash(i)
  PROVE  Inv'
<1>0. /\ faults < MaxFaults /\ faults' = faults + 1
      /\ pc' = [c \in Cycles |-> IF Host(c) = i THEN "idle" ELSE pc[c]]
      /\ batch' = [c \in Cycles |-> IF Host(c) = i THEN {} ELSE batch[c]]
      /\ activeExecutions' = [activeExecutions EXCEPT ![i] = 0]
      /\ stalled' = {c \in stalled : Host(c) # i}
      /\ UNCHANGED <<status, overdue, recoveries, copies, stalls>>
  BY DEF Crash, table
<1>1. \A c \in Cycles :
        /\ Host(c) = i => pc'[c] = "idle"
        /\ Host(c) # i => pc'[c] = pc[c] /\ batch'[c] = batch[c]
                          /\ Current(c)' = Current(c)
  BY <1>0 DEF Current
<1>2. TypeOK'
  <2>1. stalled' \subseteq {c \in Cycles : Calling(c)'}
    BY <1>0, <1>1 DEF Inv, TypeOK, Calling
  <2> QED
    BY <1>0, <2>1, OutboxAssumption DEF Inv, TypeOK
<1>3. BatchHeld' /\ SentWasPublished'
  BY <1>0, <1>1 DEF Inv, BatchHeld, SentWasPublished
<1>4. PublishBudget'
  <2> SUFFICES ASSUME NEW e \in Events
               PROVE  /\ IsFiniteSet(Publishing(e))'
                      /\ copies'[e] + Cardinality(Publishing(e))' + Unclaimed(e)'
                         <= 1 + recoveries'[e]
    BY DEF PublishBudget
  <2>1. Publishing(e)' \subseteq Publishing(e)
    BY <1>1 DEF Publishing
  <2>2. /\ IsFiniteSet(Publishing(e)) /\ Cardinality(Publishing(e)) \in Nat
        /\ copies[e] + Cardinality(Publishing(e)) + Unclaimed(e) <= 1 + recoveries[e]
    BY FS_CardinalityType DEF Inv, PublishBudget
  <2>3. /\ IsFiniteSet(Publishing(e))' /\ Cardinality(Publishing(e))' \in Nat
        /\ Cardinality(Publishing(e))' <= Cardinality(Publishing(e))
    BY <2>1, <2>2, FS_Subset, FS_CardinalityType
  <2>4. /\ copies[e] \in Nat /\ recoveries[e] \in Nat
        /\ Unclaimed(e) \in 0..1 /\ Unclaimed(e)' = Unclaimed(e)
        /\ copies'[e] = copies[e] /\ recoveries'[e] = recoveries[e]
    BY <1>0 DEF Inv, TypeOK, Unclaimed
  <2> QED
    BY <2>2, <2>3, <2>4
<1>5. ASSUME NEW j \in Instances
      PROVE  /\ activeExecutions'[j] = Cardinality(Running(j))'
             /\ activeExecutions'[j] <= 1
             /\ IsFiniteSet(Running(j))'
  <2>1. CASE j = i
    <3>1. Running(j)' = {}
      BY <1>1, <2>1 DEF Running
    <3>2. activeExecutions'[j] = 0
      BY <1>0, <2>1 DEF Inv, TypeOK
    <3> QED
      BY <3>1, <3>2, FS_EmptySet
  <2>2. CASE j # i
    <3>1. Running(j)' = Running(j)
      BY <1>1, <2>2 DEF Running
    <3>2. activeExecutions'[j] = activeExecutions[j]
      BY <1>0, <2>2 DEF Inv, TypeOK
    <3> QED
      BY <3>1, <3>2 DEF Inv, ExecutionsCounted, RunningFinite, Running
  <2> QED
    BY <2>1, <2>2
<1>6. ExecutionsCounted' /\ RunningFinite'
  BY <1>5 DEF ExecutionsCounted, RunningFinite, Running
<1> QED
  BY <1>2, <1>3, <1>4, <1>6 DEF Inv

(* Every step of the relay keeps the invariant.                            *)
LEMMA InvNext == Inv /\ [Next]_vars => Inv'
<1> SUFFICES ASSUME Inv, [Next]_vars PROVE Inv'
  OBVIOUS
<1>1. ASSUME NEW e \in Events, Insert(e) \/ Expire(e) PROVE Inv'
  BY <1>1, InsertInv, ExpireInv
<1>2. ASSUME NEW c \in Cycles, Step(c) PROVE Inv'
  BY <1>2, StartInv, FindPendingInv, ClaimInv, PublishInv, MarkAsSentInv, EndCycleInv
     DEF Step
<1>3. ASSUME NEW c \in Cycles, CallFails(c) \/ Stall(c) PROVE Inv'
  BY <1>3, CallFailsInv, StallInv
<1>4. ASSUME NEW i \in Instances, Crash(i) PROVE Inv'
  BY <1>4, CrashInv
<1>5. CASE RecoverStuckProcessing
  BY <1>5, RecoverInv
<1>6. CASE UNCHANGED vars
  <2>1. /\ UNCHANGED <<status, overdue, recoveries, pc, batch, activeExecutions, copies,
                       faults, stalled, stalls>>
    BY <1>6 DEF vars, table, cycle
  <2>2. TypeOK' /\ BatchHeld' /\ SentWasPublished'
    BY <2>1 DEF Inv, TypeOK, Calling, BatchHeld, SentWasPublished, Current
  <2>3. PublishBudget'
    BY <2>1 DEF Inv, PublishBudget, Publishing, Unclaimed, Current
  <2>4. ExecutionsCounted' /\ RunningFinite'
    BY <2>1 DEF Inv, ExecutionsCounted, RunningFinite, Running
  <2> QED
    BY <2>2, <2>3, <2>4 DEF Inv
<1> QED
  BY <1>1, <1>2, <1>3, <1>4, <1>5, <1>6 DEF Next

(* The invariant holds of every behaviour.                                 *)
THEOREM Invariance == Spec => []Inv
BY InvInit, InvNext, PTL DEF Spec

(* The variables have their types; only PROCESSING rows carry a start time.*)
THEOREM TypeCorrect == Spec => []TypeOK
BY Invariance, PTL DEF Inv

(* A row that markAsSent has set to SENT was taken by the broker at least  *)
(* once, whatever crashed, failed or was recovered in between.             *)
THEOREM SentRowsWerePublished == Spec => []SentWasPublished
BY Invariance, PTL DEF Inv

(* The budget for copies bounds the copies made.                           *)
LEMMA InvBudget == Inv => DuplicatesNeedRecovery
<1> SUFFICES ASSUME Inv, NEW e \in Events PROVE copies[e] <= 1 + recoveries[e]
  BY DEF DuplicatesNeedRecovery
<1>1. /\ Cardinality(Publishing(e)) \in Nat
      /\ copies[e] + Cardinality(Publishing(e)) + Unclaimed(e) <= 1 + recoveries[e]
  BY FS_CardinalityType DEF Inv, PublishBudget
<1>2. copies[e] \in Nat /\ recoveries[e] \in Nat /\ Unclaimed(e) \in 0..1
  BY DEF Inv, TypeOK, Unclaimed
<1> QED
  BY <1>1, <1>2

(* Any number of relays publish an event at most once between two of its   *)
(* recoveries.                                                             *)
THEOREM DuplicatesAreRecoveries == Spec => []DuplicatesNeedRecovery
BY InvBudget, Invariance, PTL

(* activeExecutions is the number of running cycles of its instance, and   *)
(* the guard of publishPending keeps it at one.                            *)
THEOREM CountersAreExact == Spec => []ExecutionsCounted
BY Invariance, PTL DEF Inv

(* SENT is final: no relay with an old batch claims the row again and no   *)
(* recovery reopens it.                                                    *)
THEOREM SentRowsStaySent == Spec => SentIsFinal
<1>1. Inv /\ [Next]_vars => [\A e \in Events : status[e] = "SENT" => status'[e] = "SENT"]_vars
  <2> SUFFICES ASSUME Inv, Next, NEW e \in Events, status[e] = "SENT"
               PROVE  status'[e] = "SENT"
    OBVIOUS
  <2>1. ASSUME NEW d \in Events, Insert(d) \/ Expire(d) PROVE status'[e] = "SENT"
    BY <2>1 DEF Inv, TypeOK, Insert, Expire
  <2>2. ASSUME NEW c \in Cycles, Step(c) \/ CallFails(c) \/ Stall(c)
        PROVE  status'[e] = "SENT"
    BY <2>2 DEF Inv, TypeOK, Step, Start, FindPending, Claim, Publish, MarkAsSent, EndCycle,
                CallFails, Stall, ClaimRow, Claimable, MarkRow, table
  <2>3. ASSUME NEW i \in Instances, Crash(i) PROVE status'[e] = "SENT"
    BY <2>3 DEF Crash, table
  <2>4. ASSUME RecoverStuckProcessing PROVE status'[e] = "SENT"
    BY <2>4 DEF Inv, TypeOK, RecoverStuckProcessing
  <2> QED
    BY <2>1, <2>2, <2>3, <2>4 DEF Next
<1> QED
  BY <1>1, Invariance, PTL DEF Spec, SentIsFinal

=============================================================================
