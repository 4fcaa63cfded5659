--------------------------- MODULE OutboxPublisher ---------------------------
(***************************************************************************)
(* The outbox relay: OutboxPublisherService.publishPending (@Interval 1 s) *)
(* and recoverStuckProcessing (@Interval 30 s) of every API instance, over *)
(* the statements of PrismaOutboxRepository and the confirm channel of     *)
(* RabbitMqService.publishOrderNotification.                               *)
(*                                                                         *)
(* An invocation of publishPending that passed its guard is a cycle        *)
(* <<instance, slot>>; an instance has more slots than its guard lets it   *)
(* use.  Each await (a statement that commits by itself, a confirmed       *)
(* publish) is one step.                                                   *)
(***************************************************************************)
EXTENDS Integers, FiniteSets, FiniteSetsExt

CONSTANTS
  Events,        \* outbox_events.id, drawn from a sequence
  Instances,     \* the API processes behind nginx
  Slots,         \* invocations of publishPending an instance may overlap
  BatchSize,     \* 500 in the code
  MaxFaults,     \* bound: crashes and failing calls
  MaxStalls      \* bound: calls that hang for 30 s or for ever

ASSUME OutboxAssumption ==
  /\ Events \subseteq Nat
  /\ IsFiniteSet(Events)
  /\ BatchSize \in Nat \ {0}
  /\ MaxFaults \in Nat
  /\ MaxStalls \in Nat

VARIABLES
  status,            \* status[e]: outbox_events.status, "absent" before commit
  overdue,           \* the PROCESSING rows claimed more than 30 s ago
  pc,                \* pc[c]: the await cycle c is at
  batch,             \* batch[c]: the events the cycle still has to go through
  activeExecutions,  \* activeExecutions[i]: the counter of instance i
  copies,            \* copies[e]: messages of e that reached order.notification
  recoveries,        \* history: times e went back to PENDING
  faults,
  stalled,           \* the cycles whose call hangs
  stalls

table == <<status, overdue, recoveries>>
cycle == <<pc, batch, activeExecutions>>
vars == <<table, cycle, copies, faults, stalled, stalls>>

Cycles == Instances \X Slots
Host(c) == c[1]

(* The event of the current iteration: findPending orders by id.           *)
Current(c) == Min(batch[c])

Pending == {e \in Events : status[e] = "PENDING"}

(* The n rows with the smallest ids.                                       *)
Lowest(S, n) == {e \in S : Cardinality({d \in S : d < e}) < n}

Init ==
  /\ status = [e \in Events |-> "absent"]
  /\ overdue = {}
  /\ pc = [c \in Cycles |-> "idle"]
  /\ batch = [c \in Cycles |-> {}]
  /\ activeExecutions = [i \in Instances |-> 0]
  /\ copies = [e \in Events |-> 0]
  /\ recoveries = [e \in Events |-> 0]
  /\ faults = 0
  /\ stalled = {}
  /\ stalls = 0

Goto(c, step) == pc' = [pc EXCEPT ![c] = step]

(* The cycle awaits a statement or the confirm of a publish.               *)
Calling(c) == /\ pc[c] \in {"find", "claim", "publish", "mark"}
              /\ pc[c] = "claim" => batch[c] # {}

(* A call that hung is answered in the end.                                *)
Answered(c) == stalled' = stalled \ {c}

(* The statements of PrismaOutboxRepository.                               *)

(* Mutant: the claim looks the row up by id only.                          *)
ClaimById(e) == status[e] # "absent"

(* WHERE id = e AND status = PENDING.                                      *)
Claimable(e) == status[e] = "PENDING"

ClaimRow(e) == /\ status' = [status EXCEPT ![e] = "PROCESSING"]
               /\ overdue' = overdue \ {e}
               /\ UNCHANGED recoveries

(* Unconditional: whoever holds the id.                                    *)
MarkRow(e) == /\ status' = [status EXCEPT ![e] = "SENT"]
              /\ overdue' = overdue \ {e}
              /\ UNCHANGED recoveries

-----------------------------------------------------------------------------
(* An order's transaction commits its event.  Sequence values are drawn    *)
(* before the commit, so rows appear in any order of their ids.            *)
Insert(e) ==
  /\ status[e] = "absent"
  /\ status' = [status EXCEPT ![e] = "PENDING"]
  /\ UNCHANGED <<overdue, recoveries, cycle, copies, faults, stalled, stalls>>

(* Mutant: overlapping invocations are not skipped.                        *)
StartUnguarded(c) ==
  /\ pc[c] = "idle"
  /\ activeExecutions' = [activeExecutions EXCEPT ![Host(c)] = @ + 1]
  /\ Goto(c, "find")
  /\ UNCHANGED <<batch, table, copies, faults, stalled, stalls>>

(* The interval fires and no execution of this instance is active.         *)
Start(c) ==
  /\ pc[c] = "idle"
  /\ activeExecutions[Host(c)] = 0
  /\ activeExecutions' = [activeExecutions EXCEPT ![Host(c)] = @ + 1]
  /\ Goto(c, "find")
  /\ UNCHANGED <<batch, table, copies, faults, stalled, stalls>>

FindPending(c) ==
  /\ pc[c] = "find"
  /\ batch' = [batch EXCEPT ![c] = Lowest(Pending, BatchSize)]
  /\ Goto(c, "claim")
  /\ Answered(c)
  /\ UNCHANGED <<activeExecutions, table, copies, faults, stalls>>

(* One turn of the loop up to the publish; a row that is no longer PENDING *)
(* is passed over.                                                         *)
Claim(c) ==
  /\ pc[c] = "claim"
  /\ batch[c] # {}
  /\ \/ /\ Claimable(Current(c))
        /\ ClaimRow(Current(c))
        /\ Goto(c, "publish")
        /\ UNCHANGED batch
     \/ /\ ~Claimable(Current(c))
        /\ batch' = [batch EXCEPT ![c] = @ \ {Current(c)}]
        /\ UNCHANGED <<table, pc>>
  /\ Answered(c)
  /\ UNCHANGED <<activeExecutions, copies, faults, stalls>>

(* Mutant: sendToQueue without waitForConfirms, and the message is lost.   *)
PublishUnconfirmed(c) ==
  /\ pc[c] = "publish"
  /\ Goto(c, "mark")
  /\ UNCHANGED <<batch, activeExecutions, table, copies, faults, stalled, stalls>>

(* sendToQueue, and waitForConfirms resolves: the broker has the message.  *)
Publish(c) ==
  /\ pc[c] = "publish"
  /\ copies' = [copies EXCEPT ![Current(c)] = @ + 1]
  /\ Goto(c, "mark")
  /\ Answered(c)
  /\ UNCHANGED <<batch, activeExecutions, table, faults, stalls>>

MarkAsSent(c) ==
  /\ pc[c] = "mark"
  /\ MarkRow(Current(c))
  /\ batch' = [batch EXCEPT ![c] = @ \ {Current(c)}]
  /\ Goto(c, "claim")
  /\ Answered(c)
  /\ UNCHANGED <<activeExecutions, copies, faults, stalls>>

(* The cycle is left, through the finally block.                           *)
Leave(c) ==
  /\ Goto(c, "idle")
  /\ batch' = [batch EXCEPT ![c] = {}]
  /\ activeExecutions' = [activeExecutions EXCEPT ![Host(c)] = @ - 1]

EndCycle(c) ==
  /\ pc[c] = "claim"
  /\ batch[c] = {}
  /\ Leave(c)
  /\ UNCHANGED <<table, copies, faults, stalled, stalls>>

Failing(c) ==
  /\ Calling(c)
  /\ faults < MaxFaults
  /\ faults' = faults + 1

(* Mutant: the counter is decremented after the try block, not in finally. *)
CallFailsWithoutFinally(c) ==
  /\ Failing(c)
  /\ Goto(c, "idle")
  /\ batch' = [batch EXCEPT ![c] = {}]
  /\ Answered(c)
  /\ UNCHANGED <<activeExecutions, table, copies, stalls>>

(* A statement or the publish rejects, or there is no channel.  The rest   *)
(* of the batch is abandoned.  The call may have taken effect all the      *)
(* same: only its answer was lost.                                         *)
CallFails(c) ==
  /\ Failing(c)
  /\ Leave(c)
  /\ \/ UNCHANGED <<table, copies>>
     \/ /\ pc[c] = "claim"
        /\ Claimable(Current(c))
        /\ ClaimRow(Current(c))
        /\ UNCHANGED copies
     \/ /\ pc[c] = "publish"
        /\ copies' = [copies EXCEPT ![Current(c)] = @ + 1]
        /\ UNCHANGED table
     \/ /\ pc[c] = "mark"
        /\ MarkRow(Current(c))
        /\ UNCHANGED copies
  /\ Answered(c)
  /\ UNCHANGED stalls

(* The process dies in the middle of whatever it was doing, and restarts.  *)
Crash(i) ==
  /\ activeExecutions[i] > 0
  /\ faults < MaxFaults
  /\ faults' = faults + 1
  /\ pc' = [c \in Cycles |-> IF Host(c) = i THEN "idle" ELSE pc[c]]
  /\ batch' = [c \in Cycles |-> IF Host(c) = i THEN {} ELSE batch[c]]
  /\ activeExecutions' = [activeExecutions EXCEPT ![i] = 0]
  /\ stalled' = {c \in stalled : Host(c) # i}
  /\ UNCHANGED <<table, copies, stalls>>

(* A call hangs for 30 s or more: there is no limit on it.  It may still    *)
(* be answered or fail later, or never.                                    *)
Stall(c) ==
  /\ Calling(c)
  /\ c \notin stalled
  /\ stalls < MaxStalls
  /\ stalls' = stalls + 1
  /\ stalled' = stalled \cup {c}
  /\ UNCHANGED <<table, cycle, copies, faults>>

(* The cycles between their claim of e and the end of their markAsSent.    *)
WorkingOn(e) == {c \in Cycles : pc[c] \in {"publish", "mark"} /\ Current(c) = e}

(* 30 s go by since the claim, and nobody works on the row any more, or    *)
(* hangs over it.                                                          *)
Expire(e) ==
  /\ status[e] = "PROCESSING"
  /\ e \notin overdue
  /\ WorkingOn(e) \subseteq stalled
  /\ overdue' = overdue \cup {e}
  /\ UNCHANGED <<status, recoveries, cycle, copies, faults, stalled, stalls>>

(* Mutant: SENT rows are swept up too (no status in the WHERE).            *)
RecoverAnyStatus ==
  LET stuck == overdue \cup {e \in Events : status[e] = "SENT"} IN
  /\ stuck # {}
  /\ status' = [e \in Events |-> IF e \in stuck THEN "PENDING" ELSE status[e]]
  /\ overdue' = {}
  /\ UNCHANGED <<recoveries, cycle, copies, faults, stalled, stalls>>

(* Mutant: the recovery does not clear processing_started_at.              *)
RecoverKeepingStart ==
  /\ overdue # {}
  /\ status' = [e \in Events |-> IF e \in overdue THEN "PENDING" ELSE status[e]]
  /\ UNCHANGED <<overdue, recoveries, cycle, copies, faults, stalled, stalls>>

(* One UPDATE for every row that has been PROCESSING for too long.         *)
RecoverStuckProcessing ==
  /\ overdue # {}
  /\ status' = [e \in Events |-> IF e \in overdue THEN "PENDING" ELSE status[e]]
  /\ recoveries' = [e \in Events |-> IF e \in overdue THEN recoveries[e] + 1
                                                      ELSE recoveries[e]]
  /\ overdue' = {}
  /\ UNCHANGED <<cycle, copies, faults, stalled, stalls>>

-----------------------------------------------------------------------------
Step(c) == \/ Start(c)
           \/ FindPending(c)
           \/ Claim(c)
           \/ Publish(c)
           \/ MarkAsSent(c)
           \/ EndCycle(c)

Next == \/ \E e \in Events : Insert(e) \/ Expire(e)
        \/ \E c \in Cycles : Step(c) \/ CallFails(c) \/ Stall(c)
        \/ \E i \in Instances : Crash(i)
        \/ RecoverStuckProcessing

Spec == Init /\ [][Next]_vars

(* The intervals keep firing, the event loop runs what can run, calls that *)
(* do not hang are answered, and time passes.  Faults, stalls, the end of  *)
(* a stall and new orders are under no obligation.                         *)
FairSpec ==
  /\ Spec
  /\ \A c \in Cycles : WF_vars(Step(c) /\ c \notin stalled)
  /\ \A e \in Events : WF_vars(Expire(e))
  /\ WF_vars(RecoverStuckProcessing)

-----------------------------------------------------------------------------
(* Type invariant.  Only rows that are PROCESSING carry a start time.      *)
TypeOK ==
  /\ status \in [Events -> {"absent", "PENDING", "PROCESSING", "SENT"}]
  /\ overdue \subseteq {e \in Events : status[e] = "PROCESSING"}
  /\ pc \in [Cycles -> {"idle", "find", "claim", "publish", "mark"}]
  /\ batch \in [Cycles -> SUBSET Events]
  /\ activeExecutions \in [Instances -> Nat]
  /\ copies \in [Events -> Nat]
  /\ recoveries \in [Events -> Nat]
  /\ faults \in 0..MaxFaults
  /\ stalled \subseteq {c \in Cycles : Calling(c)}
  /\ stalls \in 0..MaxStalls

(* No notification is lost in the relay: a row is SENT only when the       *)
(* broker has taken at least one message for it, whatever crashed, failed  *)
(* or was recovered before.                                                *)
SentWasPublished ==
  \A e \in Events :
    /\ status[e] = "SENT" => copies[e] >= 1
    /\ \A c \in Cycles : pc[c] = "mark" /\ Current(c) = e => copies[e] >= 1

(* A row that is SENT stays SENT: a cycle with an old batch cannot claim   *)
(* it and the recovery cannot reopen it.                                   *)
SentIsFinal ==
  [][\A e \in Events : status[e] = "SENT" => status'[e] = "SENT"]_vars

(* Two instances, overlapping cycles, failed calls and crashes publish an  *)
(* event at most once per claim period: a duplicate needs a recovery.      *)
DuplicatesNeedRecovery == \A e \in Events : copies[e] <= 1 + recoveries[e]

(* The counter of an instance is the number of its running cycles, and its *)
(* guard keeps that at one; no failure leaves it stuck above.              *)
ExecutionsCounted ==
  \A i \in Instances :
    /\ activeExecutions[i] = Cardinality({c \in Cycles : Host(c) = i /\ pc[c] # "idle"})
    /\ activeExecutions[i] <= 1

(* Every committed event is eventually published and marked, even if one   *)
(* of the two instances hangs over it for ever.                            *)
EveryEventSent == \A e \in Events : status[e] = "PENDING" ~> status[e] = "SENT"

=============================================================================
