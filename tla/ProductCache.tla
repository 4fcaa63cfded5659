---------------------------- MODULE ProductCache ----------------------------
(***************************************************************************)
(* One product behind its cache: ProductService.findById and updatePrice   *)
(* on any number of API instances, over one row of products and the Redis  *)
(* key product:<id>.  Keys share nothing, so one is enough.                *)
(*                                                                         *)
(* The content of the row is represented by the number of its version.     *)
(* Each await is one step.  RedisService swallows the failure of a call.   *)
(***************************************************************************)
EXTENDS Integers

CONSTANTS
  Readers,       \* requests GET /products/:id
  Writers,       \* requests PATCH /products/:id/price
  TTL,           \* the 60 s of an entry, in ticks
  MaxDelay,      \* assumption: ticks from a reader's query to its SET
  MaxVersions,   \* bound: versions of the row
  MaxFaults      \* bound: failing calls and dying processes

ASSUME CacheAssumption ==
  /\ {TTL, MaxVersions} \subseteq Nat \ {0}
  /\ {MaxDelay, MaxFaults} \subseteq Nat

None == -1

VARIABLES
  version,   \* the version of the row; 0 before there is one
  removed,   \* the row was deleted
  since,     \* history: since[v]: ticks since v ceased to be current
  cached,    \* the version in Redis, or None
  ttl,       \* the ticks it has left
  pc,        \* the await of a request
  known,     \* known[p]: the version reader p read or writer p wrote
  waited,    \* waited[r]: ticks since reader r queried the database
  late,      \* history: the entry was stale when it was stored
  dropped,   \* history: the versions never followed by a DEL
  faults

row == <<version, removed, since>>
entry == <<cached, ttl, late>>
request == <<pc, known, waited>>
vars == <<row, entry, request, dropped, faults>>

Requests == Readers \cup Writers
Exists == version > 0 /\ ~removed
Stale(v) == v < version \/ removed
MaxAge == TTL + MaxDelay

Init ==
  /\ version = 0 /\ removed = FALSE
  /\ since = [v \in 0..MaxVersions |-> 0]
  /\ cached = None /\ ttl = 0 /\ late = FALSE
  /\ pc = [p \in Requests |-> "idle"]
  /\ known = [p \in Requests |-> 0]
  /\ waited = [r \in Readers |-> 0]
  /\ dropped = {}
  /\ faults = 0

Goto(p, step) == pc' = [pc EXCEPT ![p] = step]

(* The request is answered.  (What it knew is reset to keep states few.)   *)
Answer(p) ==
  /\ Goto(p, "idle")
  /\ known' = [known EXCEPT ![p] = 0]
  /\ waited' = [r \in Readers |-> IF r = p THEN 0 ELSE waited[r]]

Fault == faults < MaxFaults /\ faults' = faults + 1

-----------------------------------------------------------------------------
(* findById.                                                               *)

(* Mutant: a hit extends the life of the entry.                            *)
GetAndTouch(r) ==
  /\ pc[r] = "idle"
  /\ IF cached # None THEN ttl' = TTL /\ UNCHANGED pc
                      ELSE Goto(r, "read") /\ UNCHANGED ttl
  /\ UNCHANGED <<row, cached, late, known, waited, dropped, faults>>

(* GET: a hit is the answer, a miss goes to the database.                  *)
Get(r) ==
  /\ pc[r] = "idle"
  /\ IF cached # None THEN UNCHANGED pc ELSE Goto(r, "read")
  /\ UNCHANGED <<row, entry, known, waited, dropped, faults>>

(* A failing GET is a miss.                                                *)
GetFails(r) ==
  /\ pc[r] = "idle"
  /\ cached # None
  /\ Fault
  /\ Goto(r, "read")
  /\ UNCHANGED <<row, entry, known, waited, dropped>>

(* Mutant: that there is no such product is cached as well.                *)
ReadAlsoMissing(r) ==
  /\ pc[r] = "read"
  /\ Goto(r, "store")
  /\ known' = [known EXCEPT ![r] = IF Exists THEN version ELSE 0]
  /\ UNCHANGED <<row, entry, waited, dropped, faults>>

(* The query, or 404 if there is no such product.                          *)
Read(r) ==
  /\ pc[r] = "read"
  /\ \/ Exists /\ Goto(r, "store") /\ known' = [known EXCEPT ![r] = version] /\ UNCHANGED waited
     \/ ~Exists /\ Answer(r)
  /\ UNCHANGED <<row, entry, dropped, faults>>

(* SET EX 60, and the answer.                                              *)
Store(r) ==
  /\ pc[r] = "store"
  /\ cached' = known[r]
  /\ ttl' = TTL
  /\ late' = Stale(known[r])
  /\ Answer(r)
  /\ UNCHANGED <<row, dropped, faults>>

-----------------------------------------------------------------------------
(* updatePrice.                                                            *)

(* Mutant: the update leaves the cache alone.                              *)
UpdateOnly(w) ==
  /\ pc[w] = "idle"
  /\ Exists
  /\ version < MaxVersions
  /\ version' = version + 1
  /\ UNCHANGED <<removed, since, entry, request, dropped, faults>>

(* The UPDATE commits; without the row it would reject.                    *)
Update(w) ==
  /\ pc[w] = "idle"
  /\ Exists
  /\ version < MaxVersions
  /\ version' = version + 1
  /\ known' = [known EXCEPT ![w] = version']
  /\ Goto(w, "invalidate")
  /\ UNCHANGED <<removed, since, entry, waited, dropped, faults>>

Forget == cached' = None /\ ttl' = 0 /\ late' = FALSE

(* DEL.                                                                    *)
Invalidate(w) ==
  /\ pc[w] = "invalidate"
  /\ Forget
  /\ Answer(w)
  /\ UNCHANGED <<row, dropped, faults>>

(* The call has no effect, or the process dies before it.                  *)
Lost(p) ==
  /\ pc[p] # "idle"
  /\ Fault
  /\ Answer(p)
  /\ dropped' = IF pc[p] = "invalidate" THEN dropped \cup {known[p]} ELSE dropped
  /\ UNCHANGED <<row, entry>>

-----------------------------------------------------------------------------
(* The seed script creates and deletes products, beside the cache.         *)
Create ==
  /\ version = 0
  /\ version' = 1
  /\ UNCHANGED <<removed, since, entry, request, dropped, faults>>

Remove ==
  /\ Exists
  /\ removed' = TRUE
  /\ UNCHANGED <<version, since, entry, request, dropped, faults>>

(* Time passes; Redis drops an entry whose time is up.                     *)
Tick ==
  /\ \A r \in Readers : pc[r] = "store" => waited[r] < MaxDelay
  /\ waited' = [r \in Readers |-> IF pc[r] = "store" THEN waited[r] + 1 ELSE waited[r]]
  /\ since' = [v \in 0..MaxVersions |->
                 IF v <= version /\ Stale(v) /\ since[v] <= MaxAge THEN since[v] + 1 ELSE since[v]]
  /\ IF ttl = 1 THEN Forget
                ELSE ttl' = (IF ttl = 0 THEN 0 ELSE ttl - 1) /\ UNCHANGED <<cached, late>>
  /\ UNCHANGED <<version, removed, pc, known, dropped, faults>>

-----------------------------------------------------------------------------
Next == \/ \E r \in Readers : Get(r) \/ GetFails(r) \/ Read(r) \/ Store(r)
        \/ \E w \in Writers : Update(w) \/ Invalidate(w)
        \/ \E p \in Requests : Lost(p)
        \/ Create
        \/ Remove
        \/ Tick

Spec == Init /\ [][Next]_vars

-----------------------------------------------------------------------------
(* Type invariant; only a version the row has had is ever stored.          *)
TypeOK ==
  /\ version \in 0..MaxVersions
  /\ removed \in BOOLEAN
  /\ since \in [0..MaxVersions -> 0..MaxAge + 1]
  /\ cached \in {None} \cup 1..version
  /\ ttl \in 0..TTL
  /\ pc \in [Requests -> {"idle", "read", "store", "invalidate"}]
  /\ known \in [Requests -> 0..version]
  /\ waited \in [Readers -> 0..MaxDelay]
  /\ late \in BOOLEAN
  /\ dropped \subseteq 1..version
  /\ faults \in 0..MaxFaults

(* The cache holds a price that is no longer right only for a reason: it   *)
(* was stale when a slow reader stored it, its product was deleted, or a   *)
(* later update has yet to invalidate it, or failed to.                    *)
StaleNeedsCause ==
  cached # None /\ Stale(cached) =>
    \/ late
    \/ removed
    \/ \E w \in Writers : pc[w] = "invalidate" /\ known[w] > cached
    \/ \E v \in dropped : v > cached

(* Whatever raced, failed or died, nobody is served a price that ceased to *)
(* be right longer ago than the life of an entry and the delay of a reader. *)
StalenessBounded == cached # None => since[cached] + ttl <= MaxAge

=============================================================================
