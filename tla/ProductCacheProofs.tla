-------------------------- MODULE ProductCacheProofs --------------------------
(***************************************************************************)
(* Proofs about ProductCache for any number of readers, writers, versions  *)
(* and faults, any life of an entry and any delay of a reader.             *)
(*                                                                         *)
(* An entry is as old as what the reader that stored it knew, and a reader *)
(* that is about to store something knows nothing older than the time it   *)
(* waited (ReadersInTime): with the time an entry still has, this bounds   *)
(* the age of what is served.                                              *)
(***************************************************************************)
EXTENDS ProductCache, TLAPS

(* Only what no longer is the row's content has an age.                    *)
CurrentIsNew == \A v \in 0..MaxVersions : v > version \/ ~Stale(v) => since[v] = 0

(* What a request is about to store or invalidate is a version of the row; *)
(* a reader's was current when it read it.                                 *)
ReadersInTime ==
  /\ \A p \in Requests : pc[p] \in {"store", "invalidate"} => known[p] > 0
  /\ \A r \in Readers : pc[r] = "store" => since[known[r]] <= waited[r]

(* Redis keeps no entry whose time is up.                                  *)
EntryLives == cached # None <=> ttl > 0

Inv == /\ TypeOK
       /\ CurrentIsNew
       /\ ReadersInTime
       /\ EntryLives
       /\ StaleNeedsCause
       /\ StalenessBounded

-----------------------------------------------------------------------------
(* Initially there is no product and no entry.                             *)
LEMMA InvInit == Init => Inv
<1> SUFFICES ASSUME Init PROVE Inv
  OBVIOUS
<1>1. TypeOK
  <2>1. /\ version \in 0..MaxVersions /\ faults \in 0..MaxFaults /\ ttl \in 0..TTL
        /\ MaxAge \in Nat
    BY CacheAssumption DEF Init, MaxAge
  <2>2. /\ since \in [0..MaxVersions -> 0..MaxAge + 1]
        /\ pc \in [Requests -> {"idle", "read", "store", "invalidate"}]
        /\ known \in [Requests -> 0..version]
        /\ waited \in [Readers -> 0..MaxDelay]
    BY <2>1, CacheAssumption DEF Init
  <2> QED
    BY <2>1, <2>2 DEF Init, TypeOK
<1>2. CurrentIsNew /\ ReadersInTime /\ EntryLives
  BY DEF Init, CurrentIsNew, ReadersInTime, EntryLives, Requests
<1>3. StaleNeedsCause /\ StalenessBounded
  BY DEF Init, StaleNeedsCause, StalenessBounded
<1> QED
  BY <1>1, <1>2, <1>3 DEF Inv

(* The types of what requests remember, once one is answered.              *)
LEMMA AnswerTypes ==
  ASSUME Inv, NEW p \in Requests, Answer(p)
  PROVE  /\ pc' = [pc EXCEPT ![p] = "idle"]
         /\ pc' \in [Requests -> {"idle", "read", "store", "invalidate"}]
         /\ known' \in [Requests -> 0..version]
         /\ waited' \in [Readers -> 0..MaxDelay]
         /\ \A q \in Requests \ {p} : known'[q] = known[q]
         /\ \A r \in Readers \ {p} : waited'[r] = waited[r]
<1>1. /\ pc' = [pc EXCEPT ![p] = "idle"]
      /\ known' = [known EXCEPT ![p] = 0]
      /\ waited' = [r \in Readers |-> IF r = p THEN 0 ELSE waited[r]]
  BY DEF Answer, Goto
<1>2. 0 \in 0..version /\ 0 \in 0..MaxDelay
  BY CacheAssumption DEF Inv, TypeOK
<1> QED
  BY <1>1, <1>2 DEF Inv, TypeOK

(* A request is answered, and the row and the entry stay as they are.      *)
LEMMA AnswerInv ==
  ASSUME Inv, NEW p \in Requests, Answer(p), UNCHANGED <<row, entry>>,
         faults' \in 0..MaxFaults,
         dropped' = IF pc[p] = "invalidate" THEN dropped \cup {known[p]} ELSE dropped
  PROVE  Inv'
<1>0. UNCHANGED <<version, removed, since, cached, ttl, late>>
  BY DEF row, entry
<1>1. TypeOK'
  <2>1. dropped' \subseteq 1..version
    <3>1. version \in Nat /\ known[p] \in 0..version
      BY CacheAssumption DEF Inv, TypeOK
    <3>2. pc[p] = "invalidate" => known[p] \in 1..version
      BY <3>1 DEF Inv, ReadersInTime
    <3> QED
      BY <3>2 DEF Inv, TypeOK
  <2> QED
    BY <1>0, <2>1, AnswerTypes DEF Inv, TypeOK
<1>2. CurrentIsNew' /\ EntryLives' /\ StalenessBounded'
  BY <1>0 DEF Inv, CurrentIsNew, Stale, EntryLives, StalenessBounded
<1>3. ReadersInTime'
  BY <1>0, AnswerTypes DEF Inv, TypeOK, ReadersInTime, Requests
<1>4. StaleNeedsCause'
  <2> SUFFICES ASSUME cached # None, Stale(cached), ~late, ~removed,
                      NEW w \in Writers, pc[w] = "invalidate", known[w] > cached
               PROVE  \/ pc'[w] = "invalidate" /\ known'[w] > cached
                      \/ known[w] \in dropped'
    BY <1>0 DEF Inv, StaleNeedsCause, Stale
  <2>1. CASE w = p
    BY <2>1
  <2>2. CASE w # p
    BY <2>2, AnswerTypes DEF Inv, TypeOK, Requests
  <2> QED
    BY <2>1, <2>2
<1> QED
  BY <1>1, <1>2, <1>3, <1>4 DEF Inv

(* A reader goes to the database, or is answered from the cache.           *)
LEMMA GetInv ==
  ASSUME Inv, NEW r \in Readers, Get(r) \/ GetFails(r)
  PROVE  Inv'
<1>0. /\ pc[r] = "idle"
      /\ pc' = pc \/ pc' = [pc EXCEPT ![r] = "read"]
      /\ UNCHANGED <<version, removed, since, cached, ttl, late, known, waited, dropped>>
      /\ faults' \in 0..MaxFaults
  BY CacheAssumption DEF Get, GetFails, Goto, Fault, row, entry, Inv, TypeOK
<1>1. TypeOK' /\ CurrentIsNew' /\ EntryLives' /\ StalenessBounded'
  BY <1>0 DEF Inv, TypeOK, CurrentIsNew, Stale, EntryLives, StalenessBounded, Requests
<1>2. \A p \in Requests : pc'[p] = pc[p] \/ (pc[p] = "idle" /\ pc'[p] = "read")
  BY <1>0 DEF Inv, TypeOK, Requests
<1>3. ReadersInTime'
  BY <1>0, <1>2 DEF Inv, ReadersInTime, Requests
<1>4. StaleNeedsCause'
  BY <1>0, <1>2 DEF Inv, StaleNeedsCause, Stale, Requests
<1> QED
  BY <1>1, <1>3, <1>4 DEF Inv

(* What a reader reads is the current version, which has no age.           *)
LEMMA ReadInv ==
  ASSUME Inv, NEW r \in Readers, Read(r)
  PROVE  Inv'
<1>0. /\ pc[r] = "read" /\ r \in Requests
      /\ UNCHANGED <<row, entry, dropped>> /\ faults' \in 0..MaxFaults
  BY DEF Read, Requests, Inv, TypeOK
<1>1. CASE Exists /\ Goto(r, "store") /\ known' = [known EXCEPT ![r] = version] /\ UNCHANGED waited
  <2>0. /\ pc' = [pc EXCEPT ![r] = "store"]
        /\ known' = [known EXCEPT ![r] = version]
        /\ UNCHANGED <<version, removed, since, cached, ttl, late, waited, dropped>>
        /\ version > 0 /\ ~removed /\ since[version] = 0
    BY <1>0, <1>1 DEF Goto, Exists, row, entry, Inv, TypeOK, CurrentIsNew, Stale
  <2>1. TypeOK' /\ CurrentIsNew' /\ EntryLives' /\ StalenessBounded'
    BY <1>0, <2>0 DEF Inv, TypeOK, CurrentIsNew, Stale, EntryLives, StalenessBounded
  <2>2. ReadersInTime'
    BY <1>0, <2>0 DEF Inv, TypeOK, ReadersInTime, Requests
  <2>3. StaleNeedsCause'
    BY <1>0, <2>0 DEF Inv, TypeOK, StaleNeedsCause, Stale, Requests
  <2> QED
    BY <2>1, <2>2, <2>3 DEF Inv
<1>2. CASE Answer(r)
  BY <1>0, <1>2, AnswerInv
<1> QED
  BY <1>1, <1>2 DEF Read

(* An entry starts its life as old as the reader that stores it was slow.  *)
LEMMA StoreInv ==
  ASSUME Inv, NEW r \in Readers, Store(r)
  PROVE  Inv'
<1> DEFINE v == known[r]
<1>0. /\ pc[r] = "store" /\ r \in Requests
      /\ cached' = v /\ ttl' = TTL /\ late' = Stale(v) /\ Answer(r)
      /\ UNCHANGED <<version, removed, since, dropped, faults>>
  BY DEF Store, Requests, row
<1>1. /\ v \in 1..version /\ v \in 0..MaxVersions /\ v # None
      /\ since[v] <= waited[r] /\ waited[r] \in 0..MaxDelay /\ since[v] \in Nat
  BY <1>0, CacheAssumption DEF Inv, TypeOK, ReadersInTime, None, MaxAge
<1>2. TypeOK'
  BY <1>0, <1>1, AnswerTypes, CacheAssumption DEF Inv, TypeOK, Stale
<1>3. CurrentIsNew' /\ EntryLives' /\ StaleNeedsCause'
  <2>1. CurrentIsNew'
    BY <1>0 DEF Inv, CurrentIsNew, Stale
  <2>2. EntryLives'
    BY <1>0, <1>1, CacheAssumption DEF EntryLives
  <2>3. StaleNeedsCause'
    BY <1>0 DEF StaleNeedsCause, Stale
  <2> QED
    BY <2>1, <2>2, <2>3
<1>4. ReadersInTime'
  BY <1>0, AnswerTypes DEF Inv, TypeOK, ReadersInTime, Requests
<1>5. StalenessBounded'
  BY <1>0, <1>1, CacheAssumption DEF StalenessBounded, MaxAge
<1> QED
  BY <1>2, <1>3, <1>4, <1>5 DEF Inv

(* The writer of a new version has yet to invalidate the entry.            *)
LEMMA UpdateInv ==
  ASSUME Inv, NEW w \in Writers, Update(w)
  PROVE  Inv'
<1>0. /\ pc[w] = "idle" /\ w \in Requests
      /\ version' = version + 1 /\ version < MaxVersions
      /\ known' = [known EXCEPT ![w] = version + 1]
      /\ pc' = [pc EXCEPT ![w] = "invalidate"]
      /\ UNCHANGED <<removed, since, cached, ttl, late, waited, dropped, faults>>
  BY DEF Update, Goto, entry, Requests
<1>1. version \in Nat /\ version' \in 1..MaxVersions /\ 0..version \subseteq 0..version'
  BY <1>0, CacheAssumption DEF Inv, TypeOK
<1>2. TypeOK'
  <2>1. known' \in [Requests -> 0..version']
    BY <1>0, <1>1 DEF Inv, TypeOK
  <2>2. cached \in {None} \cup 1..version' /\ dropped \subseteq 1..version'
    BY <1>0, <1>1 DEF Inv, TypeOK
  <2> QED
    BY <1>0, <1>1, <2>1, <2>2 DEF Inv, TypeOK
<1>3. CurrentIsNew'
  BY <1>0, <1>1, CacheAssumption DEF Inv, CurrentIsNew, Stale
<1>4. ReadersInTime'
  BY <1>0, <1>1 DEF Inv, TypeOK, ReadersInTime, Requests
<1>5. EntryLives' /\ StalenessBounded'
  BY <1>0 DEF Inv, EntryLives, StalenessBounded
<1>6. StaleNeedsCause'
  <2>1. cached # None => known'[w] > cached /\ pc'[w] = "invalidate"
    BY <1>0, <1>1 DEF Inv, TypeOK
  <2> QED
    BY <1>0, <2>1 DEF StaleNeedsCause
<1> QED
  BY <1>2, <1>3, <1>4, <1>5, <1>6 DEF Inv

(* Without an entry nothing is stale.                                      *)
LEMMA InvalidateInv ==
  ASSUME Inv, NEW w \in Writers, Invalidate(w)
  PROVE  Inv'
<1>0. /\ w \in Requests /\ Answer(w)
      /\ cached' = None /\ ttl' = 0 /\ late' = FALSE
      /\ UNCHANGED <<version, removed, since, dropped, faults>>
  BY DEF Invalidate, Forget, row, Requests
<1>1. TypeOK'
  <2>1. ttl' \in 0..TTL
    BY <1>0, CacheAssumption
  <2>2. cached' \in {None} \cup 1..version' /\ late' \in BOOLEAN
    BY <1>0
  <2> QED
    BY <1>0, <2>1, <2>2, AnswerTypes DEF Inv, TypeOK
<1>2. CurrentIsNew' /\ EntryLives' /\ StalenessBounded' /\ StaleNeedsCause'
  BY <1>0 DEF Inv, CurrentIsNew, Stale, EntryLives, StalenessBounded, StaleNeedsCause
<1>3. ReadersInTime'
  BY <1>0, AnswerTypes DEF Inv, TypeOK, ReadersInTime, Requests
<1> QED
  BY <1>1, <1>2, <1>3 DEF Inv

(* The version a lost DEL was to invalidate is among the dropped ones.     *)
LEMMA LostInv ==
  ASSUME Inv, NEW p \in Requests, Lost(p)
  PROVE  Inv'
<1>1. faults' \in 0..MaxFaults
  BY CacheAssumption DEF Lost, Fault, Inv, TypeOK
<1> QED
  BY <1>1, AnswerInv DEF Lost

(* The first version, or the end of the product.                           *)
LEMMA CatalogueInv ==
  ASSUME Inv, Create \/ Remove
  PROVE  Inv'
<1>0. /\ UNCHANGED <<since, cached, ttl, late, pc, known, waited, dropped, faults>>
      /\ \/ version = 0 /\ version' = 1 /\ removed' = removed
         \/ version' = version /\ ~removed /\ removed' = TRUE
  BY DEF Create, Remove, Exists, entry, request
<1>1. version \in Nat /\ version' \in 0..MaxVersions /\ version' >= version
  BY <1>0, CacheAssumption DEF Inv, TypeOK
<1>2. TypeOK'
  <2>1. known \in [Requests -> 0..version']
    <3>1. 0..version \subseteq 0..version'
      BY <1>1, CacheAssumption
    <3> QED
      BY <3>1 DEF Inv, TypeOK
  <2>2. cached \in {None} \cup 1..version' /\ dropped \subseteq 1..version' /\ removed' \in BOOLEAN
    <3>1. 1..version \subseteq 1..version'
      BY <1>1, CacheAssumption
    <3> QED
      BY <1>0, <3>1 DEF Inv, TypeOK
  <2> QED
    BY <1>0, <1>1, <2>1, <2>2 DEF Inv, TypeOK
<1>3. CurrentIsNew'
  BY <1>0, <1>1, CacheAssumption DEF Inv, CurrentIsNew, Stale
<1>4. ReadersInTime' /\ EntryLives' /\ StalenessBounded'
  BY <1>0 DEF Inv, ReadersInTime, EntryLives, StalenessBounded
<1>5. StaleNeedsCause'
  <2>1. version = 0 => cached = None
    BY DEF Inv, TypeOK
  <2> QED
    BY <1>0, <2>1 DEF Inv, StaleNeedsCause, Stale
<1> QED
  BY <1>2, <1>3, <1>4, <1>5 DEF Inv

(* An entry loses a tick of its life for each by which it ages.            *)
LEMMA TickInv ==
  ASSUME Inv, Tick
  PROVE  Inv'
<1>0. /\ \A r \in Readers : pc[r] = "store" => waited[r] < MaxDelay
      /\ waited' = [r \in Readers |-> IF pc[r] = "store" THEN waited[r] + 1 ELSE waited[r]]
      /\ since' = [v \in 0..MaxVersions |->
                     IF v <= version /\ Stale(v) /\ since[v] <= MaxAge THEN since[v] + 1
                                                                       ELSE since[v]]
      /\ UNCHANGED <<version, removed, pc, known, dropped, faults>>
  BY DEF Tick
<1>1. \/ ttl = 1 /\ cached' = None /\ ttl' = 0 /\ late' = FALSE
      \/ ttl # 1 /\ ttl' = (IF ttl = 0 THEN 0 ELSE ttl - 1) /\ UNCHANGED <<cached, late>>
  BY DEF Tick, Forget
<1>2. MaxAge \in Nat /\ TTL \in Nat /\ MaxDelay \in Nat /\ ttl \in 0..TTL
  BY CacheAssumption DEF MaxAge, Inv, TypeOK
<1>3. \A v \in 0..MaxVersions : /\ since[v] \in 0..MaxAge + 1 /\ since'[v] \in 0..MaxAge + 1
                                /\ since'[v] <= since[v] + 1
                                /\ v > version \/ ~Stale(v) => since'[v] = since[v]
  <2> SUFFICES ASSUME NEW v \in 0..MaxVersions
               PROVE  /\ since[v] \in 0..MaxAge + 1 /\ since'[v] \in 0..MaxAge + 1
                      /\ since'[v] <= since[v] + 1
                      /\ v > version \/ ~Stale(v) => since'[v] = since[v]
    OBVIOUS
  <2>1. /\ since[v] \in 0..MaxAge + 1
        /\ version \in Int /\ v \in Int
    <3>1. version \in 0..MaxVersions /\ since \in [0..MaxVersions -> 0..MaxAge + 1]
      BY DEF Inv, TypeOK
    <3> QED
      BY <3>1
  <2>2. since'[v] = IF v <= version /\ Stale(v) /\ since[v] <= MaxAge THEN since[v] + 1
                                                                      ELSE since[v]
    BY <1>0
  <2> QED
    BY <1>2, <2>1, <2>2
<1>4. TypeOK'
  <2>1. since' \in [0..MaxVersions -> 0..MaxAge + 1]
    BY <1>0, <1>3
  <2>2. waited' \in [Readers -> 0..MaxDelay]
    BY <1>0, <1>2 DEF Inv, TypeOK
  <2>3. ttl' \in 0..TTL /\ cached' \in {None} \cup 1..version /\ late' \in BOOLEAN
    <3>1. ttl' \in 0..TTL
      BY <1>1, <1>2
    <3>2. cached' \in {None} \cup 1..version /\ late' \in BOOLEAN
      BY <1>1 DEF Inv, TypeOK
    <3> QED
      BY <3>1, <3>2
  <2> QED
    BY <1>0, <2>1, <2>2, <2>3 DEF Inv, TypeOK
<1>5. CurrentIsNew'
  BY <1>0, <1>3 DEF Inv, CurrentIsNew, Stale
<1>6. ReadersInTime'
  <2>1. ASSUME NEW r \in Readers, pc[r] = "store" PROVE since'[known[r]] <= waited'[r]
    <3>1. known[r] \in 0..MaxVersions /\ since[known[r]] <= waited[r] /\ waited[r] \in Int
      BY <2>1, <1>2, CacheAssumption DEF Inv, TypeOK, ReadersInTime, Requests
    <3>2. waited'[r] = waited[r] + 1
      BY <1>0, <2>1
    <3> QED
      BY <1>2, <1>3, <3>1, <3>2
  <2> QED
    BY <1>0, <2>1 DEF Inv, ReadersInTime
<1>7. EntryLives' /\ StaleNeedsCause'
  BY <1>0, <1>1, <1>2 DEF Inv, EntryLives, StaleNeedsCause, Stale
<1>8. StalenessBounded'
  <2> SUFFICES ASSUME cached' # None PROVE since'[cached'] + ttl' <= MaxAge
    BY DEF StalenessBounded, MaxAge
  <2>1. cached' = cached /\ ttl > 1 /\ ttl' = ttl - 1
    BY <1>1, <1>2 DEF Inv, EntryLives
  <2>2. cached \in 0..MaxVersions
    BY <2>1, CacheAssumption DEF Inv, TypeOK
  <2>3. since[cached] + ttl <= MaxAge
    BY <2>1 DEF Inv, StalenessBounded
  <2> QED
    BY <1>2, <1>3, <2>1, <2>2, <2>3
<1> QED
  BY <1>4, <1>5, <1>6, <1>7, <1>8 DEF Inv

(* Every step of the specification keeps the invariant.                    *)
LEMMA InvNext == Inv /\ [Next]_vars => Inv'
<1> SUFFICES ASSUME Inv, [Next]_vars PROVE Inv'
  OBVIOUS
<1>1. CASE \E r \in Readers : Get(r) \/ GetFails(r) \/ Read(r) \/ Store(r)
  BY <1>1, GetInv, ReadInv, StoreInv
<1>2. CASE \E w \in Writers : Update(w) \/ Invalidate(w)
  BY <1>2, UpdateInv, InvalidateInv
<1>3. CASE \E p \in Requests : Lost(p)
  BY <1>3, LostInv
<1>4. CASE Create \/ Remove \/ Tick
  BY <1>4, CatalogueInv, TickInv
<1>5. CASE UNCHANGED vars
  <2>0. UNCHANGED <<version, removed, since, cached, ttl, late, pc, known, waited, dropped, faults>>
    BY <1>5 DEF vars, row, entry, request
  <2>1. TypeOK' /\ CurrentIsNew' /\ ReadersInTime' /\ EntryLives'
    BY <2>0 DEF Inv, TypeOK, CurrentIsNew, Stale, ReadersInTime, EntryLives
  <2>2. StaleNeedsCause' /\ StalenessBounded'
    BY <2>0 DEF Inv, StaleNeedsCause, Stale, StalenessBounded
  <2> QED
    BY <2>1, <2>2 DEF Inv
<1> QED
  BY <1>1, <1>2, <1>3, <1>4, <1>5 DEF Next

(* The inductive invariant holds in every reachable state.                 *)
THEOREM Invariance == Spec => []Inv
BY InvInit, InvNext, PTL DEF Spec

(* Every variable keeps its type; what is cached was a version of the row. *)
THEOREM TypeCorrect == Spec => []TypeOK
<1>1. Inv => TypeOK
  BY DEF Inv
<1> QED
  BY <1>1, Invariance, PTL

(* The cache serves no wrong price without one of the named causes.        *)
THEOREM StalePricesHaveCauses == Spec => []StaleNeedsCause
<1>1. Inv => StaleNeedsCause
  BY DEF Inv
<1> QED
  BY <1>1, Invariance, PTL

(* However often calls fail and processes die, a wrong price is served no  *)
(* longer than the life of an entry and the delay of a reader together.    *)
THEOREM StalePricesExpire == Spec => []StalenessBounded
<1>1. Inv => StalenessBounded
  BY DEF Inv
<1> QED
  BY <1>1, Invariance, PTL

=============================================================================
