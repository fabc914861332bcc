------------------------ MODULE FilterManager_proofs ------------------------
(***************************************************************************)
(* The remove locks, the references and the lists of children are kept     *)
(* right for any number of devices, hubs below hubs, filters and requests. *)
(***************************************************************************)
EXTENDS FilterManager, FiniteSetTheorems, FunctionTheorems, TLAPS

(* Where a device hangs while it is known to the PnP manager.              *)
Known == {"listed", "unplugged", "missing"}

(* What is not there keeps nothing: neither a filter device nor a device   *)
(* object nor a free request.  Only a started hub remembers children, only *)
(* a target sees URBs.                                                     *)
Idle ==
  /\ \A f \in Filters : filter[f].state = "none" => filter[f] = NoFilter
  /\ filter[Root].pdo = NoPdo /\ filter[Root].parent = NoPdo
  /\ \A f \in Tgts : filter[f].hub => filter[f].state = "started"
  /\ \A f \in Tgts : ~filter[f].hub => filter[f].children = {}
  /\ \A p \in Pdos : pdo[p].state = "gone" => pdo[p] = NoDevice
  /\ \A r \in Reqs : req[r].on = NoPdo <=> req[r].at = "none"
  /\ \A r \in Reqs : req[r].at \notin {"none", "in", "kept"} => req[r].on \in Tgts

(* Every device hangs on a hub that is there, every filter on a device     *)
(* that is, below a filter of the hub the device hangs on.                 *)
Tree ==
  /\ \A p \in Pdos : pdo[p].state # "gone" =>
       \/ pdo[p].hub = Root /\ Live(Root) /\ pnp.op # "removeHub"
       \/ pdo[p].hub \in Hubs /\ pdo[pdo[p].hub].state \in Known
  /\ \A f \in Tgts : Live(f) =>
       /\ filter[f].pdo \in Pdos
       /\ pdo[filter[f].pdo].state \in Known
       /\ filter[f].parent \in HubFilters(pdo[filter[f].pdo].hub)

(* The control device comes and goes with the hub filter, after all of the *)
(* devices.                                                                *)
RootThere ==
  /\ control => Live(Root)
  /\ Live(Root) /\ pnp.op # "removeHub" => control
  /\ ~Live(Root) => \A p \in Pdos : pdo[p].state = "gone"

(* No device hangs on p, and none can be plugged in.                       *)
Leaf(p) == pdo[p].state = "missing" /\ \A q \in Pdos : pdo[q].hub # p

(* What a PnP operation found when it began is still so.                   *)
PnpSound ==
  /\ pnp.op = "none" => pnp = Quiet
  /\ pnp.op = "query" => pnp.on \in Hubs \/ (pnp.on = Root /\ Live(Root))
  /\ pnp.op \in {"remove", "delete"} =>
       /\ pnp.on \in Tgts /\ Live(pnp.on) /\ Leaf(filter[pnp.on].pdo)
       /\ lock[pnp.on].removed
  /\ pnp.op = "delete" => RequestsOn(pnp.on) = {}
  /\ pnp.op = "next" => pnp.on \in Pdos /\ FiltersOn(pnp.on) # {} /\ Leaf(pnp.on)
  /\ pnp.op = "removeHub" => /\ pnp.on = Root /\ Live(Root)
                             /\ \A p \in Pdos : pdo[p].state = "gone"

(* The lock of a device is closed only while the device is being removed.  *)
Closing ==
  /\ \A f \in Tgts : lock[f].removed => pnp.on = f /\ pnp.op \in {"remove", "delete"}
  /\ lock[Control].removed <=> pnp.op = "removeHub" /\ control
  /\ lock[Root].removed <=> pnp.op = "removeHub" /\ ~control

RequestsLive == \A r \in Reqs : req[r].at # "none" => Live(req[r].on)

(* The inductive invariant.                                                *)
LockInv == /\ TypeOK /\ Idle /\ Tree /\ RootThere /\ PnpSound /\ Closing
           /\ RequestsLive /\ LocksOwed /\ RootHoldsLast
-----------------------------------------------------------------------------
(* Finite sets. *)

(* Sets that differ in one element at most.                                *)
LEMMA Recount ==
  ASSUME NEW S, IsFiniteSet(S), NEW T, NEW x, T \ {x} = S \ {x}
  PROVE  /\ IsFiniteSet(T)
         /\ Cardinality(S) \in Nat /\ Cardinality(T) \in Nat
         /\ Cardinality(T) = Cardinality(S) + (IF x \in T THEN 1 ELSE 0)
                                            - (IF x \in S THEN 1 ELSE 0)
<1>1. CASE x \in T
  <2>1. T = S \cup {x}
    BY <1>1
  <2> QED
    BY <1>1, <2>1, FS_AddElement, FS_CardinalityType
<1>2. CASE x \notin T
  <2>1. T = S \ {x}
    BY <1>2
  <2>2. /\ IsFiniteSet(T)
        /\ Cardinality(T) = IF x \in S THEN Cardinality(S) - 1 ELSE Cardinality(S)
    BY <2>1, FS_RemoveElement
  <2>3. Cardinality(S) \in Nat /\ Cardinality(T) \in Nat
    BY <2>2, FS_CardinalityType
  <2> QED
    BY <1>2, <2>2, <2>3
<1> QED
  BY <1>1, <1>2

(* What fits can be placed: the filters for the new children.              *)
LEMMA Fits ==
  ASSUME NEW S, IsFiniteSet(S), NEW T, IsFiniteSet(T),
         Cardinality(S) <= Cardinality(T)
  PROVE  \E i : i \in Injection(S, T)
<1> DEFINE n == Cardinality(S)
           m == Cardinality(T)
<1>1. n \in Nat /\ m \in Nat /\ n <= m
  BY FS_CardinalityType
<1>2. ExistsBijection(1 .. n, S) /\ ExistsBijection(1 .. m, T)
  BY FS_CardinalityType
<1>3. ExistsInjection(S, 1 .. n) /\ ExistsInjection(1 .. m, T)
  BY <1>2, Fun_ExistsBijEquiv
<1>4. ExistsInjection(1 .. n, 1 .. m)
  <2>1. [k \in 1 .. n |-> k] \in Injection(1 .. n, 1 .. m)
    BY <1>1 DEF Injection, IsInjective
  <2> QED
    BY <2>1 DEF ExistsInjection
<1> HIDE DEF n, m
<1>5. ExistsInjection(S, T)
  BY <1>3, <1>4, Fun_ExistsInjTransitive
<1> QED
  BY <1>5 DEF ExistsInjection

(* One-to-one placing keeps the number.                                    *)
LEMMA Placed ==
  ASSUME NEW S, IsFiniteSet(S), NEW T, NEW i \in Injection(S, T),
         NEW A \in SUBSET S, NEW B, B = {i[c] : c \in A}
  PROVE  IsFiniteSet(B) /\ Cardinality(B) = Cardinality(A)
<1> DEFINE j == [c \in A |-> i[c]]
<1>1. j \in Bijection(A, B)
  BY DEF Injection, IsInjective, Bijection, Surjection
<1>2. ExistsBijection(A, B)
  BY <1>1 DEF ExistsBijection
<1>3. IsFiniteSet(A)
  BY FS_Subset
<1> QED
  BY <1>2, <1>3, FS_Bijection
-----------------------------------------------------------------------------
(* Requests. *)

(* The holders of a lock are finitely many.                                *)
LEMMA HoldersFinite ==
  \A d : /\ IsFiniteSet(RequestsOn(d)) /\ Cardinality(RequestsOn(d)) \in Nat
         /\ IsFiniteSet(SentBelow(d)) /\ Cardinality(SentBelow(d)) \in Nat
         /\ IsFiniteSet(AttachedTo(d)) /\ Cardinality(AttachedTo(d)) \in Nat
         /\ Owed(d) \in Nat
<1> SUFFICES ASSUME NEW d
             PROVE  /\ IsFiniteSet(RequestsOn(d)) /\ Cardinality(RequestsOn(d)) \in Nat
                    /\ IsFiniteSet(SentBelow(d)) /\ Cardinality(SentBelow(d)) \in Nat
                    /\ IsFiniteSet(AttachedTo(d)) /\ Cardinality(AttachedTo(d)) \in Nat
                    /\ Owed(d) \in Nat
  OBVIOUS
<1>1. /\ RequestsOn(d) \in SUBSET Reqs /\ SentBelow(d) \in SUBSET Reqs
      /\ AttachedTo(d) \in SUBSET Tgts
  BY DEF RequestsOn, SentBelow, AttachedTo
<1>2. /\ IsFiniteSet(RequestsOn(d)) /\ IsFiniteSet(SentBelow(d))
      /\ IsFiniteSet(AttachedTo(d))
  BY <1>1, FilterAssumption, FS_Subset
<1>3. /\ Cardinality(RequestsOn(d)) \in Nat /\ Cardinality(SentBelow(d)) \in Nat
      /\ Cardinality(AttachedTo(d)) \in Nat
  BY <1>2, FS_CardinalityType
<1> QED
  BY <1>2, <1>3 DEF Owed

(* How often the request q holds the lock of d.                            *)
Holding(q, d) == IF q.on # d THEN 0 ELSE IF q.at = "sent" THEN 2 ELSE 1

(* A request that changes from req[r] to q changes what is owed by what it *)
(* holds.                                                                  *)
LEMMA RequestOwed ==
  ASSUME TypeOK, NEW r \in Reqs, NEW q, req' = [req EXCEPT ![r] = q],
         UNCHANGED <<filter, control, pnp>>
  PROVE  \A d : /\ Owed(d)' = Owed(d) + Holding(q, d) - Holding(req[r], d)
                /\ Owed(d)' \in Nat
<1> SUFFICES ASSUME NEW d
             PROVE  /\ Owed(d)' = Owed(d) + Holding(q, d) - Holding(req[r], d)
                    /\ Owed(d)' \in Nat
  OBVIOUS
<1>1. /\ req'[r] = q
      /\ \A o \in Reqs : o # r => req'[o] = req[o]
  BY DEF TypeOK
<1>2. RequestsOn(d)' \ {r} = RequestsOn(d) \ {r}
  BY <1>1 DEF RequestsOn
<1>3. SentBelow(d)' \ {r} = SentBelow(d) \ {r}
  BY <1>1 DEF SentBelow
<1>4. /\ r \in RequestsOn(d) <=> req[r].on = d
      /\ r \in RequestsOn(d)' <=> q.on = d
      /\ r \in SentBelow(d) <=> req[r].on = d /\ req[r].at = "sent"
      /\ r \in SentBelow(d)' <=> q.on = d /\ q.at = "sent"
  BY <1>1 DEF RequestsOn, SentBelow
<1>5. AttachedTo(d)' = AttachedTo(d) /\ HubFilters(pnp.on)' = HubFilters(pnp.on)
  BY DEF AttachedTo, HubFilters, FiltersOn
<1> DEFINE a  == Cardinality(RequestsOn(d))
           a2 == Cardinality(RequestsOn(d)')
           b  == Cardinality(SentBelow(d))
           b2 == Cardinality(SentBelow(d)')
<1>6. /\ a \in Nat /\ a2 \in Nat
      /\ a2 = a + (IF q.on = d THEN 1 ELSE 0) - (IF req[r].on = d THEN 1 ELSE 0)
  BY <1>2, <1>4, Recount, HoldersFinite
<1>7. /\ b \in Nat /\ b2 \in Nat
      /\ b2 = b + (IF q.on = d /\ q.at = "sent" THEN 1 ELSE 0)
                - (IF req[r].on = d /\ req[r].at = "sent" THEN 1 ELSE 0)
  BY <1>3, <1>4, Recount, HoldersFinite
<1>8. a2 + b2 = a + b + Holding(q, d) - Holding(req[r], d)
  BY <1>6, <1>7 DEF Holding
<1>9. Holding(q, d) \in Int /\ Holding(req[r], d) \in Int
  BY DEF Holding
<1> DEFINE c == Cardinality(AttachedTo(d))
           e == (IF d = Root /\ control THEN 1 ELSE 0)
                + (IF pnp.op = "query" /\ d \in HubFilters(pnp.on) THEN 2 ELSE 0)
                + (IF d = Root /\ pnp.op = "removeHub" /\ control THEN 1 ELSE 0)
<1>10. c \in Nat /\ e \in Nat
  BY HoldersFinite
<1>11. Owed(d) = a + b + c + e
  BY <1>6, <1>7, <1>10 DEF Owed
<1>12. Owed(d)' = a2 + b2 + c + e
  BY <1>5, <1>6, <1>7, <1>10 DEF Owed
<1> HIDE DEF a, a2, b, b2, c, e
<1> QED
  BY <1>6, <1>7, <1>8, <1>9, <1>10, <1>11, <1>12

(* A step of the driver with a request, r becoming q: the locks follow     *)
(* what r holds, and nothing else changes.                                 *)
RequestMoves(r, q) ==
  /\ q \in [on : Devices \cup {NoPdo}, at : Stages]
  /\ q.on = NoPdo <=> q.at = "none"
  /\ q.at \notin {"none", "in", "kept"} => q.on \in Tgts
  /\ q.at # "none" => Live(q.on) /\ pnp # [op |-> "delete", on |-> q.on]
  /\ req' = [req EXCEPT ![r] = q]
  /\ lock' = [d \in Devices |->
       [lock[d] EXCEPT !.count = @ + Holding(q, d) - Holding(req[r], d)]]
  /\ UNCHANGED <<pdo, filter, control, refCount, pnp, missed, lost>>

(* Such a step preserves the invariant.                                    *)
LEMMA RequestMovesInv ==
  ASSUME LockInv, NEW r \in Reqs, NEW q, RequestMoves(r, q)
  PROVE  LockInv'
<1> USE DEF LockInv
<1>0. \A d : /\ Owed(d)' = Owed(d) + Holding(q, d) - Holding(req[r], d)
             /\ Owed(d)' \in Nat
  <2>1. TypeOK /\ req' = [req EXCEPT ![r] = q] /\ UNCHANGED <<filter, control, pnp>>
    BY DEF RequestMoves
  <2> QED
    BY <2>1, RequestOwed
<1>1. \A d \in Devices : lock'[d].count = Owed(d)'
  <2> TAKE d \in Devices
  <2>1. Owed(d)' = Owed(d) + Holding(q, d) - Holding(req[r], d)
    BY <1>0
  <2>2. lock[d] \in [count : Nat, removed : BOOLEAN] /\ lock[d].count = Owed(d)
    BY DEF TypeOK, LocksOwed
  <2> QED
    BY <2>1, <2>2 DEF RequestMoves
<1>2. \A d \in Devices : /\ lock'[d].removed = lock[d].removed
                         /\ lock'[d] \in [count : Nat, removed : BOOLEAN]
  <2> TAKE d \in Devices
  <2>1. lock[d] \in [count : Nat, removed : BOOLEAN]
    BY DEF TypeOK
  <2>2. lock'[d].count \in Nat
    BY <1>0, <1>1
  <2> QED
    BY <2>1, <2>2 DEF RequestMoves
<1>3. TypeOK'
  BY <1>2 DEF TypeOK, RequestMoves
<1>4. /\ req'[r] = q
      /\ \A o \in Reqs : o # r => req'[o] = req[o]
  BY DEF TypeOK, RequestMoves
<1>5. \A d : Live(d)' = Live(d)
  BY DEF Live, RequestMoves
<1>6. Idle'
  BY <1>4 DEF Idle, RequestMoves
<1>7. Tree' /\ RootThere'
  BY DEF Tree, RootThere, RequestMoves, Live, HubFilters, FiltersOn
<1>8. PnpSound'
  <2>1. pnp.op = "delete" => RequestsOn(pnp.on)' = {}
    <3> SUFFICES ASSUME pnp.op = "delete" PROVE RequestsOn(pnp.on)' = {}
      OBVIOUS
    <3>1. RequestsOn(pnp.on) = {} /\ pnp.on \in Tgts
      BY DEF PnpSound
    <3>2. q.on # pnp.on
      <4>1. pnp = [op |-> "delete", on |-> pnp.on]
        BY DEF TypeOK
      <4>2. pnp.on # NoPdo
        BY <3>1, FilterAssumption DEF Devices
      <4> QED
        BY <4>1, <4>2 DEF RequestMoves
    <3> QED
      BY <1>4, <3>1, <3>2 DEF RequestsOn, RequestMoves
  <2>2. pnp.op \in {"remove", "delete"} => lock'[pnp.on].removed
    BY <1>2 DEF PnpSound, Devices
  <2> QED
    BY <1>5, <2>1, <2>2 DEF PnpSound, RequestMoves, Leaf, FiltersOn
<1>9. Closing'
  BY <1>2 DEF Closing, Devices, RequestMoves
<1>10. RequestsLive'
  BY <1>4, <1>5 DEF RequestsLive, RequestMoves
<1>11. LocksOwed'
  BY <1>1 DEF LocksOwed
<1>12. RootHoldsLast'
  BY <1>5 DEF RootHoldsLast, RequestMoves
<1> QED
  BY <1>3, <1>6, <1>7, <1>8, <1>9, <1>10, <1>11, <1>12

(* Every step of a request is such a move.                                 *)
LEMMA EnteredInv ==
  ASSUME LockInv, NEW r \in Reqs, NEW d \in Devices, NEW at \in {"in", "entered", "kept"},
         at = "entered" => d \in Tgts, Entered(r, d, at)
  PROVE  LockInv'
<1> DEFINE q == [on |-> d, at |-> at]
<1> USE DEF LockInv
<1>1. d # NoPdo
  BY FilterAssumption
<1>2. pnp # [op |-> "delete", on |-> d]
  BY DEF Entered, PnpSound
<1>3. \A e \in Devices :
        [lock EXCEPT ![d].count = @ + 1][e] =
          [lock[e] EXCEPT !.count = @ + Holding(q, e) - Holding(req[r], e)]
  <2> TAKE e \in Devices
  <2>1. Holding(req[r], e) = 0
    BY FilterAssumption DEF Entered, Holding, NoReq
  <2>2. Holding(q, e) = IF e = d THEN 1 ELSE 0
    BY DEF Holding
  <2>3. lock[e] \in [count : Nat, removed : BOOLEAN]
    BY DEF TypeOK
  <2> QED
    BY <2>1, <2>2, <2>3 DEF TypeOK
<1>4. RequestMoves(r, q)
  BY <1>1, <1>2, <1>3 DEF Entered, Acquire, RequestMoves, TypeOK, Stages
<1> QED
  BY <1>4, RequestMovesInv

(* The request r on d becomes q or is over, and the lock of d counts n.    *)
Moves(r, d, q, n) ==
  /\ d = req[r].on /\ req[r].at \notin {"none", "kept"}
  /\ q \in [on : {d}, at : {"sent", "pending", "leaving"}] \cup {NoReq}
  /\ req[r].at = "in" => q = NoReq
  /\ n = lock[d].count + Holding(q, d) - Holding(req[r], d)
  /\ req' = [req EXCEPT ![r] = q]
  /\ lock' = [lock EXCEPT ![d].count = n]
  /\ UNCHANGED <<pdo, filter, control, refCount, pnp, missed, lost>>

LEMMA Moved ==
  ASSUME LockInv, NEW r \in Reqs, NEW d, NEW q, NEW n, Moves(r, d, q, n)
  PROVE  LockInv'
<1> USE DEF LockInv
<1>1. d \in Devices /\ Live(d) /\ d # NoPdo /\ d = req[r].on
  BY FilterAssumption DEF Idle, TypeOK, RequestsLive, Moves
<1>2. q.on = NoPdo <=> q.at = "none"
  BY <1>1 DEF NoReq, Moves
<1>3. q.at # "none" => Live(q.on) /\ pnp # [op |-> "delete", on |-> q.on]
  <2>1. RequestsOn(d) # {}
    BY DEF RequestsOn, Moves
  <2> QED
    BY <1>1, <2>1 DEF PnpSound, NoReq, Moves
<1>4. \A e \in Devices : e # d => Holding(q, e) = 0 /\ Holding(req[r], e) = 0
  BY FilterAssumption DEF Holding, NoReq, Moves
<1>5. \A e \in Devices :
        lock'[e] = [lock[e] EXCEPT !.count = @ + Holding(q, e) - Holding(req[r], e)]
  <2> TAKE e \in Devices
  <2>1. lock[e] \in [count : Nat, removed : BOOLEAN]
    BY DEF TypeOK
  <2>2. Holding(q, e) \in Int /\ Holding(req[r], e) \in Int
    BY DEF Holding
  <2>3. CASE e = d
    <3>1. lock'[e] = [lock[e] EXCEPT !.count = n]
      BY <1>1, <2>3 DEF TypeOK, Moves
    <3> QED
      BY <2>1, <2>2, <2>3, <3>1 DEF Moves
  <2>4. CASE e # d
    <3>1. lock'[e] = lock[e]
      BY <2>4 DEF TypeOK, Moves
    <3> QED
      BY <1>4, <2>1, <2>4, <3>1
  <2> QED
    BY <2>3, <2>4
<1>6. lock' = [e \in Devices |-> lock'[e]]
  BY DEF TypeOK, Moves
<1>7. q \in [on : Devices \cup {NoPdo}, at : Stages]
  BY <1>1 DEF NoReq, Stages, Moves
<1>8. q.at \notin {"none", "in", "kept"} => q.on \in Tgts
  <2>1. req[r].at # "in" => d \in Tgts
    BY <1>1 DEF Idle, Moves
  <2> QED
    BY <2>1 DEF NoReq, Moves
<1>9. RequestMoves(r, q)
  BY <1>2, <1>3, <1>5, <1>6, <1>7, <1>8 DEF RequestMoves, Moves
<1> QED
  BY <1>9, RequestMovesInv

LEMMA RequestStepInv ==
  ASSUME LockInv, NEW r \in Reqs, RequestStep(r)
  PROVE  LockInv'
<1> DEFINE d == req[r].on
<1>0. /\ req[r] \in [on : Devices \cup {NoPdo}, at : Stages]
      /\ req[r].at # "none" => d # NoPdo /\ d \in Devices
      /\ lock \in [Devices -> [count : Nat, removed : BOOLEAN]]
  BY DEF LockInv, TypeOK, Idle, NoReq
<1>1. ASSUME NEW to \in {"sent", "pending", "leaving"}
      PROVE  /\ [req[r] EXCEPT !.at = to] \in [on : {d}, at : {"sent", "pending", "leaving"}]
             /\ Holding([req[r] EXCEPT !.at = to], d) = IF to = "sent" THEN 2 ELSE 1
  BY <1>0, <1>1 DEF Holding
<1>2. req[r].at # "none" =>
        /\ Holding(req[r], d) = IF req[r].at = "sent" THEN 2 ELSE 1
        /\ Holding(NoReq, d) = 0
        /\ lock[d].count \in Nat
  BY <1>0 DEF Holding, NoReq
<1>3. CASE Return(r)
  <2> DEFINE n == lock[d].count - 1
  <2>1. /\ req[r].at \in {"in", "leaving"} /\ req' = [req EXCEPT ![r] = NoReq]
        /\ lock' = [lock EXCEPT ![d].count = n]
        /\ UNCHANGED <<pdo, filter, control, refCount, pnp, missed, lost>>
    BY <1>3 DEF Return, Release
  <2>2. n = lock[d].count + Holding(NoReq, d) - Holding(req[r], d)
    BY <1>2, <2>1
  <2>3. Moves(r, d, NoReq, n)
    BY <2>1, <2>2 DEF Moves
  <2> HIDE DEF d, n
  <2> QED
    BY <2>3, Moved
<1>4. CASE DkTgtInDevCtl(r)
  <2>1. /\ req[r].at = "entered"
        /\ UNCHANGED <<pdo, filter, control, refCount, pnp, missed, lost>>
    BY <1>4 DEF DkTgtInDevCtl
  <2>2. CASE lock[d].removed
    <3> DEFINE q == [req[r] EXCEPT !.at = "leaving"]
               n == lock[d].count
    <3>1. req' = [req EXCEPT ![r] = q] /\ lock' = lock
      BY <1>4, <2>2 DEF DkTgtInDevCtl
    <3>2. lock' = [lock EXCEPT ![d].count = n]
      BY <1>0, <3>1
    <3>3. /\ q \in [on : {d}, at : {"sent", "pending", "leaving"}] \cup {NoReq}
          /\ n = lock[d].count + Holding(q, d) - Holding(req[r], d)
      BY <1>1, <1>2, <2>1
    <3>4. Moves(r, d, q, n)
      BY <2>1, <3>1, <3>2, <3>3 DEF Moves
    <3> HIDE DEF d, q, n
    <3> QED
      BY <3>4, Moved
  <2>3. CASE ~lock[d].removed
    <3> DEFINE q == [req[r] EXCEPT !.at = "sent"]
               n == lock[d].count + 1
    <3>1. req' = [req EXCEPT ![r] = q] /\ lock' = [lock EXCEPT ![d].count = n]
      BY <1>4, <2>3 DEF DkTgtInDevCtl, Acquire
    <3>2. /\ q \in [on : {d}, at : {"sent", "pending", "leaving"}] \cup {NoReq}
          /\ n = lock[d].count + Holding(q, d) - Holding(req[r], d)
      BY <1>1, <1>2, <2>1
    <3>3. Moves(r, d, q, n)
      BY <2>1, <3>1, <3>2 DEF Moves
    <3> HIDE DEF d, q, n
    <3> QED
      BY <3>3, Moved
  <2> QED
    BY <2>2, <2>3
<1>5. CASE Pended(r)
  <2> DEFINE q == [req[r] EXCEPT !.at = "pending"]
             n == lock[d].count - 1
  <2>1. /\ req[r].at = "sent" /\ req' = [req EXCEPT ![r] = q]
        /\ lock' = [lock EXCEPT ![d].count = n]
        /\ UNCHANGED <<pdo, filter, control, refCount, pnp, missed, lost>>
    BY <1>5 DEF Pended, Release
  <2>2. /\ q \in [on : {d}, at : {"sent", "pending", "leaving"}] \cup {NoReq}
        /\ n = lock[d].count + Holding(q, d) - Holding(req[r], d)
    BY <1>1, <1>2, <2>1
  <2>3. Moves(r, d, q, n)
    BY <2>1, <2>2 DEF Moves
  <2> HIDE DEF d, q, n
  <2> QED
    BY <2>3, Moved
<1>6. CASE DkTgtInDevCtlCompletion(r)
  <2> DEFINE q == IF req[r].at = "sent" THEN [req[r] EXCEPT !.at = "leaving"]
                                        ELSE NoReq
             n == lock[d].count - 1
  <2>1. /\ req[r].at \in {"sent", "pending"} /\ req' = [req EXCEPT ![r] = q]
        /\ lock' = [lock EXCEPT ![d].count = n]
        /\ UNCHANGED <<pdo, filter, control, refCount, pnp, missed, lost>>
    BY <1>6 DEF DkTgtInDevCtlCompletion, Release
  <2>2. /\ q \in [on : {d}, at : {"sent", "pending", "leaving"}] \cup {NoReq}
        /\ n = lock[d].count + Holding(q, d) - Holding(req[r], d)
    BY <1>1, <1>2, <2>1
  <2>3. Moves(r, d, q, n)
    BY <2>1, <2>2 DEF Moves
  <2> HIDE DEF d, q, n
  <2> QED
    BY <2>3, Moved
<1> QED
  BY <1>3, <1>4, <1>5, <1>6 DEF RequestStep
-----------------------------------------------------------------------------
(* Devices are plugged in and out: the driver does not see it. *)

(* What is owed depends on the requests, the filters and the operation.    *)
LEMMA OwedSame ==
  ASSUME UNCHANGED <<filter, control, req, pnp>>
  PROVE  /\ \A d : Owed(d)' = Owed(d)
         /\ \A d : Live(d)' = Live(d)
         /\ \A h : HubFilters(h)' = HubFilters(h) /\ FiltersOn(h)' = FiltersOn(h)
<1>1. \A d : /\ RequestsOn(d)' = RequestsOn(d) /\ SentBelow(d)' = SentBelow(d)
             /\ AttachedTo(d)' = AttachedTo(d)
  BY DEF RequestsOn, SentBelow, AttachedTo
<1>2. \A h : HubFilters(h)' = HubFilters(h) /\ FiltersOn(h)' = FiltersOn(h)
  BY DEF HubFilters, FiltersOn
<1>3. \A d : Live(d)' = Live(d)
  BY DEF Live
<1> QED
  BY <1>1, <1>2, <1>3 DEF Owed

(* The device p goes from one state to another.                            *)
LEMMA PdoStep ==
  ASSUME LockInv, NEW p \in Pdos, NEW x,
         x \in [state : PdoStates, hub : Pdos \cup {Root, NoPdo}],
         pdo' = [pdo EXCEPT ![p] = x],
         UNCHANGED <<filter, control, lock, refCount, req, pnp>>,
         missed' \subseteq Filters \X Pdos, lost' \subseteq Pdos,
         x.state = "gone" => x = NoDevice /\ FiltersOn(p) = {}
                             /\ pnp.op = "none" /\ \A q \in Pdos : pdo[q].hub # p,
         x.state # "gone" =>
           \/ x.hub = pdo[p].hub /\ pdo[p].state # "gone"
           \/ /\ pdo[p].state = "gone" /\ x.hub # p
              /\ \/ x.hub = Root /\ Live(Root) /\ pnp.op # "removeHub"
                 \/ x.hub \in Hubs /\ pdo[x.hub].state = "listed",
         pdo[p].state \in Known => x.state \in Known \/ x.state = "gone",
         pdo[p].state = "missing" => x.state \in {"missing", "gone"}
  PROVE  LockInv'
<1> USE DEF LockInv
<1>1. pdo'[p] = x /\ \A q \in Pdos : q # p => pdo'[q] = pdo[q]
  BY DEF TypeOK
<1>2. TypeOK'
  BY DEF TypeOK
<1>3. Idle'
  BY <1>1 DEF Idle
<1>4. Tree'
  <2>1. ASSUME NEW q \in Pdos, pdo'[q].state # "gone"
        PROVE  \/ pdo'[q].hub = Root /\ Live(Root) /\ pnp.op # "removeHub"
               \/ pdo'[q].hub \in Hubs /\ pdo'[pdo'[q].hub].state \in Known
    <3> DEFINE h == pdo'[q].hub
    <3>1. \/ h = Root /\ Live(Root) /\ pnp.op # "removeHub"
          \/ h \in Hubs /\ pdo[h].state \in Known
      BY <1>1, <2>1 DEF Tree, Known
    <3>2. CASE h = p
      <4>1. q # p => pdo[q].hub = p
        BY <1>1, <3>2
      <4>2. q = p => pdo[p].hub = p
        BY <1>1, <2>1, <3>2
      <4>3. x.state # "gone"
        BY <4>1, <4>2
      <4> QED
        BY <1>1, <3>1, <3>2, <4>3
    <3>3. CASE h # p
      BY <1>1, <3>1, <3>3, FilterAssumption
    <3> QED
      BY <3>2, <3>3
  <2>2. ASSUME NEW f \in Tgts, Live(f)
        PROVE  /\ filter[f].pdo \in Pdos
               /\ pdo'[filter[f].pdo].state \in Known
               /\ filter[f].parent \in HubFilters(pdo'[filter[f].pdo].hub)
    <3>1. /\ filter[f].pdo \in Pdos
          /\ pdo[filter[f].pdo].state \in Known
          /\ filter[f].parent \in HubFilters(pdo[filter[f].pdo].hub)
      BY <2>2 DEF Tree
    <3>2. CASE filter[f].pdo = p
      <4>1. f \in FiltersOn(p)
        BY <3>2 DEF FiltersOn
      <4>2. x.state # "gone"
        BY <4>1
      <4> QED
        BY <1>1, <3>1, <3>2, <4>2 DEF Known
    <3> QED
      BY <1>1, <3>1, <3>2
  <2> QED
    BY <2>1, <2>2, OwedSame DEF Tree
<1>5. PnpSound'
  <2>1. ASSUME NEW q \in Pdos, Leaf(q), pnp.op # "none"
        PROVE  Leaf(q)'
    <3>1. pdo'[q].state = "missing"
      BY <1>1, <2>1 DEF Leaf
    <3>2. x.hub # q
      BY <2>1, FilterAssumption DEF Leaf, TypeOK
    <3> QED
      BY <1>1, <2>1, <3>1, <3>2 DEF Leaf
  <2>2. pnp.op \in {"remove", "delete"} => filter[pnp.on].pdo \in Pdos
    BY DEF PnpSound, Tree
  <2>3. pnp.op = "removeHub" => \A q \in Pdos : pdo'[q].state = "gone"
    BY <1>1, FilterAssumption DEF PnpSound, Tree
  <2>4. RequestsOn(pnp.on)' = RequestsOn(pnp.on)
    BY DEF RequestsOn
  <2> QED
    BY <2>1, <2>2, <2>3, <2>4, OwedSame DEF PnpSound
<1>6. Closing' /\ RequestsLive' /\ RootHoldsLast'
  BY OwedSame DEF Closing, RequestsLive, RootHoldsLast
<1>7. LocksOwed'
  BY OwedSame DEF LocksOwed
<1>8. RootThere'
  BY <1>1, OwedSame, FilterAssumption DEF RootThere
<1> QED
  BY <1>2, <1>3, <1>4, <1>5, <1>6, <1>7, <1>8

LEMMA PlugInv ==
  ASSUME LockInv, NEW p \in Pdos, NEW h \in Pdos \cup {Root}, Plug(p, h)
  PROVE  LockInv'
<1> DEFINE x == [state |-> "plugged", hub |-> h]
<1>1. /\ pdo' = [pdo EXCEPT ![p] = x]
      /\ UNCHANGED <<filter, control, lock, refCount, req, pnp, missed, lost>>
      /\ pdo[p].state = "gone"
  BY DEF Plug
<1>2. /\ x \in [state : PdoStates, hub : Pdos \cup {Root, NoPdo}]
      /\ x.hub = h /\ x.state = "plugged" /\ h # p
  BY DEF PdoStates, Plug
<1>3. \/ h = Root /\ Live(Root) /\ pnp.op # "removeHub"
      \/ h \in Hubs /\ pdo[h].state = "listed"
  BY FilterAssumption DEF Plug, HubWorks, Live
<1>4. missed' \subseteq Filters \X Pdos /\ lost' \subseteq Pdos
  BY <1>1 DEF LockInv, TypeOK
<1> HIDE DEF x
<1> QED
  BY <1>1, <1>2, <1>3, <1>4, PdoStep DEF Known

LEMMA UnplugInv ==
  ASSUME LockInv, NEW p \in Pdos, Unplug(p) \/ Vanish(p)
  PROVE  LockInv'
<1> DEFINE to == IF Unplug(p) THEN "unplugged" ELSE "missing"
           x  == [pdo[p] EXCEPT !.state = to]
<1>1. /\ pdo' = [pdo EXCEPT ![p] = x]
      /\ UNCHANGED <<filter, control, lock, refCount, req, pnp, missed, lost>>
      /\ pdo[p].state \in {"plugged", "listed", "unplugged"}
  BY DEF Unplug, Vanish
<1>2. pdo[p] \in [state : PdoStates, hub : Pdos \cup {Root, NoPdo}]
  BY DEF LockInv, TypeOK
<1>3. /\ x \in [state : PdoStates, hub : Pdos \cup {Root, NoPdo}]
      /\ x.hub = pdo[p].hub /\ x.state \in {"unplugged", "missing"}
  BY <1>2 DEF PdoStates
<1>4. missed' \subseteq Filters \X Pdos /\ lost' \subseteq Pdos
  BY <1>1 DEF LockInv, TypeOK
<1> HIDE DEF x
<1> QED
  BY <1>1, <1>3, <1>4, PdoStep DEF Known

LEMMA RemoveUnfilteredInv ==
  ASSUME LockInv, NEW p \in Pdos, RemoveUnfiltered(p)
  PROVE  LockInv'
<1>1. /\ pdo' = [pdo EXCEPT ![p] = NoDevice]
      /\ UNCHANGED <<filter, control, lock, refCount, req, pnp>>
      /\ FiltersOn(p) = {} /\ pnp.op = "none"
      /\ \A q \in Pdos : pdo[q].hub # p
  BY DEF RemoveUnfiltered, Removable, Quiet
<1>2. /\ NoDevice \in [state : PdoStates, hub : Pdos \cup {Root, NoPdo}]
      /\ NoDevice.state = "gone"
  BY DEF PdoStates, NoDevice
<1>3. missed' \subseteq Filters \X Pdos /\ lost' \subseteq Pdos
  BY DEF LockInv, TypeOK, RemoveUnfiltered
<1> QED
  BY <1>1, <1>2, <1>3, PdoStep
-----------------------------------------------------------------------------
(* The root hub comes and goes. *)

LEMMA NoFilterData ==
  /\ NoFilter \in FilterData
  /\ NoFilter.state = "none" /\ NoFilter.pdo = NoPdo /\ NoFilter.parent = NoPdo
  /\ NoFilter.hub = FALSE /\ NoFilter.children = {}
BY DEF NoFilter, FilterData

LEMMA AddDeviceInv ==
  ASSUME LockInv, AddDevice
  PROVE  LockInv'
<1> USE DEF LockInv
<1>0. /\ pnp = Quiet /\ pnp.op = "none" /\ filter[Root].state = "none" /\ ~Live(Root)
      /\ Root \in Devices /\ Root \in Filters /\ Control \in Devices
      /\ Root # Control /\ Root # NoPdo /\ Root \notin Tgts /\ Control \notin Tgts
      /\ Control # NoPdo
  BY FilterAssumption DEF AddDevice, NoFilter, Quiet, Live, Devices, Filters
<1>1. \A p \in Pdos : pdo[p].state = "gone"
  BY <1>0 DEF RootThere
<1>2. ~control /\ \A f \in Tgts : ~Live(f)
  BY <1>0, <1>1 DEF RootThere, Tree, Known
<1>3. \A f \in Tgts : filter[f] = NoFilter /\ filter[f].parent = NoPdo
  BY <1>0, <1>2 DEF Idle, Live, Filters, NoFilter
<1>4. \A r \in Reqs : req[r].on \notin {Root, Control}
  BY <1>0, <1>2 DEF RequestsLive, Idle, Live
<1> DEFINE y == [filter[Root] EXCEPT !.state = "started", !.hub = TRUE]
           z == [count |-> 1, removed |-> FALSE]
<1>5. /\ filter' = [filter EXCEPT ![Root] = y]
      /\ control' = TRUE
      /\ lock' = [lock EXCEPT ![Root] = z, ![Control] = Unlocked]
      /\ refCount' = 1
      /\ UNCHANGED <<pdo, req, pnp, missed, lost>>
  BY <1>0 DEF AddDevice, CreateRootHubControlDevice, TypeOK
<1>6. /\ y \in FilterData /\ y.state = "started" /\ y.pdo = NoPdo /\ y.parent = NoPdo
      /\ z \in [count : Nat, removed : BOOLEAN] /\ z.count = 1 /\ ~z.removed
      /\ Unlocked \in [count : Nat, removed : BOOLEAN]
      /\ Unlocked.count = 0 /\ ~Unlocked.removed
  <2>1. filter[Root] = NoFilter
    BY DEF AddDevice
  <2>2. y \in FilterData /\ y.state = "started" /\ y.pdo = NoPdo /\ y.parent = NoPdo
    BY <2>1, NoFilterData DEF FilterData
  <2> QED
    BY <2>2 DEF Unlocked
<1> HIDE DEF y, z
<1>7. /\ filter'[Root] = y /\ \A f \in Tgts : filter'[f] = filter[f]
      /\ lock'[Root] = z /\ lock'[Control] = Unlocked
      /\ \A d \in Tgts : lock'[d] = lock[d]
  BY <1>0, <1>5 DEF TypeOK, Filters, Devices
<1>8. TypeOK'
  <2>1. filter' \in [Filters -> FilterData]
    BY <1>5, <1>6 DEF TypeOK
  <2>2. lock' \in [Devices -> [count : Nat, removed : BOOLEAN]]
    BY <1>5, <1>6 DEF TypeOK
  <2> QED
    BY <1>5, <2>1, <2>2 DEF TypeOK
<1>9. Live(Root)' /\ Live(Control)' /\ \A f \in Tgts : Live(f)' = Live(f)
  BY <1>0, <1>5, <1>6, <1>7 DEF Live
<1>10. Idle'
  BY <1>0, <1>5, <1>6, <1>7 DEF Idle, Filters
<1>11. Tree' /\ RootThere' /\ PnpSound' /\ RequestsLive' /\ Closing'
  <2>1. Tree' /\ RootThere'
    BY <1>0, <1>1, <1>2, <1>5, <1>9 DEF Tree, RootThere
  <2>2. PnpSound'
    BY <1>0, <1>5 DEF PnpSound
  <2>3. RequestsLive'
    BY <1>0, <1>4, <1>5, <1>9 DEF RequestsLive, TypeOK, Devices, Idle
  <2>4. Closing'
    BY <1>0, <1>5, <1>6, <1>7 DEF Closing
  <2> QED
    BY <2>1, <2>2, <2>3, <2>4
<1>12. LocksOwed'
  <2>1. \A d \in {Root, Control} : RequestsOn(d) = {} /\ SentBelow(d) = {}
    BY <1>4 DEF RequestsOn, SentBelow
  <2>2. \A d \in Devices : AttachedTo(d) = {} /\ AttachedTo(d)' = {}
    BY <1>3, <1>7, FilterAssumption DEF AttachedTo
  <2>3. \A d : RequestsOn(d)' = RequestsOn(d) /\ SentBelow(d)' = SentBelow(d)
    BY <1>5 DEF RequestsOn, SentBelow
  <2>4. Owed(Root)' = 1 /\ Owed(Control)' = 0
    BY <1>0, <1>5, <2>1, <2>2, <2>3, FS_EmptySet DEF Owed
  <2>5. \A d \in Tgts : Owed(d)' = Owed(d)
    BY <1>0, <1>5, <2>2, <2>3 DEF Owed, Devices
  <2> QED
    BY <1>0, <1>6, <1>7, <2>4, <2>5 DEF LocksOwed, Devices
<1>13. RootHoldsLast'
  <2>1. {f \in Filters : Live(f)}' = {Root}
    BY <1>0, <1>2, <1>9 DEF Filters
  <2> QED
    BY <1>5, <1>9, <2>1, FS_Singleton DEF RootHoldsLast
<1> QED
  BY <1>8, <1>10, <1>11, <1>12, <1>13

(* What requests hold does not depend on the PnP operation, what filters   *)
(* hold only when one is between its two steps of deletion.                *)
LEMMA OwedParts ==
  ASSUME UNCHANGED req
  PROVE  /\ \A d : RequestsOn(d)' = RequestsOn(d) /\ SentBelow(d)' = SentBelow(d)
         /\ filter' = filter /\ pnp.op # "delete" /\ pnp'.op # "delete"
              => \A d : AttachedTo(d)' = AttachedTo(d)
BY DEF RequestsOn, SentBelow, AttachedTo

LEMMA RemoveHubInv ==
  ASSUME LockInv, RemoveHub
  PROVE  LockInv'
<1> USE DEF LockInv
<1>0. /\ pnp = Quiet /\ pnp.op = "none" /\ Live(Root) /\ control
      /\ Root \in Devices /\ Control \in Devices /\ Root # Control
      /\ Root \notin Tgts /\ Control \notin Tgts
  BY FilterAssumption DEF RemoveHub, Quiet, Live, Devices, RootThere
<1> DEFINE n == lock[Root].count + 1
<1>1. /\ lock' = [lock EXCEPT ![Root].count = n, ![Control].removed = TRUE]
      /\ pnp' = [op |-> "removeHub", on |-> Root]
      /\ UNCHANGED <<pdo, filter, control, refCount, req, missed, lost>>
      /\ \A p \in Pdos : pdo[p].state = "gone"
  BY DEF RemoveHub
<1>2. lock[Root] \in [count : Nat, removed : BOOLEAN] /\ n \in Nat
  BY <1>0 DEF TypeOK
<1> HIDE DEF n
<1>3. /\ lock' \in [Devices -> [count : Nat, removed : BOOLEAN]]
      /\ lock'[Root].count = n /\ lock'[Root].removed = lock[Root].removed
      /\ lock'[Control].removed /\ lock'[Control].count = lock[Control].count
      /\ \A d \in Tgts : lock'[d] = lock[d]
  BY <1>0, <1>1, <1>2 DEF TypeOK, Devices
<1>4. pnp'.op = "removeHub" /\ pnp'.on = Root
  BY <1>1
<1>5. TypeOK'
  BY <1>1, <1>3 DEF TypeOK, PnpOps, Filters
<1>6. \A d : Live(d)' = Live(d)
  BY <1>1 DEF Live
<1>7. Idle'
  BY <1>1 DEF Idle
<1>8. Tree'
  BY <1>1, <1>4 DEF Tree, Live, Known
<1>9. RootThere' /\ RequestsLive' /\ RootHoldsLast'
  BY <1>0, <1>1, <1>4, <1>6 DEF RootThere, RequestsLive, RootHoldsLast
<1>10. PnpSound'
  BY <1>0, <1>1, <1>4, <1>6 DEF PnpSound
<1>11. Closing'
  BY <1>0, <1>1, <1>3, <1>4 DEF Closing
<1>12. LocksOwed'
  <2>1. \A d \in Devices : Owed(d)' = IF d = Root THEN Owed(d) + 1 ELSE Owed(d)
    BY <1>0, <1>1, <1>4, OwedParts, HoldersFinite DEF Owed
  <2> QED
    BY <1>0, <1>3, <2>1 DEF LocksOwed, Devices, n
<1> QED
  BY <1>5, <1>7, <1>8, <1>9, <1>10, <1>11, <1>12

LEMMA DeleteControlInv ==
  ASSUME LockInv, DeleteControl
  PROVE  LockInv'
<1> USE DEF LockInv
<1>0. /\ pnp.op = "removeHub" /\ pnp.on = Root /\ Live(Root) /\ control
      /\ Root \in Devices /\ Control \in Devices /\ Root # Control
      /\ Root \notin Tgts /\ Control \notin Tgts /\ Control \notin Filters
      /\ lock[Control].count = 0
      /\ \A p \in Pdos : pdo[p].state = "gone"
  BY FilterAssumption DEF DeleteControl, Live, Devices, Filters, PnpSound
<1> DEFINE z == [count |-> lock[Root].count - 2, removed |-> TRUE]
<1>1. /\ lock' = [lock EXCEPT ![Control] = Unlocked, ![Root] = z]
      /\ control' = FALSE
      /\ UNCHANGED <<pdo, filter, refCount, req, pnp, missed, lost>>
  BY <1>0 DEF DeleteControl
<1>2. \A d \in Devices : /\ Owed(d) = lock[d].count /\ lock[d].count \in Nat
                         /\ Owed(d)' = IF d = Root THEN Owed(d) - 2 ELSE Owed(d)
                         /\ Owed(d)' \in Nat
  <2>1. \A d \in Devices :
          /\ AttachedTo(d)' = AttachedTo(d) /\ HubFilters(pnp.on)' = HubFilters(pnp.on)
          /\ Cardinality(RequestsOn(d)) \in Nat /\ Cardinality(SentBelow(d)) \in Nat
          /\ Cardinality(AttachedTo(d)) \in Nat
    BY <1>1, HoldersFinite DEF AttachedTo, HubFilters, FiltersOn
  <2>2. \A d \in Devices : /\ Owed(d)' = IF d = Root THEN Owed(d) - 2 ELSE Owed(d)
                           /\ Owed(d)' \in Nat
    BY <1>0, <1>1, <2>1, OwedParts DEF Owed
  <2> QED
    BY <2>2 DEF LocksOwed, TypeOK
<1>3. /\ z \in [count : Nat, removed : BOOLEAN] /\ z.count = Owed(Root)' /\ z.removed
      /\ Unlocked \in [count : Nat, removed : BOOLEAN]
      /\ Unlocked.count = 0 /\ ~Unlocked.removed
  BY <1>0, <1>2 DEF Unlocked
<1> HIDE DEF z
<1>4. /\ lock' \in [Devices -> [count : Nat, removed : BOOLEAN]]
      /\ lock'[Root] = z /\ lock'[Control] = Unlocked
      /\ \A d \in Tgts : lock'[d] = lock[d]
  BY <1>0, <1>1, <1>3 DEF TypeOK, Devices
<1>5. TypeOK'
  BY <1>1, <1>4 DEF TypeOK
<1>6. \A d \in Filters : Live(d)' = Live(d)
  BY <1>0, <1>1 DEF Live
<1>7. Idle' /\ Tree'
  BY <1>0, <1>1 DEF Idle, Tree, Live, Filters, Known
<1>8. RootThere' /\ PnpSound' /\ RootHoldsLast'
  BY <1>0, <1>1, <1>6 DEF RootThere, PnpSound, RootHoldsLast, Filters
<1>9. Closing'
  BY <1>0, <1>1, <1>3, <1>4 DEF Closing
<1>10. LocksOwed'
  BY <1>0, <1>2, <1>3, <1>4 DEF LocksOwed, Devices
<1>11. RequestsLive'
  <2>1. Cardinality(RequestsOn(Control)) = 0
    BY <1>0, <1>2, HoldersFinite DEF Owed
  <2>2. RequestsOn(Control) = {}
    BY <2>1, HoldersFinite, FS_EmptySet
  <2>3. \A r \in Reqs : req[r].at # "none" => req[r].on \in Filters
    BY <2>2 DEF RequestsOn, TypeOK, Idle, Devices, Filters
  <2> QED
    BY <1>1, <1>6, <2>3 DEF RequestsLive
<1> QED
  BY <1>5, <1>7, <1>8, <1>9, <1>10, <1>11

LEMMA DeleteHubInv ==
  ASSUME LockInv, DeleteHub
  PROVE  LockInv'
<1> USE DEF LockInv
<1>0. /\ pnp.op = "removeHub" /\ pnp.on = Root /\ Live(Root) /\ ~control
      /\ Root \in Devices /\ Control \in Devices /\ Root # Control /\ Root # NoPdo
      /\ Root \notin Tgts /\ Control \notin Tgts /\ Root \in Filters
      /\ lock[Root].count = 0
      /\ \A p \in Pdos : pdo[p].state = "gone"
  BY FilterAssumption DEF DeleteHub, Live, Devices, Filters, PnpSound
<1>1. /\ filter' = [filter EXCEPT ![Root] = NoFilter]
      /\ lock' = [lock EXCEPT ![Root] = Unlocked]
      /\ refCount' = refCount - 1 /\ pnp' = Quiet
      /\ UNCHANGED <<pdo, control, req, missed, lost>>
  BY DEF DeleteHub, Dereferenced
<1>2. \A f \in Tgts : ~Live(f) /\ filter[f].parent = NoPdo
  <2>1. \A f \in Tgts : ~Live(f)
    BY <1>0 DEF Tree, Known
  <2> QED
    BY <1>0, <2>1, NoFilterData DEF Idle, Live, Filters
<1>3. /\ Unlocked \in [count : Nat, removed : BOOLEAN]
      /\ Unlocked.count = 0 /\ ~Unlocked.removed
      /\ pnp'.op = "none" /\ pnp' \in [op : PnpOps, on : Pdos \cup Filters \cup {NoPdo}]
  BY <1>1 DEF Unlocked, Quiet, PnpOps
<1>4. /\ lock' \in [Devices -> [count : Nat, removed : BOOLEAN]]
      /\ lock'[Root] = Unlocked
      /\ \A d \in Tgts \cup {Control} : lock'[d] = lock[d]
  BY <1>0, <1>1, <1>3 DEF TypeOK, Devices
<1>5. /\ filter' \in [Filters -> FilterData]
      /\ filter'[Root] = NoFilter /\ \A f \in Tgts : filter'[f] = filter[f]
  BY <1>0, <1>1, NoFilterData DEF TypeOK, Filters
<1>6. refCount = 1 /\ RootHoldsLast'
  <2>1. {f \in Filters : Live(f)} = {Root}
    BY <1>0, <1>2 DEF Filters
  <2>2. refCount = 1
    BY <2>1, FS_Singleton DEF RootHoldsLast
  <2>3. {f \in Filters : Live(f)}' = {}
    BY <1>0, <1>2, <1>5, NoFilterData DEF Filters, Live
  <2> QED
    BY <1>1, <2>2, <2>3, FS_EmptySet DEF RootHoldsLast
<1>7. TypeOK'
  BY <1>1, <1>3, <1>4, <1>5, <1>6 DEF TypeOK
<1>8. Idle'
  BY <1>0, <1>1, <1>5, NoFilterData DEF Idle, Filters
<1>9. Tree' /\ RootThere' /\ PnpSound'
  <2>1. ~Live(Root)' /\ \A f \in Tgts : ~Live(f)'
    BY <1>0, <1>2, <1>5, NoFilterData DEF Live
  <2> QED
    BY <1>0, <1>1, <1>3, <2>1 DEF Tree, RootThere, PnpSound
<1>10. Closing'
  BY <1>0, <1>1, <1>3, <1>4 DEF Closing
<1>11. RequestsOn(Root) = {}
  <2>1. Cardinality(RequestsOn(Root)) = 0
    BY <1>0, HoldersFinite DEF Owed, LocksOwed
  <2> QED
    BY <2>1, HoldersFinite, FS_EmptySet
<1>12. RequestsLive'
  <2>1. \A r \in Reqs : req[r].at # "none" => req[r].on # Root
    BY <1>11 DEF RequestsOn
  <2> QED
    BY <1>0, <1>1, <1>5, <2>1 DEF RequestsLive, Live, TypeOK, Devices, Idle
<1>13. LocksOwed'
  <2>1. \A d \in Devices : AttachedTo(d) = {} /\ AttachedTo(d)' = {}
    BY <1>2, <1>5, FilterAssumption DEF AttachedTo
  <2>2. \A d \in Devices : Owed(d)' = Owed(d)
    BY <1>0, <1>1, <1>3, <2>1, OwedParts DEF Owed
  <2> QED
    BY <1>0, <1>3, <1>4, <2>2 DEF LocksOwed, Devices
<1> QED
  BY <1>6, <1>7, <1>8, <1>9, <1>10, <1>12, <1>13
-----------------------------------------------------------------------------
(* A target starts, its hub is asked for its children, it is removed. *)

(* A filter that starts differs from what it was in its state and isHub.   *)
LEMMA StartedData ==
  ASSUME NEW x \in FilterData, NEW b \in BOOLEAN, NEW y,
         y = [x EXCEPT !.state = "started", !.hub = b]
  PROVE  /\ y \in FilterData /\ y.state = "started" /\ y.hub = b
         /\ y.pdo = x.pdo /\ y.parent = x.parent /\ y.children = x.children
BY DEF FilterData

LEMMA StartDeviceInv ==
  ASSUME LockInv, NEW p \in Pdos, NEW told, StartDevice(p, told)
  PROVE  LockInv'
<1> USE DEF LockInv
<1>0. /\ pnp = Quiet /\ pnp.op = "none" /\ Root \notin Tgts /\ Root \in Filters
      /\ Control \notin Filters /\ \A f \in Tgts : f \in Filters
      /\ UNCHANGED <<pdo, control, lock, refCount, req, pnp, missed, lost>>
  BY FilterAssumption DEF StartDevice, Quiet, Devices, Filters
<1>1. filter' \in [Filters -> FilterData]
  <2>1. \A f \in Filters : filter[f] \in FilterData
    BY DEF TypeOK
  <2>2. \A f \in Filters : [filter[f] EXCEPT !.state = "started",
                                 !.hub = p \in Hubs /\ f \in told] \in FilterData
    BY <2>1, StartedData
  <2> QED
    BY <2>1, <2>2 DEF StartDevice
<1>2. /\ filter'[Root] = filter[Root]
      /\ \A f \in Tgts :
           /\ filter'[f].pdo = filter[f].pdo /\ filter'[f].parent = filter[f].parent
           /\ filter'[f].children = filter[f].children
           /\ \/ filter'[f] = filter[f]
              \/ filter[f].state = "attached" /\ filter'[f].state = "started"
                 /\ filter[f].hub = FALSE
  <2>1. filter'[Root] = filter[Root]
    BY <1>0 DEF StartDevice, FiltersOn
  <2>2. ASSUME NEW f \in Tgts
        PROVE  /\ filter'[f].pdo = filter[f].pdo
               /\ filter'[f].parent = filter[f].parent
               /\ filter'[f].children = filter[f].children
               /\ \/ filter'[f] = filter[f]
                  \/ filter[f].state = "attached" /\ filter'[f].state = "started"
                     /\ filter[f].hub = FALSE
    <3>1. filter[f] \in FilterData /\ f \in Filters
      BY <1>0 DEF TypeOK
    <3>2. CASE filter'[f] = filter[f]
      BY <3>2
    <3>3. CASE filter[f].state = "attached" /\ filter'[f] =
                 [filter[f] EXCEPT !.state = "started", !.hub = p \in Hubs /\ f \in told]
      BY <3>1, <3>3 DEF FilterData, Idle
    <3> QED
      BY <3>1, <3>2, <3>3 DEF StartDevice
  <2> QED
    BY <2>1, <2>2
<1>3. TypeOK'
  BY <1>0, <1>1 DEF TypeOK
<1>4. Idle'
  BY <1>0, <1>2, NoFilterData DEF Idle, Filters
<1>5. \A d \in Devices : Live(d)' = Live(d)
  BY <1>0, <1>2 DEF Live, Devices
<1>6. \A h : FiltersOn(h)' = FiltersOn(h) /\ HubFilters(h) \subseteq HubFilters(h)'
  BY <1>2 DEF FiltersOn, HubFilters
<1>7. Tree'
  BY <1>0, <1>2, <1>5, <1>6 DEF Tree, Devices
<1>8. RootThere' /\ PnpSound' /\ Closing'
  BY <1>0, <1>5 DEF RootThere, PnpSound, Closing, Devices
<1>9. RequestsLive' /\ RootHoldsLast'
  BY <1>0, <1>5, FilterAssumption
     DEF RequestsLive, RootHoldsLast, TypeOK, Idle, Devices, Filters
<1>10. LocksOwed'
  <2>1. \A d : AttachedTo(d)' = AttachedTo(d)
    BY <1>0, <1>2 DEF AttachedTo
  <2> QED
    BY <1>0, <2>1, OwedParts DEF Owed, LocksOwed
<1> QED
  BY <1>3, <1>4, <1>7, <1>8, <1>9, <1>10

(* The query of hub h begins or fails: its filters hold their locks twice  *)
(* more, or give them back.                                                *)
LEMMA QueryInv ==
  ASSUME LockInv, NEW h \in Pdos \cup {Root}, QueryForward(h) \/ QueryFailed(h)
  PROVE  LockInv'
<1> USE DEF LockInv
<1> DEFINE by == IF pnp = Quiet THEN 2 ELSE 0 - 2
           n(d) == IF d \in HubFilters(h) THEN lock[d].count + by ELSE lock[d].count
<1>0. /\ UNCHANGED <<pdo, filter, control, refCount, req, missed, lost>>
      /\ lock' = [d \in Devices |-> [lock[d] EXCEPT !.count = n(d)]]
      /\ \/ pnp = Quiet /\ pnp' = [op |-> "query", on |-> h] /\ HubWorks(h)
         \/ pnp # Quiet /\ pnp = [op |-> "query", on |-> h] /\ pnp' = Quiet
  <2>1. [op |-> "query", on |-> h] # Quiet
    BY DEF Quiet
  <2>2. \A d \in Devices : lock[d].count \in Nat
    BY DEF TypeOK
  <2>3. CASE QueryForward(h)
    BY <2>3 DEF QueryForward
  <2>4. CASE QueryFailed(h)
    <3>1. pnp # Quiet /\ pnp = [op |-> "query", on |-> h] /\ pnp' = Quiet
      BY <2>1, <2>4 DEF QueryFailed
    <3>2. \A d \in Devices :
            n(d) = IF d \in HubFilters(h) THEN lock[d].count - 2 ELSE lock[d].count
      BY <2>2, <3>1
    <3>3. lock' = [d \in Devices |-> [lock[d] EXCEPT !.count =
             IF d \in HubFilters(h) THEN lock[d].count - 2 ELSE lock[d].count]]
      BY <2>4 DEF QueryFailed
    <3> HIDE DEF n
    <3> QED
      BY <2>4, <3>1, <3>2, <3>3 DEF QueryFailed
  <2> QED
    BY <2>3, <2>4
<1>1. /\ pnp.op \in {"none", "query"} /\ pnp'.op \in {"none", "query"}
      /\ pnp.op = "none" <=> pnp = Quiet
      /\ pnp'.op = "none" <=> pnp # Quiet
      /\ pnp.op = "query" => pnp.on = h
      /\ pnp'.op = "query" => pnp'.on = h /\ (h \in Hubs \/ (h = Root /\ Live(Root)))
      /\ pnp'.op = "none" => pnp' = Quiet
      /\ pnp' \in [op : PnpOps, on : Pdos \cup Filters \cup {NoPdo}]
  <2>1. HubWorks(h) => h \in Hubs \/ (h = Root /\ Live(Root))
    BY FilterAssumption DEF HubWorks, Live
  <2> HIDE DEF n
  <2> QED
    BY <1>0, <2>1 DEF Quiet, PnpOps, Filters
<1>2. \A d \in Devices : Owed(d)' = n(d) /\ n(d) \in Nat
  <2> TAKE d \in Devices
  <2>1. /\ lock[d].count = Owed(d) /\ lock[d].count \in Nat
        /\ Cardinality(RequestsOn(d)) \in Nat /\ Cardinality(SentBelow(d)) \in Nat
        /\ Cardinality(AttachedTo(d)) \in Nat
    BY HoldersFinite DEF LocksOwed, TypeOK
  <2>2. HubFilters(h)' = HubFilters(h)
    BY <1>0 DEF HubFilters, FiltersOn
  <2>3. AttachedTo(d)' = AttachedTo(d)
    BY <1>0, <1>1, OwedParts
  <2>4. CASE pnp = Quiet
    BY <1>0, <1>1, <2>1, <2>2, <2>3, <2>4, OwedParts DEF Owed
  <2>5. CASE pnp # Quiet
    BY <1>0, <1>1, <2>1, <2>2, <2>3, <2>5, OwedParts DEF Owed
  <2> QED
    BY <2>4, <2>5
<1> HIDE DEF n
<1>3. \A d \in Devices : /\ lock'[d] \in [count : Nat, removed : BOOLEAN]
                         /\ lock'[d].count = n(d) /\ lock'[d].removed = lock[d].removed
  <2>1. \A d \in Devices : lock[d] \in [count : Nat, removed : BOOLEAN]
    BY DEF TypeOK
  <2> QED
    BY <1>0, <1>2, <2>1
<1>4. lock' \in [Devices -> [count : Nat, removed : BOOLEAN]]
  BY <1>0, <1>3
<1>5. TypeOK'
  BY <1>0, <1>1, <1>4 DEF TypeOK
<1>6. \A d : Live(d)' = Live(d)
  BY <1>0 DEF Live
<1>7. Idle' /\ Tree'
  BY <1>0, <1>1 DEF Idle, Tree, Live, HubFilters, FiltersOn
<1>8. RootThere' /\ PnpSound' /\ RequestsLive' /\ RootHoldsLast'
  BY <1>0, <1>1, <1>6 DEF RootThere, PnpSound, RequestsLive, RootHoldsLast
<1>9. Closing'
  BY <1>0, <1>1, <1>3 DEF Closing, Devices
<1>10. LocksOwed'
  BY <1>2, <1>3 DEF LocksOwed
<1> QED
  BY <1>5, <1>7, <1>8, <1>9, <1>10

LEMMA RemoveDeviceInv ==
  ASSUME LockInv, NEW f \in Tgts, RemoveDevice(f)
  PROVE  LockInv'
<1> USE DEF LockInv
<1>0. /\ Live(f) /\ pnp.op \in {"none", "next"} /\ Leaf(filter[f].pdo)
      /\ lock' = [lock EXCEPT ![f].removed = TRUE]
      /\ pnp' = [op |-> "remove", on |-> f]
      /\ pnp'.op = "remove" /\ pnp'.on = f
      /\ UNCHANGED <<pdo, filter, control, refCount, req, missed, lost>>
      /\ f \in Devices /\ f # Root /\ f # Control
      /\ Root \in Devices /\ Control \in Devices
  <2>1. Leaf(filter[f].pdo)
    BY DEF RemoveDevice, Removable, Leaf, PnpSound
  <2>2. pnp.op \in {"none", "next"}
    BY DEF RemoveDevice, Quiet
  <2> QED
    BY <2>1, <2>2, FilterAssumption DEF RemoveDevice, Live, Devices
<1>1. /\ lock' \in [Devices -> [count : Nat, removed : BOOLEAN]]
      /\ lock'[f].removed
      /\ \A d \in Devices : /\ lock'[d].count = lock[d].count
                            /\ d # f => lock'[d].removed = lock[d].removed
  BY <1>0 DEF TypeOK
<1>2. TypeOK'
  BY <1>0, <1>1 DEF TypeOK, PnpOps, Filters
<1>3. \A d : Live(d)' = Live(d)
  BY <1>0 DEF Live
<1>4. Idle' /\ Tree'
  BY <1>0 DEF Idle, Tree, Live, HubFilters, FiltersOn
<1>5. RootThere' /\ RequestsLive' /\ RootHoldsLast'
  BY <1>0, <1>3 DEF RootThere, RequestsLive, RootHoldsLast
<1>6. PnpSound'
  BY <1>0, <1>1, <1>3 DEF PnpSound, Leaf
<1>7. Closing'
  BY <1>0, <1>1 DEF Closing, Devices
<1>8. LocksOwed'
  <2>1. \A d : AttachedTo(d)' = AttachedTo(d)
    BY <1>0, OwedParts
  <2> QED
    BY <1>0, <1>1, <2>1, OwedParts DEF LocksOwed, Owed
<1> QED
  BY <1>2, <1>4, <1>5, <1>6, <1>7, <1>8

(* The device of a filter that is being removed is a leaf, so that no      *)
(* filter is attached to this one; its own parent is another one.          *)
LEMMA Childless ==
  ASSUME LockInv, NEW f \in Tgts, pnp.op \in {"remove", "delete"}, pnp.on = f
  PROVE  /\ filter[f].pdo \in Pdos /\ Leaf(filter[f].pdo)
         /\ \A g \in Tgts : filter[g].parent # f
         /\ filter[f].parent \in Filters /\ filter[f].parent # f
         /\ Live(f) /\ Live(Root) /\ f # NoPdo /\ filter[f].state # "none"
<1> USE DEF LockInv
<1>0. f # NoPdo /\ f # Root /\ f # Control /\ f \in Filters
  BY FilterAssumption DEF Devices, Filters
<1>1. Live(f) /\ Leaf(filter[f].pdo) /\ filter[f].pdo \in Pdos
  BY DEF PnpSound, Tree
<1>2. ASSUME NEW g \in Tgts, filter[g].parent = f
      PROVE  FALSE
  <2>1. Live(g) /\ g \in Filters
    BY <1>0, <1>2, NoFilterData, FilterAssumption DEF Idle, Live, Filters
  <2>2. filter[g].pdo \in Pdos /\ f \in HubFilters(pdo[filter[g].pdo].hub)
    BY <1>2, <2>1 DEF Tree
  <2>3. pdo[filter[g].pdo].hub = filter[f].pdo
    BY <1>0, <2>2 DEF HubFilters, FiltersOn
  <2> QED
    BY <1>1, <2>2, <2>3 DEF Leaf
<1>3. filter[f].parent \in HubFilters(pdo[filter[f].pdo].hub)
  BY <1>1 DEF Tree
<1>4. filter[f].parent \in Filters
  BY <1>3 DEF HubFilters, FiltersOn, Filters
<1>5. Live(Root)
  BY <1>1 DEF RootThere, Leaf
<1> QED
  BY <1>0, <1>1, <1>2, <1>4, <1>5 DEF Live

LEMMA DetachTgtInv ==
  ASSUME LockInv, NEW f \in Tgts, DetachTgt(f)
  PROVE  LockInv'
<1> USE DEF LockInv
<1>a. PICK par : par = filter[f].parent
  OBVIOUS
<1> DEFINE n == lock[par].count - 1
<1>0. /\ pnp = [op |-> "remove", on |-> f] /\ pnp.op = "remove" /\ pnp.on = f
      /\ pnp' = [op |-> "delete", on |-> f] /\ pnp'.op = "delete" /\ pnp'.on = f
      /\ lock' = [lock EXCEPT ![par].count = n]
      /\ lock[f].count = 0
      /\ UNCHANGED <<pdo, filter, control, refCount, req, missed, lost>>
  BY <1>a DEF DetachTgt, Release
<1>1. /\ \A g \in Tgts : filter[g].parent # f
      /\ par \in Filters /\ par # f /\ Live(f) /\ Leaf(filter[f].pdo)
  BY <1>a, <1>0, Childless
<1>2. par \in Devices /\ f \in Devices /\ f # Root /\ f # Control /\ par # Control
  BY <1>1, FilterAssumption DEF Devices, Filters
<1>3. RequestsOn(f) = {}
  <2>1. Cardinality(RequestsOn(f)) = 0
    BY <1>0, <1>2, HoldersFinite DEF Owed, LocksOwed
  <2> QED
    BY <2>1, HoldersFinite, FS_EmptySet
<1>4. \A d \in Devices : /\ Owed(d)' = IF d = par THEN Owed(d) - 1 ELSE Owed(d)
                         /\ Owed(d)' \in Nat
  <2> TAKE d \in Devices
  <2>1. AttachedTo(d)' \ {f} = AttachedTo(d) \ {f}
    BY <1>0 DEF AttachedTo
  <2>2. f \notin AttachedTo(d)' /\ (f \in AttachedTo(d) <=> d = par)
    BY <1>a, <1>0 DEF AttachedTo
  <2>3. /\ Cardinality(AttachedTo(d)) \in Nat /\ Cardinality(AttachedTo(d)') \in Nat
        /\ Cardinality(AttachedTo(d)') = Cardinality(AttachedTo(d))
                                           + 0 - (IF d = par THEN 1 ELSE 0)
    BY <2>1, <2>2, Recount, HoldersFinite
  <2>4. HubFilters(pnp.on)' = HubFilters(pnp.on)
    BY <1>0 DEF HubFilters, FiltersOn
  <2> QED
    BY <1>0, <2>3, <2>4, OwedParts, HoldersFinite DEF Owed
<1>5. lock[par].count = Owed(par) /\ n = Owed(par)' /\ n \in Nat
  BY <1>2, <1>4 DEF LocksOwed, TypeOK
<1> HIDE DEF n
<1>6. /\ lock' \in [Devices -> [count : Nat, removed : BOOLEAN]]
      /\ \A d \in Devices : /\ lock'[d].removed = lock[d].removed
                            /\ lock'[d].count = IF d = par THEN n ELSE lock[d].count
  BY <1>0, <1>2, <1>5 DEF TypeOK
<1>7. TypeOK'
  BY <1>0, <1>6 DEF TypeOK, PnpOps, Filters
<1>8. \A d : Live(d)' = Live(d)
  BY <1>0 DEF Live
<1>9. Idle' /\ Tree'
  BY <1>0 DEF Idle, Tree, Live, HubFilters, FiltersOn
<1>10. RootThere' /\ RequestsLive' /\ RootHoldsLast'
  BY <1>0, <1>8 DEF RootThere, RequestsLive, RootHoldsLast
<1>11. PnpSound'
  <2>1. RequestsOn(f)' = {}
    BY <1>0, <1>3, OwedParts
  <2> QED
    BY <1>0, <1>1, <1>2, <1>6, <1>8, <2>1 DEF PnpSound, Leaf
<1>12. Closing'
  BY <1>0, <1>6 DEF Closing, Devices
<1>13. LocksOwed'
  BY <1>4, <1>5, <1>6 DEF LocksOwed
<1> QED
  BY <1>7, <1>9, <1>10, <1>11, <1>12, <1>13

LEMMA DeleteTgtInv ==
  ASSUME LockInv, NEW f \in Tgts, DeleteTgt(f)
  PROVE  LockInv'
<1> USE DEF LockInv
<1>a. PICK p : p = filter[f].pdo
  OBVIOUS
<1>b. PICK last \in BOOLEAN : last <=> FiltersOn(p) = {f}
  OBVIOUS
<1>0. /\ pnp.op = "delete" /\ pnp.on = f /\ pnp = [op |-> "delete", on |-> f]
      /\ filter' = [filter EXCEPT ![f] = NoFilter]
      /\ lock' = [lock EXCEPT ![f] = Unlocked]
      /\ refCount' = refCount - 1
      /\ pdo' = IF last THEN [pdo EXCEPT ![p] = NoDevice] ELSE pdo
      /\ pnp' = IF last THEN Quiet ELSE [op |-> "next", on |-> p]
      /\ missed' \subseteq missed /\ lost' \subseteq lost
      /\ UNCHANGED <<control, req>>
  BY <1>a, <1>b DEF DeleteTgt, Dereferenced
<1>1. /\ \A g \in Tgts : filter[g].parent # f
      /\ Live(f) /\ Live(Root) /\ Leaf(p) /\ p \in Pdos /\ f # NoPdo
      /\ f \in FiltersOn(p) /\ filter[f].state # "none"
  BY <1>a, <1>0, Childless DEF FiltersOn
<1>2. /\ f \in Devices /\ f \in Filters /\ f # Root /\ f # Control /\ Root \in Filters
      /\ Root \in Devices /\ Control \in Devices /\ Control \notin Filters
      /\ Root # Control /\ p # NoPdo
  BY <1>1, FilterAssumption DEF Devices, Filters
<1>3. /\ Unlocked \in [count : Nat, removed : BOOLEAN]
      /\ Unlocked.count = 0 /\ ~Unlocked.removed
      /\ NoDevice \in [state : PdoStates, hub : Pdos \cup {Root, NoPdo}]
      /\ NoDevice.state = "gone" /\ NoDevice.hub = NoPdo
      /\ last => pnp'.op = "none" /\ pnp' = Quiet
      /\ ~last => pnp'.op = "next" /\ pnp'.on = p
      /\ pnp' \in [op : PnpOps, on : Pdos \cup Filters \cup {NoPdo}]
  BY <1>0, <1>1 DEF Unlocked, NoDevice, PdoStates, Quiet, PnpOps
<1>4. /\ lock' \in [Devices -> [count : Nat, removed : BOOLEAN]]
      /\ lock'[f] = Unlocked /\ \A d \in Devices : d # f => lock'[d] = lock[d]
  BY <1>0, <1>2, <1>3 DEF TypeOK
<1>5. /\ filter' \in [Filters -> FilterData]
      /\ filter'[f] = NoFilter /\ \A g \in Filters : g # f => filter'[g] = filter[g]
  BY <1>0, <1>2, NoFilterData DEF TypeOK
<1>6. /\ pdo' \in [Pdos -> [state : PdoStates, hub : Pdos \cup {Root, NoPdo}]]
      /\ last => pdo'[p] = NoDevice
      /\ \A q \in Pdos : (q # p \/ ~last) => pdo'[q] = pdo[q]
  BY <1>0, <1>1, <1>3 DEF TypeOK
<1>7. /\ ~Live(f)' /\ \A d \in Devices : d # f => Live(d)' = Live(d)
  BY <1>0, <1>2, <1>5, NoFilterData DEF Live, Devices, Filters
<1>8. RootHoldsLast' /\ refCount' \in Nat
  <2> DEFINE L == {g \in Filters : Live(g)}
             M == {g \in Filters : Live(g)'}
  <2>1. M = L \ {f} /\ f \in L
    BY <1>1, <1>2, <1>7 DEF Devices, Filters
  <2>2. IsFiniteSet(L)
    <3>1. IsFiniteSet(Filters)
      BY FilterAssumption, FS_AddElement DEF Filters
    <3> QED
      BY <3>1, FS_Subset
  <2> HIDE DEF L, M
  <2>3. Cardinality(M) = Cardinality(L) - 1 /\ Cardinality(M) \in Nat
    BY <2>1, <2>2, FS_RemoveElement, FS_CardinalityType
  <2>4. refCount' = Cardinality(M)
    BY <1>0, <2>3 DEF RootHoldsLast, L
  <2> QED
    BY <1>1, <1>2, <1>7, <2>3, <2>4 DEF RootHoldsLast, M
<1>9. TypeOK'
  BY <1>0, <1>3, <1>4, <1>5, <1>6, <1>8 DEF TypeOK
<1>10. Idle'
  BY <1>0, <1>2, <1>5, <1>6, <1>3, NoFilterData DEF Idle, Filters
<1>11. \A h : HubFilters(h)' \cup {f} = HubFilters(h) \cup {f}
  BY <1>2, <1>5, NoFilterData DEF HubFilters, FiltersOn, Filters
<1>12. Tree'
  <2>1. ASSUME NEW q \in Pdos, pdo'[q].state # "gone"
        PROVE  \/ pdo'[q].hub = Root /\ Live(Root)' /\ pnp'.op # "removeHub"
               \/ pdo'[q].hub \in Hubs /\ pdo'[pdo'[q].hub].state \in Known
    <3>1. pdo'[q] = pdo[q]
      BY <1>3, <1>6, <2>1
    <3>2. pdo[q].hub # p
      BY <1>1 DEF Leaf
    <3> QED
      BY <1>2, <1>3, <1>6, <1>7, <2>1, <3>1, <3>2, FilterAssumption DEF Tree
  <2>2. ASSUME NEW g \in Tgts, Live(g)'
        PROVE  (/\ filter[g].pdo \in Pdos /\ pdo[filter[g].pdo].state \in Known
                /\ filter[g].parent \in HubFilters(pdo[filter[g].pdo].hub))'
    <3>1. g # f /\ Live(g) /\ filter'[g] = filter[g]
      BY <1>5, <1>7, <2>2 DEF Devices, Filters
    <3>2. /\ filter[g].pdo \in Pdos /\ pdo[filter[g].pdo].state \in Known
          /\ filter[g].parent \in HubFilters(pdo[filter[g].pdo].hub)
      BY <3>1 DEF Tree
    <3>3. last => filter[g].pdo # p
      BY <1>b, <3>1 DEF FiltersOn
    <3>4. pdo'[filter[g].pdo] = pdo[filter[g].pdo]
      BY <1>6, <3>2, <3>3
    <3>5. filter[g].parent # f
      BY <1>1
    <3>6. PICK q \in Pdos, k \in Pdos \cup {Root, NoPdo} : q = filter[g].pdo /\ k = pdo[q].hub
      BY <3>2 DEF TypeOK
    <3>7. /\ filter'[g].pdo = q /\ pdo'[q].hub = k /\ pdo'[q].state \in Known
          /\ filter'[g].parent \in HubFilters(k)'
      BY <1>11, <3>1, <3>2, <3>4, <3>5, <3>6
    <3> QED
      BY <3>7 DEF HubFilters, FiltersOn
  <2> QED
    BY <2>1, <2>2 DEF Tree
<1>13. RootThere'
  BY <1>0, <1>1, <1>2, <1>7, <1>3 DEF RootThere
<1>14. PnpSound'
  <2>1. ASSUME ~last PROVE FiltersOn(p)' # {} /\ Leaf(p)'
    <3>1. PICK g \in FiltersOn(p) : g # f
      BY <1>b, <1>1, <2>1
    <3>2. g \in FiltersOn(p)'
      BY <1>5, <3>1 DEF FiltersOn, Filters
    <3> QED
      BY <1>1, <1>6, <2>1, <3>2 DEF Leaf
  <2> QED
    BY <1>1, <1>3, <2>1 DEF PnpSound
<1>15. Closing'
  BY <1>0, <1>2, <1>3, <1>4 DEF Closing, Devices
<1>16. RequestsLive'
  <2>1. \A r \in Reqs : req[r].on # f
    BY <1>0 DEF PnpSound, RequestsOn
  <2> QED
    BY <1>0, <1>7, <2>1 DEF RequestsLive, TypeOK, Idle
<1>17. LocksOwed'
  <2>1. \A d \in Devices : AttachedTo(d)' = AttachedTo(d)
    <3>1. \A g : pnp' # [op |-> "delete", on |-> g]
      BY <1>3
    <3>2. \A g \in Tgts : g # f => pnp # [op |-> "delete", on |-> g]
      BY <1>0
    <3>3. filter'[f].parent = NoPdo /\ NoPdo \notin Devices
      BY <1>5, NoFilterData, FilterAssumption
    <3> QED
      BY <1>0, <1>5, <3>1, <3>2, <3>3 DEF AttachedTo, Filters
  <2>2. \A d \in Devices : Owed(d)' = Owed(d)
    BY <1>0, <1>3, <2>1, OwedParts DEF Owed
  <2>3. Owed(f) = 0
    <3>1. RequestsOn(f) = {} /\ SentBelow(f) = {}
      BY <1>0 DEF PnpSound, RequestsOn, SentBelow
    <3>2. AttachedTo(f) = {}
      BY <1>1 DEF AttachedTo
    <3> QED
      BY <1>0, <1>2, <3>1, <3>2, FS_EmptySet DEF Owed
  <2> QED
    BY <1>2, <1>3, <1>4, <2>2, <2>3 DEF LocksOwed
<1> QED
  BY <1>8, <1>9, <1>10, <1>12, <1>13, <1>14, <1>15, <1>16, <1>17
-----------------------------------------------------------------------------
(* The answer to a query: filters are attached to the new children. *)

(* Each c of new, a filter of hub h and a device, has got the filter       *)
(* put[c]; the other filters changed in their lists of children only.      *)
Grown(h, failed, forgot, new, put) ==
  /\ new = ToAttach(h) \ failed
  /\ put \in Injection(new, {g \in Tgts : filter[g] = NoFilter})
  /\ filter' \in [Filters -> FilterData]
  /\ \A c \in new : /\ filter'[put[c]].state = "attached"
                    /\ filter'[put[c]].parent = c[1] /\ filter'[put[c]].pdo = c[2]
                    /\ filter'[put[c]].hub = FALSE /\ filter'[put[c]].children = {}
  /\ \A g \in Filters : (\A c \in new : put[c] # g) =>
       /\ filter'[g].state = filter[g].state /\ filter'[g].pdo = filter[g].pdo
       /\ filter'[g].parent = filter[g].parent /\ filter'[g].hub = filter[g].hub
       /\ filter'[g].children = IF g \in HubFilters(h) THEN Remembered(g, h, forgot)
                                                       ELSE filter[g].children
       /\ g \notin HubFilters(h) => filter'[g] = filter[g]

(* The pairs of a hub filter and a device are finitely many.               *)
LEMMA ToAttachFinite ==
  ASSUME NEW h, NEW failed
  PROVE  /\ IsFiniteSet(ToAttach(h) \ failed)
         /\ Cardinality(ToAttach(h) \ failed) \in Nat
         /\ HubFilters(h) \in SUBSET Filters /\ Present(h) \in SUBSET Pdos
         /\ IsFiniteSet(Filters)
<1>1. HubFilters(h) \in SUBSET Filters /\ Present(h) \in SUBSET Pdos
  BY DEF HubFilters, FiltersOn, Present, OnHub, Filters
<1>2. IsFiniteSet(Filters)
  BY FilterAssumption, FS_AddElement DEF Filters
<1>3. IsFiniteSet(HubFilters(h)) /\ IsFiniteSet(Present(h))
  BY <1>1, <1>2, FilterAssumption, FS_Subset
<1>4. IsFiniteSet(HubFilters(h) \X Present(h))
  BY <1>3, FS_Product
<1>5. (ToAttach(h) \ failed) \in SUBSET (HubFilters(h) \X Present(h))
  BY DEF ToAttach
<1> QED
  BY <1>1, <1>2, <1>4, <1>5, FS_Subset, FS_CardinalityType

(* A new target filter.                                                    *)
NewTgt(f, p) == [NoFilter EXCEPT !.state = "attached", !.parent = f, !.pdo = p]

LEMMA AttachedData ==
  ASSUME NEW f \in Filters, NEW p \in Pdos
  PROVE  LET y == NewTgt(f, p) IN
         /\ y \in FilterData /\ y.state = "attached" /\ y.parent = f /\ y.pdo = p
         /\ ~y.hub /\ y.children = {}
BY NoFilterData DEF FilterData, NewTgt

(* A hub filter with another list of children.                             *)
LEMMA RememberedData ==
  ASSUME NEW x \in FilterData, NEW S \in SUBSET Pdos, NEW y,
         y = [x EXCEPT !.children = S]
  PROVE  /\ y \in FilterData /\ y.children = S /\ y.state = x.state
         /\ y.pdo = x.pdo /\ y.parent = x.parent /\ y.hub = x.hub
BY DEF FilterData

LEMMA QueryShape ==
  ASSUME LockInv, NEW h \in Pdos \cup {Root}, NEW failed, NEW forgot,
         QueryDone(h, failed, forgot)
  PROVE  \E new, put : Grown(h, failed, forgot, new, put)
<1> USE DEF LockInv
<1>a. PICK new : new = ToAttach(h) \ failed
  OBVIOUS
<1>b. PICK free : free = {g \in Tgts : filter[g] = NoFilter}
  OBVIOUS
<1>c. PICK put : put = CHOOSE i \in Injection(new, free) : TRUE
  OBVIOUS
<1>1. put \in Injection(new, free)
  <2>1. IsFiniteSet(new) /\ IsFiniteSet(free)
    BY <1>a, <1>b, ToAttachFinite, FilterAssumption, FS_Subset
  <2>2. Cardinality(new) <= Cardinality(free)
    BY <1>a, <1>b DEF QueryDone
  <2>3. \E i : i \in Injection(new, free)
    BY <2>1, <2>2, Fits
  <2> QED
    BY <1>c, <2>3
<1>2. put \in [new -> free] /\ \A c, e \in new : put[c] = put[e] => c = e
  BY <1>1 DEF Injection, IsInjective
<1>3. \A c \in new : /\ c[1] \in HubFilters(h) /\ c[2] \in Present(h)
                     /\ c[1] \in Filters /\ c[2] \in Pdos
  BY <1>a, ToAttachFinite DEF ToAttach
<1> DEFINE all(f) == IF f = Root THEN filter[Root] ELSE Attached(new, put)[f]
<1>4. filter' = [f \in Filters |->
         IF f \in HubFilters(h)
         THEN [all(f) EXCEPT !.children = Remembered(f, h, forgot)] ELSE all(f)]
  <2> DEFINE al == [f \in Filters |-> IF f = Root THEN filter[Root]
                                      ELSE Attached(new, put)[f]]
  <2>1. filter' = [f \in Filters |->
         IF f \in HubFilters(h)
         THEN [al[f] EXCEPT !.children = Remembered(f, h, forgot)] ELSE al[f]]
    BY <1>a, <1>b, <1>c DEF QueryDone
  <2>2. \A f \in Filters : al[f] = all(f)
    OBVIOUS
  <2> HIDE DEF al, all
  <2> QED
    BY <2>1, <2>2
<1>5. ASSUME NEW c \in new
      PROVE  /\ put[c] \in Tgts /\ put[c] \in Filters /\ put[c] # Root
             /\ put[c] \notin HubFilters(h)
             /\ all(put[c]) = [NoFilter EXCEPT !.state = "attached",
                                               !.parent = c[1], !.pdo = c[2]]
  <2>1. /\ put[c] \in Tgts /\ put[c] \in Filters /\ put[c] # Root
        /\ filter[put[c]] = NoFilter
    BY <1>b, <1>2, FilterAssumption DEF Filters
  <2>2. put[c] \notin HubFilters(h)
    BY <2>1, NoFilterData DEF HubFilters
  <2>3. (CHOOSE e \in new : put[e] = put[c]) = c
    BY <1>2
  <2>4. Attached(new, put)[put[c]] =
          LET e == CHOOSE e \in new : put[e] = put[c] IN
          [NoFilter EXCEPT !.state = "attached", !.parent = e[1], !.pdo = e[2]]
    BY <2>1 DEF Attached
  <2> QED
    BY <2>1, <2>2, <2>3, <2>4
<1>6. ASSUME NEW g \in Filters, \A c \in new : put[c] # g
      PROVE  all(g) = filter[g]
  BY <1>6 DEF Attached, Filters
<1>7. \A f : Remembered(f, h, forgot) \in SUBSET Pdos
  BY ToAttachFinite DEF Remembered
<1> HIDE DEF all
<1>8. ASSUME NEW c \in new
      PROVE  LET y == filter'[put[c]] IN
             /\ y \in FilterData /\ y.state = "attached"
             /\ y.parent = c[1] /\ y.pdo = c[2] /\ ~y.hub /\ y.children = {}
  <2>1. PICK f \in Filters, p \in Pdos : f = c[1] /\ p = c[2]
    BY <1>3
  <2>2. filter'[put[c]] = NewTgt(f, p)
    BY <1>4, <1>5, <2>1 DEF NewTgt
  <2> QED
    BY <2>1, <2>2, AttachedData
<1>9. ASSUME NEW g \in Filters, \A c \in new : put[c] # g
      PROVE  /\ filter'[g] \in FilterData
             /\ filter'[g].state = filter[g].state /\ filter'[g].pdo = filter[g].pdo
             /\ filter'[g].parent = filter[g].parent /\ filter'[g].hub = filter[g].hub
             /\ filter'[g].children = IF g \in HubFilters(h) THEN Remembered(g, h, forgot)
                                                             ELSE filter[g].children
             /\ g \notin HubFilters(h) => filter'[g] = filter[g]
  <2>1. filter[g] \in FilterData /\ all(g) = filter[g]
    BY <1>6, <1>9 DEF TypeOK
  <2>2. CASE g \in HubFilters(h)
    <3>1. filter'[g] = [filter[g] EXCEPT !.children = Remembered(g, h, forgot)]
      BY <1>4, <2>1, <2>2
    <3> QED
      BY <1>7, <2>1, <2>2, <3>1, RememberedData
  <2>3. CASE g \notin HubFilters(h)
    BY <1>4, <2>1, <2>3
  <2> QED
    BY <2>2, <2>3
<1>10. filter' \in [Filters -> FilterData]
  <2>1. \A g \in Filters : filter'[g] \in FilterData
    BY <1>8, <1>9
  <2> QED
    BY <1>4, <2>1
<1>11. Grown(h, failed, forgot, new, put)
  BY <1>a, <1>b, <1>1, <1>8, <1>9, <1>10 DEF Grown
<1> QED
  BY <1>11

(* The filters put[c] were free, so nobody was attached to them.           *)
LEMMA GrownFacts ==
  ASSUME LockInv, NEW h \in Pdos \cup {Root}, NEW failed, NEW forgot, NEW new, NEW put,
         Grown(h, failed, forgot, new, put)
  PROVE  /\ \A c \in new : /\ c[1] \in HubFilters(h) /\ c[1] \in Filters
                           /\ c[2] \in Present(h) /\ c[2] \in Pdos
                           /\ c[2] \notin filter[c[1]].children
                           /\ put[c] \in Tgts /\ put[c] \in Filters /\ put[c] # Root
                           /\ filter[put[c]] = NoFilter /\ put[c] \notin HubFilters(h)
         /\ \A c, e \in new : put[c] = put[e] => c = e
         /\ IsFiniteSet(new) /\ Cardinality(new) \in Nat
         /\ \A g : HubFilters(g)' = HubFilters(g)
         /\ filter'[Root].state = filter[Root].state
         /\ filter'[Root].pdo = filter[Root].pdo
         /\ filter'[Root].parent = filter[Root].parent
<1>1. put \in [new -> {g \in Tgts : filter[g] = NoFilter}]
      /\ \A c, e \in new : put[c] = put[e] => c = e
  BY DEF Grown, Injection, IsInjective
<1>2. \A c \in new : /\ c[1] \in HubFilters(h) /\ c[1] \in Filters
                     /\ c[2] \in Present(h) /\ c[2] \in Pdos
                     /\ c[2] \notin filter[c[1]].children
  BY ToAttachFinite DEF Grown, ToAttach, NewChildren
<1>3. \A c \in new : /\ put[c] \in Tgts /\ put[c] \in Filters /\ put[c] # Root
                     /\ filter[put[c]] = NoFilter
  BY <1>1, FilterAssumption DEF Filters
<1>4. \A c \in new : ~filter[put[c]].hub /\ put[c] \notin HubFilters(h)
  BY <1>3, NoFilterData DEF HubFilters
<1>5. IsFiniteSet(new) /\ Cardinality(new) \in Nat
  BY ToAttachFinite DEF Grown
<1>6. \A g \in Tgts : /\ filter'[g].hub <=> filter[g].hub
                      /\ filter[g].hub => filter'[g].pdo = filter[g].pdo
  BY <1>4 DEF Grown, Filters
<1>7. \A g : HubFilters(g)' = HubFilters(g)
  BY <1>6 DEF HubFilters, FiltersOn
<1>8. Root \in Filters /\ \A c \in new : put[c] # Root
  BY <1>3 DEF Filters
<1> QED
  BY <1>1, <1>2, <1>3, <1>4, <1>5, <1>7, <1>8 DEF Grown

(* The states of devices after a query of hub h.                           *)
LEMMA QueryPdos ==
  ASSUME LockInv, NEW h \in Pdos \cup {Root}, NEW failed, NEW forgot,
         QueryDone(h, failed, forgot)
  PROVE  /\ pdo' \in [Pdos -> [state : PdoStates, hub : Pdos \cup {Root, NoPdo}]]
         /\ \A p \in Pdos :
              /\ pdo'[p].hub = pdo[p].hub
              /\ pdo[p].state = "gone" => pdo'[p] = pdo[p]
              /\ pdo[p].state = "gone" => pdo'[p] = pdo[p]
             /\ pdo'[p].state =
                   IF p \in Present(h) THEN "listed"
                   ELSE IF pdo[p].hub = h /\ pdo[p].state = "unplugged" THEN "missing"
                   ELSE pdo[p].state
<1> DEFINE P == [state : PdoStates, hub : Pdos \cup {Root, NoPdo}]
<1>1. \A p \in Pdos : pdo[p] \in P
  BY DEF LockInv, TypeOK
<1>2. ASSUME NEW x \in P, NEW s \in PdoStates, NEW y, y = [x EXCEPT !.state = s]
      PROVE  y \in P /\ y.hub = x.hub /\ y.state = s
  BY <1>2
<1>3. "listed" \in PdoStates /\ "missing" \in PdoStates
  BY DEF PdoStates
<1>4. /\ pdo' = [p \in Pdos |-> pdo'[p]]
      /\ \A p \in Pdos : pdo'[p] =
           CASE p \in Present(h) -> [pdo[p] EXCEPT !.state = "listed"]
             [] p \in OnHub(h, {"unplugged"}) -> [pdo[p] EXCEPT !.state = "missing"]
             [] OTHER -> pdo[p]
  BY DEF QueryDone
<1>5. \A p \in Pdos : p \in OnHub(h, {"unplugged"})
                       <=> pdo[p].hub = h /\ pdo[p].state = "unplugged"
  BY DEF OnHub
<1>6. ASSUME NEW p \in Pdos
      PROVE  /\ pdo'[p] \in P /\ pdo'[p].hub = pdo[p].hub
             /\ pdo[p].state = "gone" => pdo'[p] = pdo[p]
             /\ pdo'[p].state =
                   IF p \in Present(h) THEN "listed"
                   ELSE IF pdo[p].hub = h /\ pdo[p].state = "unplugged" THEN "missing"
                   ELSE pdo[p].state
  <2>1. CASE p \in Present(h)
    <3>1. pdo'[p] = [pdo[p] EXCEPT !.state = "listed"]
      BY <1>4, <1>5, <2>1 DEF Present, OnHub
    <3> QED
      BY <1>1, <1>2, <1>3, <2>1, <3>1 DEF Present, OnHub
  <2>2. CASE p \notin Present(h) /\ pdo[p].hub = h /\ pdo[p].state = "unplugged"
    <3>1. pdo'[p] = [pdo[p] EXCEPT !.state = "missing"]
      BY <1>4, <1>5, <2>2
    <3> QED
      BY <1>1, <1>2, <1>3, <2>2, <3>1
  <2>3. CASE p \notin Present(h) /\ ~(pdo[p].hub = h /\ pdo[p].state = "unplugged")
    BY <1>1, <1>4, <1>5, <2>3
  <2> QED
    BY <2>1, <2>2, <2>3
<1>7. pdo' = [p \in Pdos |-> pdo'[p]]
  BY <1>4
<1> HIDE DEF P
<1>8. pdo' \in [Pdos -> P]
  BY <1>6, <1>7
<1> QED
  BY <1>6, <1>8 DEF P

LEMMA QueryDoneInv ==
  ASSUME LockInv, NEW h \in Pdos \cup {Root}, NEW failed \in SUBSET ToAttach(h),
         NEW forgot, QueryDone(h, failed, forgot)
  PROVE  LockInv'
<1> USE DEF LockInv
<1>a. PICK new, put : Grown(h, failed, forgot, new, put)
  BY QueryShape
<1>0. /\ pnp.op = "query" /\ pnp.on = h /\ pnp' = Quiet /\ pnp'.op = "none"
      /\ pnp' \in [op : PnpOps, on : Pdos \cup Filters \cup {NoPdo}]
      /\ UNCHANGED <<control, req>>
      /\ refCount' = refCount + Cardinality(new)
      /\ lock' = [d \in Devices |-> [lock[d] EXCEPT
           !.count = IF d \in HubFilters(h)
                     THEN @ + Cardinality({c \in new : c[1] = d}) - 2 ELSE @]]
      /\ missed' = missed \cup failed
      /\ lost' \subseteq lost \cup Present(h)
  BY <1>a DEF QueryDone, Grown, Referenced, Quiet, PnpOps
<1>1. /\ \A c \in new : /\ c[1] \in HubFilters(h) /\ c[1] \in Filters
                        /\ c[2] \in Present(h) /\ c[2] \in Pdos
                        /\ put[c] \in Tgts /\ put[c] \in Filters /\ put[c] # Root
                        /\ filter[put[c]] = NoFilter /\ put[c] \notin HubFilters(h)
      /\ \A c, e \in new : put[c] = put[e] => c = e
      /\ IsFiniteSet(new) /\ Cardinality(new) \in Nat
      /\ \A g : HubFilters(g)' = HubFilters(g)
      /\ filter'[Root].state = filter[Root].state
      /\ filter'[Root].pdo = filter[Root].pdo /\ filter'[Root].parent = filter[Root].parent
  BY <1>a, GrownFacts
<1>2. /\ Root \notin Tgts /\ Control \notin Filters /\ Root \in Filters
      /\ Root # Control /\ NoPdo \notin Devices
      /\ HubFilters(h) \subseteq Filters /\ Present(h) \subseteq Pdos
      /\ \A d \in Devices : d # Control => d \in Filters
      /\ \A f \in Tgts : f \in Filters
      /\ failed \subseteq Filters \X Pdos
  BY ToAttachFinite, FilterAssumption DEF Devices, Filters, ToAttach
<1> DEFINE img == {put[c] : c \in new}
<1>3. \A g \in Filters : /\ g \in img => ~Live(g) /\ Live(g)'
                         /\ g \notin img => Live(g)' = Live(g)
  <2>1. \A c \in new : filter'[put[c]].state = "attached"
    BY <1>a DEF Grown
  <2>2. \A g \in Filters : g \notin img => filter'[g].state = filter[g].state
    BY <1>a DEF Grown
  <2> QED
    BY <1>1, <1>2, <2>1, <2>2, NoFilterData DEF Live
<1>4. /\ pdo' \in [Pdos -> [state : PdoStates, hub : Pdos \cup {Root, NoPdo}]]
      /\ \A p \in Pdos : /\ pdo'[p].hub = pdo[p].hub
                         /\ p \in Present(h) => pdo'[p].state = "listed"
                         /\ pdo[p].state \in Known => pdo'[p].state \in Known
                         /\ pdo'[p].state = "gone" <=> pdo[p].state = "gone"
                         /\ pdo[p].state = "gone" => pdo'[p] = pdo[p]
      /\ \A p \in Present(h) : pdo[p].hub = h
  BY QueryPdos DEF Known, Present, OnHub
<1>5. \A d \in Devices : /\ Owed(d)' = (IF d \in HubFilters(h)
                              THEN Owed(d) + Cardinality({c \in new : c[1] = d}) - 2
                              ELSE Owed(d))
                         /\ Owed(d)' \in Nat
  <2> TAKE d \in Devices
  <2> DEFINE A == {c \in new : c[1] = d}
             B == {put[c] : c \in A}
  <2>1. AttachedTo(d)' = AttachedTo(d) \cup B /\ AttachedTo(d) \cap B = {}
    <3>1. \A g \in Tgts : g \notin img => filter'[g].parent = filter[g].parent
      BY <1>a, <1>2 DEF Grown
    <3>2. \A c \in new : filter'[put[c]].parent = c[1] /\ filter[put[c]].parent # d
      BY <1>a, <1>1, <1>2, NoFilterData DEF Grown
    <3>3. \A g : pnp # [op |-> "delete", on |-> g] /\ pnp' # [op |-> "delete", on |-> g]
      BY <1>0
    <3> QED
      BY <1>1, <3>1, <3>2, <3>3 DEF AttachedTo
  <2>2. IsFiniteSet(B) /\ Cardinality(B) = Cardinality(A) /\ Cardinality(A) \in Nat
    <3>1. put \in Injection(new, {g \in Tgts : filter[g] = NoFilter})
      BY <1>a DEF Grown
    <3>2. A \in SUBSET new
      OBVIOUS
    <3>3. IsFiniteSet(A)
      BY <1>1, <3>2, FS_Subset
    <3> HIDE DEF A
    <3>4. IsFiniteSet(B) /\ Cardinality(B) = Cardinality(A)
      BY <1>1, <3>1, <3>2, Placed
    <3> QED
      BY <3>3, <3>4, FS_CardinalityType
  <2>3. d \notin HubFilters(h) => Cardinality(A) = 0
    <3>1. d \notin HubFilters(h) => A = {}
      BY <1>1
    <3> QED
      BY <3>1, FS_EmptySet
  <2> HIDE DEF A, B
  <2>4. Cardinality(AttachedTo(d)') = Cardinality(AttachedTo(d)) + Cardinality(A)
    <3>1. Cardinality(AttachedTo(d) \cap B) = 0
      BY <2>1, FS_EmptySet
    <3>2. IsFiniteSet(AttachedTo(d)) /\ Cardinality(AttachedTo(d)) \in Nat
      BY HoldersFinite
    <3>3. Cardinality(AttachedTo(d) \cup B) = Cardinality(AttachedTo(d)) + Cardinality(B)
                                              - Cardinality(AttachedTo(d) \cap B)
      BY <2>2, <3>2, FS_Union
    <3> QED
      BY <2>1, <2>2, <3>1, <3>2, <3>3
  <2> DEFINE a == Cardinality(A)
             b == Cardinality(AttachedTo(d))
             r == Cardinality(RequestsOn(d))
             s == Cardinality(SentBelow(d))
             x == IF d = Root /\ control THEN 1 ELSE 0
  <2>5. a \in Nat /\ b \in Nat /\ r \in Nat /\ s \in Nat /\ x \in Nat
    BY <2>2, HoldersFinite
  <2>6. Owed(d) = r + s + b + x + (IF d \in HubFilters(h) THEN 2 ELSE 0)
    BY <1>0, <2>5 DEF Owed
  <2>7. Owed(d)' = r + s + (b + a) + x
    BY <1>0, <2>4, <2>5, OwedParts DEF Owed
  <2>8. d \notin HubFilters(h) => a = 0
    BY <2>3
  <2>9. Owed(d)' = (IF d \in HubFilters(h) THEN Owed(d) + a - 2 ELSE Owed(d))
        /\ Owed(d)' \in Nat
    <3> HIDE DEF a, b, r, s, x
    <3> QED
      BY <2>5, <2>6, <2>7, <2>8
  <2> QED
    BY <2>9 DEF A
<1>6. /\ \A d \in Devices : /\ lock'[d] \in [count : Nat, removed : BOOLEAN]
                            /\ lock'[d].count = Owed(d)'
                            /\ lock'[d].removed = lock[d].removed
      /\ lock' \in [Devices -> [count : Nat, removed : BOOLEAN]]
  <2> DEFINE n(d) == IF d \in HubFilters(h)
                     THEN lock[d].count + Cardinality({c \in new : c[1] = d}) - 2
                     ELSE lock[d].count
  <2>1. \A d \in Devices : n(d) = Owed(d)' /\ n(d) \in Nat
    BY <1>5 DEF LocksOwed
  <2>2. lock' = [d \in Devices |-> [lock[d] EXCEPT !.count = n(d)]]
    BY <1>0
  <2>3. \A d \in Devices : lock[d] \in [count : Nat, removed : BOOLEAN]
    BY DEF TypeOK
  <2> HIDE DEF n
  <2> QED
    BY <2>1, <2>2, <2>3
<1>7. RootHoldsLast' /\ refCount' \in Nat
  <2> DEFINE L == {g \in Filters : Live(g)}
             M == {g \in Filters : Live(g)'}
  <2>1. M = L \cup img /\ L \cap img = {}
    BY <1>1, <1>3
  <2>2. IsFiniteSet(img) /\ Cardinality(img) = Cardinality(new)
    <3>1. put \in Injection(new, {g \in Tgts : filter[g] = NoFilter})
      BY <1>a DEF Grown
    <3> QED
      BY <1>1, <3>1, Placed
  <2>3. IsFiniteSet(L)
    BY ToAttachFinite, FS_Subset
  <2>4. Live(Root)' = Live(Root)
    BY <1>1, <1>2 DEF Live
  <2>5. new # {} => Live(Root)
    <3>1. ASSUME NEW c \in new PROVE Live(Root)
      BY <1>1 DEF RootThere, Present, OnHub
    <3> QED
      BY <3>1
  <2>6. new = {} => Cardinality(new) = 0
    BY FS_EmptySet
  <2> HIDE DEF L, M, img
  <2>7. /\ Cardinality(M) = Cardinality(L) + Cardinality(new)
        /\ Cardinality(L) \in Nat
    <3>1. Cardinality(L \cap img) = 0
      BY <2>1, FS_EmptySet
    <3>2. Cardinality(M) = Cardinality(L) + Cardinality(img) - Cardinality(L \cap img)
      BY <2>1, <2>2, <2>3, FS_Union
    <3>3. Cardinality(L) \in Nat
      BY <2>3, FS_CardinalityType
    <3> QED
      BY <1>1, <2>2, <3>1, <3>2, <3>3
  <2>8. refCount' = Cardinality(M) /\ refCount' \in Nat
    BY <1>0, <1>1, <2>7 DEF RootHoldsLast, L
  <2>9. Live(Root)' \/ refCount' = 0
    BY <1>0, <1>1, <2>4, <2>5, <2>6 DEF RootHoldsLast, TypeOK
  <2> QED
    BY <2>8, <2>9 DEF RootHoldsLast, M
<1>8. TypeOK'
  BY <1>a, <1>0, <1>2, <1>4, <1>6, <1>7 DEF TypeOK, Grown
<1>9. Idle'
  <2>1. \A g \in Filters : filter'[g].state = "none" => filter'[g] = NoFilter
    <3>1. ASSUME NEW g \in Filters, filter'[g].state = "none"
          PROVE  filter'[g] = NoFilter
      <4>1. \A c \in new : put[c] # g
        BY <1>a, <3>1 DEF Grown
      <4>2. filter[g].state = "none"
        BY <1>a, <3>1, <4>1 DEF Grown
      <4>3. filter[g] = NoFilter
        BY <3>1, <4>2 DEF Idle
      <4>4. g # Root => g \notin HubFilters(h)
        BY <4>3, NoFilterData, FilterAssumption DEF HubFilters
      <4>5. g = Root => g \notin HubFilters(h)
        BY <1>0, <1>2, <4>2, FilterAssumption DEF HubFilters, FiltersOn, PnpSound, Live
      <4> QED
        BY <1>a, <3>1, <4>1, <4>3, <4>4, <4>5 DEF Grown
    <3> QED
      BY <3>1
  <2>2. filter'[Root].pdo = NoPdo /\ filter'[Root].parent = NoPdo
    BY <1>1 DEF Idle
  <2>3. \A g \in Tgts : filter'[g].hub => filter'[g].state = "started"
    BY <1>a, <1>2 DEF Grown, Idle
  <2>4. \A g \in Tgts : ~filter'[g].hub => filter'[g].children = {}
    <3>1. \A g \in Tgts : g \in HubFilters(h) => filter[g].hub
      BY <1>2 DEF HubFilters
    <3> QED
      BY <1>a, <1>2, <3>1 DEF Grown, Idle
  <2>5. \A p \in Pdos : pdo'[p].state = "gone" => pdo'[p] = NoDevice
    BY <1>4 DEF Idle
  <2> QED
    BY <1>0, <2>1, <2>2, <2>3, <2>4, <2>5 DEF Idle
<1>10. Live(Root)' = Live(Root)
  BY <1>1, <1>2 DEF Live
<1>11. Tree'
  <2>1. ASSUME NEW p \in Pdos, pdo'[p].state # "gone"
        PROVE  \/ pdo'[p].hub = Root /\ Live(Root)' /\ pnp'.op # "removeHub"
               \/ pdo'[p].hub \in Hubs /\ pdo'[pdo'[p].hub].state \in Known
    BY <1>0, <1>4, <1>10, <2>1, FilterAssumption DEF Tree
  <2>2. ASSUME NEW g \in Tgts, Live(g)'
        PROVE  \E p \in Pdos, k \in Pdos \cup {Root, NoPdo} :
                 /\ filter'[g].pdo = p /\ pdo'[p].hub = k /\ pdo'[p].state \in Known
                 /\ filter'[g].parent \in HubFilters(k)'
    <3>1. CASE \A c \in new : put[c] # g
      <4>1. /\ filter'[g].pdo = filter[g].pdo /\ filter'[g].parent = filter[g].parent
            /\ Live(g)
        BY <1>a, <1>2, <1>3, <2>2, <3>1 DEF Grown
      <4>2. /\ filter[g].pdo \in Pdos /\ pdo[filter[g].pdo].state \in Known
            /\ filter[g].parent \in HubFilters(pdo[filter[g].pdo].hub)
        BY <4>1 DEF Tree
      <4>3. PICK p \in Pdos, k \in Pdos \cup {Root, NoPdo} :
              p = filter[g].pdo /\ k = pdo[p].hub
        BY <4>2 DEF TypeOK
      <4>4. /\ filter'[g].pdo = p /\ pdo'[p].hub = k /\ pdo'[p].state \in Known
            /\ filter'[g].parent \in HubFilters(k)'
        BY <1>1, <1>4, <4>1, <4>2, <4>3
      <4> QED
        BY <4>4
    <3>2. ASSUME NEW c \in new, put[c] = g
          PROVE  \E p \in Pdos, k \in Pdos \cup {Root, NoPdo} :
                   /\ filter'[g].pdo = p /\ pdo'[p].hub = k /\ pdo'[p].state \in Known
                   /\ filter'[g].parent \in HubFilters(k)'
      <4>1. filter'[g].parent = c[1] /\ filter'[g].pdo = c[2]
        BY <1>a, <3>2 DEF Grown
      <4>2. PICK f \in Filters, p \in Pdos : f = c[1] /\ p = c[2]
        BY <1>1
      <4>3. pdo'[p].state \in Known /\ pdo'[p].hub = h /\ f \in HubFilters(h)'
        BY <1>1, <1>4, <4>2 DEF Known
      <4> QED
        BY <4>1, <4>2, <4>3
    <3> QED
      BY <3>1, <3>2
  <2>3. ASSUME NEW g \in Tgts, Live(g)'
        PROVE  (/\ filter[g].pdo \in Pdos /\ pdo[filter[g].pdo].state \in Known
                /\ filter[g].parent \in HubFilters(pdo[filter[g].pdo].hub))'
    BY <2>2, <2>3 DEF HubFilters, FiltersOn
  <2> QED
    BY <2>1, <2>3 DEF Tree
<1>12. RootThere'
  BY <1>0, <1>4, <1>10 DEF RootThere
<1>13. PnpSound' /\ Closing'
  <2>1. PnpSound'
    BY <1>0 DEF PnpSound
  <2>2. \A d \in Devices : lock'[d].removed = lock[d].removed
    BY <1>6
  <2> QED
    BY <1>0, <2>1, <2>2 DEF Closing, Devices
<1>14. RequestsLive'
  <2>1. \A d \in Devices : Live(d) => Live(d)'
    BY <1>0, <1>2, <1>3 DEF Live
  <2>2. \A r \in Reqs : req[r].at # "none" => req[r].on \in Devices
    BY DEF TypeOK, Idle
  <2> QED
    BY <1>0, <2>1, <2>2 DEF RequestsLive
<1>15. LocksOwed'
  BY <1>6 DEF LocksOwed
<1> QED
  BY <1>7, <1>8, <1>9, <1>11, <1>12, <1>13, <1>14, <1>15
-----------------------------------------------------------------------------
(* The theorems about locks and lifetimes. *)

LEMMA LockInit == Init => LockInv
<1> SUFFICES ASSUME Init PROVE LockInv
  OBVIOUS
<1> USE DEF Init
<1>1. /\ Quiet.op = "none" /\ Quiet.on = NoPdo
      /\ Quiet \in [op : PnpOps, on : Pdos \cup Filters \cup {NoPdo}]
      /\ Unlocked \in [count : Nat, removed : BOOLEAN]
      /\ Unlocked.count = 0 /\ ~Unlocked.removed
      /\ NoDevice \in [state : PdoStates, hub : Pdos \cup {Root, NoPdo}]
      /\ NoDevice.state = "gone"
      /\ NoReq \in [on : Devices \cup {NoPdo}, at : Stages]
      /\ NoReq.on = NoPdo /\ NoReq.at = "none"
  BY DEF Quiet, PnpOps, Unlocked, NoDevice, PdoStates, NoReq, Stages
<1>2. /\ Root \in Filters /\ Control \notin Filters /\ Root \in Devices
      /\ Control \in Devices /\ NoPdo \notin Devices
      /\ \A f \in Tgts : f \in Filters /\ f \in Devices
  BY FilterAssumption DEF Filters, Devices
<1>3. TypeOK
  BY <1>1, NoFilterData DEF TypeOK
<1>4. \A f \in Filters : ~Live(f)
  BY <1>2, NoFilterData DEF Live
<1>5. Idle /\ Tree
  BY <1>1, <1>2, <1>4, NoFilterData DEF Idle, Tree
<1>6. RootThere /\ PnpSound /\ Closing /\ RequestsLive
  BY <1>1, <1>2, <1>4 DEF RootThere, PnpSound, Closing, RequestsLive
<1>7. LocksOwed
  <2> SUFFICES ASSUME NEW d \in Devices PROVE lock[d].count = Owed(d)
    BY DEF LocksOwed
  <2>1. RequestsOn(d) = {} /\ SentBelow(d) = {} /\ AttachedTo(d) = {}
    BY <1>1, <1>2, NoFilterData DEF RequestsOn, SentBelow, AttachedTo
  <2> QED
    BY <1>1, <2>1, FS_EmptySet DEF Owed
<1>8. RootHoldsLast
  <2>1. {f \in Filters : Live(f)} = {}
    BY <1>4
  <2> QED
    BY <2>1, FS_EmptySet DEF RootHoldsLast
<1> QED
  BY <1>3, <1>5, <1>6, <1>7, <1>8 DEF LockInv

LEMMA LockStutter ==
  ASSUME LockInv, UNCHANGED <<pdo, filter, control, lock, refCount, req, pnp, missed, lost>>
  PROVE  LockInv'
<1> USE DEF LockInv
<1>1. (TypeOK /\ Idle)'
  BY DEF TypeOK, Idle
<1>2. (Tree /\ RootThere)'
  BY DEF Tree, RootThere, Live, HubFilters, FiltersOn
<1>3. (PnpSound /\ Closing /\ RequestsLive)'
  BY DEF PnpSound, Closing, RequestsLive, Live, Leaf, FiltersOn, RequestsOn
<1>4. \A d : Owed(d)' = Owed(d)
  BY DEF Owed, RequestsOn, SentBelow, AttachedTo, HubFilters, FiltersOn
<1>5. (LocksOwed /\ RootHoldsLast)'
  BY <1>4 DEF LocksOwed, RootHoldsLast, Live
<1> QED
  BY <1>1, <1>2, <1>3, <1>5

LEMMA LockStep == LockInv /\ [Next]_vars => LockInv'
<1> SUFFICES ASSUME LockInv, [Next]_vars PROVE LockInv'
  OBVIOUS
<1>1. CASE AddDevice
  BY <1>1, AddDeviceInv
<1>2. CASE RemoveHub
  BY <1>2, RemoveHubInv
<1>3. CASE PnpStep
  <2>1. CASE DeleteControl
    BY <2>1, DeleteControlInv
  <2>2. CASE DeleteHub
    BY <2>2, DeleteHubInv
  <2>3. ASSUME NEW f \in Tgts, DetachTgt(f) \/ DeleteTgt(f) PROVE LockInv'
    BY <2>3, DetachTgtInv, DeleteTgtInv
  <2> QED
    BY <1>3, <2>1, <2>2, <2>3 DEF PnpStep
<1>4. ASSUME NEW p \in Pdos, NEW h \in Pdos \cup {Root}, Plug(p, h) PROVE LockInv'
  BY <1>4, PlugInv
<1>5. ASSUME NEW p \in Pdos, Unplug(p) \/ Vanish(p) PROVE LockInv'
  BY <1>5, UnplugInv
<1>6. ASSUME NEW p \in Pdos, RemoveUnfiltered(p) PROVE LockInv'
  BY <1>6, RemoveUnfilteredInv
<1>7. ASSUME NEW p \in Pdos, NEW told \in SUBSET FiltersOn(p), StartDevice(p, told)
      PROVE  LockInv'
  BY <1>7, StartDeviceInv
<1>8. ASSUME NEW f \in Tgts, RemoveDevice(f) PROVE LockInv'
  BY <1>8, RemoveDeviceInv
<1>9. ASSUME NEW h \in Pdos \cup {Root}, QueryForward(h) \/ QueryFailed(h) PROVE LockInv'
  BY <1>9, QueryInv
<1>10. ASSUME NEW h \in Pdos \cup {Root}, NEW failed \in SUBSET ToAttach(h),
              NEW forgot \in SUBSET HubFilters(h), QueryDone(h, failed, forgot)
       PROVE  LockInv'
  BY <1>10, QueryDoneInv
<1>11. ASSUME NEW r \in Reqs, NEW d \in Devices, Dispatch(r, d) PROVE LockInv'
  BY <1>11, EnteredInv DEF Dispatch
<1>12. ASSUME NEW r \in Reqs, NEW d \in Devices, DkPower(r, d) PROVE LockInv'
  BY <1>12, EnteredInv DEF DkPower
<1>13. ASSUME NEW r \in Reqs, NEW f \in Tgts, DkInDevCtl(r, f) PROVE LockInv'
  BY <1>13, EnteredInv DEF DkInDevCtl, Devices
<1>14. ASSUME NEW r \in Reqs, RequestStep(r) PROVE LockInv'
  BY <1>14, RequestStepInv
<1>15. CASE \/ UNCHANGED vars \/ DropStack
            \/ \E attached \in BOOLEAN : AddDeviceFails(attached)
  BY <1>15, LockStutter DEF vars, DropStack, AddDeviceFails
<1> QED
  BY <1>1, <1>2, <1>3, <1>4, <1>5, <1>6, <1>7, <1>8, <1>9, <1>10, <1>11, <1>12, <1>13,
     <1>14, <1>15 DEF Next

(* The inductive invariant holds in every behaviour of the filter manager. *)
THEOREM LocksAndLifetimes == Spec => []LockInv
<1>1. Init => LockInv
  BY LockInit
<1>2. LockInv /\ [Next]_vars => LockInv'
  BY LockStep
<1> QED
  BY <1>1, <1>2, PTL DEF Spec

(* No remove lock and no reference count of the driver's filter devices    *)
(* ever goes below zero, and each variable keeps its values.               *)
THEOREM FilterTypes == Spec => []TypeOK
<1>1. LockInv => TypeOK
  BY DEF LockInv
<1> QED
  BY <1>1, LocksAndLifetimes, PTL

(* The count of every remove lock is what requests, URBs below, attached   *)
(* filters, the control device and the PnP operation under way owe it.     *)
THEOREM LocksBalance == Spec => []LocksOwed
<1>1. LockInv => LocksOwed
  BY DEF LockInv
<1> QED
  BY <1>1, LocksAndLifetimes, PTL

(* The references to the root hub's data are those of the live filters,    *)
(* and the hub filter holds the last one.                                  *)
THEOREM LastReference == Spec => []RootHoldsLast
<1>1. LockInv => RootHoldsLast
  BY DEF LockInv
<1> QED
  BY <1>1, LocksAndLifetimes, PTL

(* No request of a dispatch or completion routine meets a device, root hub *)
(* data or a control device that a removal has taken away.                 *)
THEOREM RequestsSafe == Spec => []NoUseAfterFree
<1>1. LockInv => NoUseAfterFree
  <2> SUFFICES ASSUME LockInv, NEW r \in Reqs, req[r].at # "none"
               PROVE  /\ Live(req[r].on)
                      /\ req[r].on \in Tgts => refCount > 0
                      /\ req[r].at \in {"entered", "sent", "pending"} => control
                      /\ req[r].on = Control => Live(Root) /\ refCount > 0
    BY DEF NoUseAfterFree
  <2> USE DEF LockInv
  <2>1. Live(req[r].on) /\ req[r].on \in Devices
    BY DEF RequestsLive, TypeOK, Idle
  <2>2. ASSUME NEW f \in Filters, Live(f) PROVE refCount > 0
    <3> DEFINE L == {g \in Filters : Live(g)}
    <3>1. IsFiniteSet(L) /\ f \in L
      BY <2>2, ToAttachFinite, FS_Subset
    <3>2. Cardinality(L) # 0
      BY <3>1, FS_EmptySet
    <3> QED
      BY <3>2 DEF RootHoldsLast, TypeOK
  <2>3. Root \in Filters /\ \A f \in Tgts : f \in Filters
    BY DEF Filters
  <2>4. ASSUME req[r].on \in Tgts PROVE refCount > 0 /\ control
    <3>1. refCount > 0
      BY <2>1, <2>2, <2>3, <2>4
    <3>2. Live(Root)
      BY <3>1 DEF RootHoldsLast
    <3>3. pnp.op # "removeHub"
      BY <2>1, <2>4 DEF PnpSound, Tree, Known
    <3> QED
      BY <3>1, <3>2, <3>3 DEF RootThere
  <2>5. req[r].at \in {"entered", "sent", "pending"} => control
    BY <2>4 DEF Idle
  <2>6. req[r].on = Control => Live(Root) /\ refCount > 0
    BY <2>1, <2>2, <2>3 DEF RootThere, Live
  <2> QED
    BY <2>1, <2>4, <2>5, <2>6
<1> QED
  BY <1>1, LocksAndLifetimes, PTL
-----------------------------------------------------------------------------
(* The lists of children. *)

(* A device with a filter is in the list of the filter's parent, unless    *)
(* that list was lost or the device is about to be removed.                *)
Expected ==
  \A g \in Tgts : Live(g) =>
    \/ filter[g].pdo \in filter[filter[g].parent].children
    \/ filter[g].pdo \in lost
    \/ pdo[filter[g].pdo].state = "missing"

(* A hub filter attaches one filter to a device.                           *)
NoTwins ==
  \A f, g \in Tgts :
    /\ Live(f) /\ Live(g) /\ filter[f].pdo = filter[g].pdo
    /\ filter[f].parent = filter[g].parent
    => f = g \/ filter[f].pdo \in lost

(* While the hub of a filter is not missing, the devices in the filter's   *)
(* list hang on the hub.                                                   *)
Visible(f) == f = Root \/ pdo[filter[f].pdo].state \in {"listed", "unplugged"}

KidsThere ==
  \A f \in Filters : \A p \in filter[f].children : Visible(f) =>
    /\ pdo[p].hub = (IF f = Root THEN Root ELSE filter[f].pdo)
    /\ pdo[p].state \in {"listed", "unplugged"}

KidsInv == Expected /\ NoTwins /\ KidsThere /\ ChildrenFiltered

LEMMA TgtLive == \A f \in Filters : Live(f) <=> filter[f].state # "none"
BY FilterAssumption DEF Live, Filters

(* Requests, locks and the begin of a removal leave the lists alone.       *)
LEMMA KidsFrame ==
  ASSUME KidsInv, UNCHANGED <<pdo, filter, missed, lost>>
  PROVE  KidsInv'
<1>1. \A f \in Filters : Live(f)' = Live(f)
  BY FilterAssumption DEF Live, Filters
<1> QED
  BY <1>1 DEF KidsInv, Expected, NoTwins, KidsThere, Visible, ChildrenFiltered, FiltersOn,
              Filters

(* Where a live target filter sits.                                        *)
LEMMA FilterPlaces ==
  ASSUME LockInv, NEW g \in Tgts, Live(g)
  PROVE  /\ filter[g].pdo \in Pdos /\ pdo[filter[g].pdo].state \in Known
         /\ pdo[filter[g].pdo].hub \in Pdos \cup {Root}
         /\ filter[g].parent \in HubFilters(pdo[filter[g].pdo].hub)
         /\ filter[g].parent \in Filters
         /\ filter[g].parent # Root => filter[filter[g].parent].hub
BY FilterAssumption DEF LockInv, Tree, Known, HubFilters, FiltersOn, Filters

(* A filter is started, or the hub filter comes: lists, devices and places *)
(* of the filters stay.                                                    *)
LEMMA KidsSame ==
  ASSUME LockInv, KidsInv, UNCHANGED <<pdo, missed, lost>>,
         \A f \in Filters : /\ filter'[f].pdo = filter[f].pdo
                            /\ filter'[f].parent = filter[f].parent
                            /\ filter'[f].children = filter[f].children,
         \A f \in Tgts : filter'[f].state = "none" <=> filter[f].state = "none"
  PROVE  KidsInv'
<1>1. \A f \in Tgts : Live(f)' = Live(f) /\ f \in Filters
  BY FilterAssumption DEF Live, Filters
<1>2. \A f \in Tgts : Live(f) => filter[f].parent \in Filters
  BY FilterPlaces DEF Filters
<1>3. (Expected /\ NoTwins)'
  BY <1>1, <1>2 DEF KidsInv, Expected, NoTwins
<1>4. \A p : FiltersOn(p)' = FiltersOn(p)
  BY <1>1 DEF FiltersOn
<1>5. KidsThere'
  BY DEF KidsInv, KidsThere, Visible
<1>6. ChildrenFiltered'
  BY <1>1, <1>4 DEF KidsInv, ChildrenFiltered, FiltersOn
<1> QED
  BY <1>3, <1>5, <1>6 DEF KidsInv

LEMMA AddDeviceKids ==
  ASSUME LockInv, KidsInv, AddDevice
  PROVE  KidsInv'
<1>1. Root \in Filters /\ \A f \in Tgts : f \in Filters /\ f # Root
  BY FilterAssumption DEF Filters
<1>2. \A f \in Filters : filter[f] \in FilterData
  BY DEF LockInv, TypeOK
<1>3. /\ filter'[Root].pdo = filter[Root].pdo /\ filter'[Root].parent = filter[Root].parent
      /\ filter'[Root].children = filter[Root].children
      /\ \A f \in Filters : f # Root => filter'[f] = filter[f]
  BY <1>1, <1>2 DEF AddDevice, LockInv, TypeOK, FilterData
<1> QED
  BY <1>1, <1>3, KidsSame DEF AddDevice

LEMMA StartDeviceKids ==
  ASSUME LockInv, KidsInv, NEW p \in Pdos, NEW told, StartDevice(p, told)
  PROVE  KidsInv'
<1>1. \A f \in Filters : filter[f] \in FilterData
  BY DEF LockInv, TypeOK
<1>2. ASSUME NEW f \in Filters
      PROVE  /\ filter'[f].pdo = filter[f].pdo /\ filter'[f].parent = filter[f].parent
             /\ filter'[f].children = filter[f].children
             /\ filter'[f].state = "none" <=> filter[f].state = "none"
  <2>1. CASE f \in FiltersOn(p) /\ filter[f].state = "attached"
    <3>1. filter'[f] = [filter[f] EXCEPT !.state = "started",
                                         !.hub = p \in Hubs /\ f \in told]
      BY <2>1 DEF StartDevice
    <3> QED
      BY <1>1, <2>1, <3>1, StartedData, ZenonT(60)
  <2>2. CASE ~(f \in FiltersOn(p) /\ filter[f].state = "attached")
    BY <2>2 DEF StartDevice
  <2> QED
    BY <2>1, <2>2
<1> QED
  BY <1>2, KidsSame DEF StartDevice, Filters

(* A device p without a place in a list changes, as long as no list        *)
(* becomes visible again by that.                                          *)
LEMMA KidsPdo ==
  ASSUME LockInv, KidsInv, NEW p \in Pdos, UNCHANGED filter,
         \A q \in Pdos : q # p => pdo'[q] = pdo[q],
         \A f \in Filters : p \in filter[f].children => ~Visible(f),
         \A f \in Tgts : Live(f) /\ filter[f].pdo = p =>
            /\ pdo'[p].state = "missing"
            /\ lost \subseteq lost',
         lost \ {p} \subseteq lost',
         \A c \in missed : c[2] # p => c \in missed'
  PROVE  KidsInv'
<1>1. \A f \in Filters : /\ Live(f)' = Live(f)
                         /\ filter[f].children # {} /\ f # Root => f \in Tgts /\ Live(f)
  BY TgtLive, NoFilterData, FilterAssumption DEF LockInv, Idle, Live, Filters
<1>2. \A f \in Tgts : f \in Filters
  BY DEF Filters
<1>3. Expected'
  BY <1>1, <1>2, FilterPlaces DEF KidsInv, Expected
<1>4. NoTwins'
  BY <1>1, <1>2, FilterPlaces DEF KidsInv, NoTwins
<1>5. ASSUME NEW f \in Filters, NEW q \in filter[f].children, Visible(f)'
      PROVE  Visible(f) /\ q # p /\ q \in Pdos
  <2>1. q \in Pdos
    BY DEF LockInv, TypeOK, FilterData
  <2>2. Visible(f)
    BY <1>1, <1>5, FilterPlaces DEF Visible
  <2> QED
    BY <2>1, <2>2
<1>6. KidsThere'
  BY <1>5 DEF KidsInv, KidsThere
<1>7. ASSUME NEW f \in Filters, NEW q \in filter[f].children, Visible(f)'
      PROVE  <<f, q>> \in missed' \/ \E g \in FiltersOn(q) : filter[g].parent = f
  <2>1. <<f, q>> \in missed \/ \E g \in FiltersOn(q) : filter[g].parent = f
    BY <1>5, <1>7 DEF KidsInv, ChildrenFiltered, Visible
  <2>2. <<f, q>>[2] # p
    BY <1>5, <1>7
  <2> QED
    BY <2>1, <2>2
<1>8. ChildrenFiltered'
  BY <1>7 DEF ChildrenFiltered, Visible, FiltersOn
<1> QED
  BY <1>3, <1>4, <1>6, <1>8 DEF KidsInv

LEMMA PlugKids ==
  ASSUME LockInv, KidsInv, NEW p \in Pdos, NEW h \in Pdos \cup {Root}, Plug(p, h)
  PROVE  KidsInv'
<1>1. /\ UNCHANGED <<filter, missed, lost>> /\ pdo[p].state = "gone"
      /\ \A q \in Pdos : q # p => pdo'[q] = pdo[q]
  BY DEF Plug, LockInv, TypeOK
<1>2. \A f \in Filters : p \in filter[f].children => ~Visible(f)
  BY <1>1 DEF KidsInv, KidsThere
<1>3. \A f \in Tgts : Live(f) => filter[f].pdo # p
  BY <1>1, FilterPlaces DEF Known
<1> QED
  BY <1>1, <1>2, <1>3, KidsPdo

LEMMA VanishKids ==
  ASSUME LockInv, KidsInv, NEW p \in Pdos, Vanish(p)
  PROVE  KidsInv'
<1>1. /\ UNCHANGED <<filter, missed, lost>>
      /\ pdo[p].hub \in Pdos /\ pdo[pdo[p].hub].state = "missing"
      /\ pdo'[p].state = "missing"
      /\ \A q \in Pdos : q # p => pdo'[q] = pdo[q]
  BY DEF Vanish, LockInv, TypeOK
<1>2. \A f \in Filters : p \in filter[f].children => ~Visible(f)
  BY <1>1, FilterAssumption DEF KidsInv, KidsThere, Visible
<1> QED
  BY <1>1, <1>2, KidsPdo

LEMMA RemoveUnfilteredKids ==
  ASSUME LockInv, KidsInv, NEW p \in Pdos, RemoveUnfiltered(p)
  PROVE  KidsInv'
<1>1. /\ UNCHANGED filter /\ pdo[p].state = "missing" /\ FiltersOn(p) = {}
      /\ lost' = lost \ {p} /\ \A c \in missed : c[2] # p => c \in missed'
      /\ \A q \in Pdos : q # p => pdo'[q] = pdo[q]
  BY DEF RemoveUnfiltered, Removable, LockInv, TypeOK
<1>2. \A f \in Filters : p \in filter[f].children => ~Visible(f)
  BY <1>1 DEF KidsInv, KidsThere
<1>3. \A f \in Tgts : filter[f].pdo # p
  BY <1>1 DEF FiltersOn
<1> QED
  BY <1>1, <1>2, <1>3, KidsPdo

LEMMA UnplugKids ==
  ASSUME LockInv, KidsInv, NEW p \in Pdos, Unplug(p)
  PROVE  KidsInv'
<1>1. /\ UNCHANGED <<filter, missed, lost>> /\ pdo[p].state = "listed"
      /\ pdo'[p].state = "unplugged" /\ pdo'[p].hub = pdo[p].hub
      /\ \A q \in Pdos : q # p => pdo'[q] = pdo[q]
  BY DEF Unplug, LockInv, TypeOK
<1>2. \A f \in Filters : /\ Live(f)' = Live(f)
                         /\ filter[f].children # {} /\ f # Root => f \in Tgts /\ Live(f)
                         /\ \A q \in filter[f].children : q \in Pdos
  BY <1>1, TgtLive, NoFilterData, FilterAssumption
     DEF LockInv, Idle, Live, Filters, TypeOK, FilterData
<1>3. \A f \in Tgts : f \in Filters
  BY DEF Filters
<1>4. (Expected /\ NoTwins)'
  BY <1>1, <1>2, <1>3, FilterPlaces DEF KidsInv, Expected, NoTwins
<1>5. ASSUME NEW f \in Filters, filter[f].children # {}, Visible(f)' PROVE Visible(f)
  BY <1>1, <1>2, <1>5, FilterPlaces DEF Visible
<1>6. KidsThere'
  BY <1>1, <1>2, <1>5 DEF KidsInv, KidsThere
<1>7. ChildrenFiltered'
  BY <1>1, <1>5 DEF KidsInv, ChildrenFiltered, Visible, FiltersOn
<1> QED
  BY <1>4, <1>6, <1>7 DEF KidsInv

LEMMA DeleteHubKids ==
  ASSUME LockInv, KidsInv, DeleteHub
  PROVE  KidsInv'
<1>1. /\ UNCHANGED <<pdo, missed, lost>> /\ \A p \in Pdos : pdo[p].state = "gone"
      /\ filter'[Root] = NoFilter /\ \A f \in Filters : f # Root => filter'[f] = filter[f]
  BY DEF DeleteHub, LockInv, TypeOK, PnpSound, Filters
<1>2. Root \notin Tgts /\ \A f \in Tgts : f \in Filters /\ f # Root
  BY FilterAssumption DEF Filters
<1>3. \A f \in Tgts : ~Live(f) /\ filter[f] = NoFilter
  BY <1>1, <1>2, FilterPlaces, TgtLive DEF LockInv, Idle, Known
<1>4. \A f \in Filters : filter'[f] = NoFilter
  BY <1>1, <1>2, <1>3 DEF Filters
<1>5. \A f \in Filters : ~Live(f)' /\ filter'[f].children = {}
  BY <1>4, NoFilterData, FilterAssumption DEF Live, Filters
<1> QED
  BY <1>2, <1>5 DEF KidsInv, Expected, NoTwins, KidsThere, ChildrenFiltered

LEMMA DeleteTgtKids ==
  ASSUME LockInv, KidsInv, NEW f \in Tgts, DeleteTgt(f)
  PROVE  KidsInv'
<1>a. PICK p : p = filter[f].pdo
  OBVIOUS
<1>b. PICK last \in BOOLEAN : last <=> FiltersOn(p) = {f}
  OBVIOUS
<1>1. /\ filter'[f] = NoFilter /\ \A g \in Filters : g # f => filter'[g] = filter[g]
      /\ pdo' = IF last THEN [pdo EXCEPT ![p] = NoDevice] ELSE pdo
      /\ lost' = IF last THEN lost \ {p} ELSE lost
      /\ missed' = {c \in missed : c[1] # f /\ (last => c[2] # p)}
      /\ pnp = [op |-> "delete", on |-> f]
  BY <1>a, <1>b DEF DeleteTgt, LockInv, TypeOK, Filters
<1>2. /\ pnp.op = "delete" /\ pnp.on = f /\ f \in Filters /\ f # Root
      /\ \A g \in Tgts : g \in Filters
  BY <1>1, FilterAssumption DEF Filters
<1>3. /\ \A g \in Tgts : filter[g].parent # f
      /\ p \in Pdos /\ pdo[p].state = "missing" /\ f \in FiltersOn(p)
  BY <1>a, <1>2, Childless DEF Leaf, FiltersOn, LockInv
<1>4. /\ \A q \in Pdos : (q # p \/ ~last) => pdo'[q] = pdo[q]
      /\ last => pdo'[p].state = "gone"
  BY <1>1, <1>3 DEF LockInv, TypeOK, NoDevice
<1>5. \A g \in Filters : (g # f => Live(g)' = Live(g)) /\ ~Live(f)'
  BY <1>1, <1>2, NoFilterData, FilterAssumption DEF Live, Filters
<1>6. \A g \in Tgts : g # f /\ last => filter[g].pdo # p
  BY <1>b DEF FiltersOn
<1>7. Expected'
  <2>1. ASSUME NEW g \in Tgts, Live(g)'
        PROVE  (\/ filter[g].pdo \in filter[filter[g].parent].children
                \/ filter[g].pdo \in lost
                \/ pdo[filter[g].pdo].state = "missing")'
    <3>1. g # f /\ Live(g) /\ filter'[g] = filter[g]
      BY <1>1, <1>2, <1>5, <2>1
    <3>2. PICK q \in Pdos, k \in Filters : q = filter[g].pdo /\ k = filter[g].parent
      BY <3>1, FilterPlaces
    <3>3. k # f /\ filter'[k] = filter[k] /\ (last => q # p)
      BY <1>1, <1>3, <1>6, <3>1, <3>2
    <3>4. q \in filter[k].children \/ q \in lost \/ pdo[q].state = "missing"
      BY <3>1, <3>2 DEF KidsInv, Expected
    <3> QED
      BY <1>1, <1>4, <3>1, <3>2, <3>3, <3>4
  <2> QED
    BY <2>1 DEF Expected
<1>8. NoTwins'
  BY <1>1, <1>2, <1>5, <1>6 DEF KidsInv, NoTwins
<1>9. ASSUME NEW g \in Filters, NEW q \in filter'[g].children, Visible(g)'
      PROVE  /\ g # f /\ filter'[g] = filter[g] /\ q \in filter[g].children /\ q \in Pdos
             /\ Visible(g) /\ q # p /\ pdo'[q] = pdo[q]
  <2>1. g # f /\ filter'[g] = filter[g] /\ q \in filter[g].children /\ q \in Pdos
    BY <1>1, <1>9, NoFilterData DEF LockInv, TypeOK, FilterData
  <2>2. g # Root => g \in Tgts /\ Live(g)
    BY <2>1, TgtLive, NoFilterData DEF LockInv, Idle, Filters
  <2>3. Visible(g)
    BY <1>4, <1>6, <1>9, <2>1, <2>2, FilterPlaces DEF Visible
  <2>4. q # p
    BY <1>3, <2>1, <2>3 DEF KidsInv, KidsThere
  <2> QED
    BY <1>4, <2>1, <2>3, <2>4
<1>10. KidsThere'
  BY <1>9 DEF KidsInv, KidsThere
<1>11. ASSUME NEW g \in Filters, NEW q \in filter'[g].children, Visible(g)'
       PROVE  <<g, q>> \in missed' \/ \E k \in Tgts : filter'[k].pdo = q /\ filter'[k].parent = g
  <2>1. <<g, q>> \in missed \/ \E k \in FiltersOn(q) : filter[k].parent = g
    BY <1>9, <1>11 DEF KidsInv, ChildrenFiltered, Visible
  <2>2. <<g, q>>[1] # f /\ <<g, q>>[2] # p
    BY <1>9, <1>11
  <2>3. \A k \in FiltersOn(q) : k # f
    BY <1>a, <1>9, <1>11 DEF FiltersOn
  <2> QED
    BY <1>1, <1>2, <2>1, <2>2, <2>3 DEF FiltersOn
<1>12. ChildrenFiltered'
  BY <1>11 DEF ChildrenFiltered, Visible, FiltersOn
<1> QED
  BY <1>7, <1>8, <1>10, <1>12 DEF KidsInv

(* A filter looks after the children of one hub only.                      *)
LEMMA OneHub ==
  ASSUME LockInv, NEW h \in Pdos \cup {Root}, NEW k \in Pdos \cup {Root},
         NEW f, f \in HubFilters(h), f \in HubFilters(k)
  PROVE  h = k
BY FilterAssumption DEF HubFilters, FiltersOn

LEMMA QueryDoneKids ==
  ASSUME LockInv, KidsInv, NEW h \in Pdos \cup {Root}, NEW failed \in SUBSET ToAttach(h),
         NEW forgot \in SUBSET HubFilters(h), QueryDone(h, failed, forgot)
  PROVE  KidsInv'
<1>a. PICK new, put : Grown(h, failed, forgot, new, put)
  BY QueryShape
<1>0. /\ missed' = missed \cup failed /\ lost \subseteq lost'
      /\ forgot # {} => Present(h) \subseteq lost'
      /\ new = ToAttach(h) \ failed
  BY <1>a DEF QueryDone, Grown
<1>1. /\ \A c \in new : /\ c[1] \in HubFilters(h) /\ c[1] \in Filters
                        /\ c[2] \in Present(h) /\ c[2] \in Pdos
                        /\ c[2] \notin filter[c[1]].children
                        /\ put[c] \in Tgts /\ put[c] \in Filters /\ put[c] # Root
                        /\ filter[put[c]] = NoFilter /\ put[c] \notin HubFilters(h)
      /\ \A c, e \in new : put[c] = put[e] => c = e
  BY <1>a, GrownFacts
<1>2. \A c \in new : /\ filter'[put[c]].state = "attached"
                     /\ filter'[put[c]].parent = c[1] /\ filter'[put[c]].pdo = c[2]
                     /\ filter'[put[c]].children = {}
  BY <1>a DEF Grown
<1>3. \A g \in Filters : (\A c \in new : put[c] # g) =>
        /\ filter'[g].state = filter[g].state /\ filter'[g].pdo = filter[g].pdo
        /\ filter'[g].parent = filter[g].parent
        /\ g \notin HubFilters(h) => filter'[g].children = filter[g].children
        /\ g \in HubFilters(h) /\ g \notin forgot => filter'[g].children = Present(h)
        /\ g \in HubFilters(h) /\ g \in forgot => filter'[g].children = {}
  BY <1>a DEF Grown, Remembered
<1>4. \A p \in Pdos : /\ pdo'[p].hub = pdo[p].hub
                      /\ pdo'[p].state =
                           IF p \in Present(h) THEN "listed"
                           ELSE IF pdo[p].hub = h /\ pdo[p].state = "unplugged"
                           THEN "missing" ELSE pdo[p].state
  BY QueryPdos
<1>5. \A p : p \in Present(h) <=> /\ p \in Pdos /\ pdo[p].hub = h
                                  /\ pdo[p].state \in {"plugged", "listed"}
  BY DEF Present, OnHub
<1>6. /\ \A g \in Tgts : g \in Filters /\ g # Root
      /\ \A g \in Filters : Live(g) <=> filter[g].state # "none"
      /\ \A g \in Filters : Live(g)' <=> filter'[g].state # "none"
      /\ \A c \in new : filter[put[c]].state = "none" /\ ~filter[put[c]].hub
                        /\ filter[put[c]].pdo = NoPdo
      /\ NoPdo \notin Pdos /\ Root \notin Pdos
  BY <1>1, TgtLive, NoFilterData, FilterAssumption DEF Live, Filters
(* What an old filter and its parent become.                               *)
<1>7. ASSUME NEW g \in Tgts, Live(g)
      PROVE  /\ \A c \in new : put[c] # g /\ put[c] # filter[g].parent
             /\ filter'[g].pdo = filter[g].pdo /\ filter'[g].parent = filter[g].parent
             /\ \/ filter[g].pdo \in filter'[filter[g].parent].children
                \/ filter[g].pdo \in lost'
                \/ pdo'[filter[g].pdo].state = "missing"
  <2>1. PICK p \in Pdos, k \in Filters : p = filter[g].pdo /\ k = filter[g].parent
    BY <1>7, FilterPlaces
  <2>2. /\ pdo[p].state \in Known /\ k \in HubFilters(pdo[p].hub)
        /\ pdo[p].hub \in Pdos \cup {Root} /\ (k # Root => filter[k].hub)
    BY <1>7, <2>1, FilterPlaces
  <2>3. \A c \in new : put[c] # g /\ put[c] # k
    BY <1>1, <1>6, <1>7, <2>2
  <2>4. p \in filter[k].children \/ p \in lost \/ pdo[p].state = "missing"
    BY <1>7, <2>1 DEF KidsInv, Expected
  <2>5. p \in filter'[k].children \/ p \in lost' \/ pdo'[p].state = "missing"
    <3>1. CASE k \in HubFilters(h)
      <4>1. pdo[p].hub = h
        BY <2>2, <3>1, OneHub
      <4>2. pdo[p].state \in {"unplugged", "missing"} => pdo'[p].state = "missing"
        BY <1>4, <1>5, <4>1
      <4>3. pdo[p].state = "listed" => p \in Present(h)
        BY <1>5, <4>1
      <4>4. p \in Present(h) => p \in filter'[k].children \/ p \in lost'
        BY <1>0, <1>3, <2>3, <3>1
      <4> QED
        BY <2>2, <4>2, <4>3, <4>4 DEF Known
    <3>2. CASE k \notin HubFilters(h)
      <4>1. pdo[p].state = "missing" => pdo'[p].state = "missing"
        BY <1>4, <1>5
      <4> QED
        BY <1>0, <1>3, <2>3, <2>4, <3>2, <4>1
    <3> QED
      BY <3>1, <3>2
  <2> QED
    BY <1>3, <1>6, <2>1, <2>3, <2>5
<1>8. \A g \in Tgts : Live(g)' => Live(g) \/ \E c \in new : put[c] = g
  BY <1>3, <1>6
<1>9. Expected'
  <2>1. ASSUME NEW g \in Tgts, Live(g)'
        PROVE  (\/ filter[g].pdo \in filter[filter[g].parent].children
                \/ filter[g].pdo \in lost
                \/ pdo[filter[g].pdo].state = "missing")'
    <3>1. CASE Live(g)
      BY <1>7, <3>1
    <3>2. ASSUME NEW c \in new, put[c] = g
          PROVE  filter'[g].pdo \in filter'[filter'[g].parent].children
                 \/ filter'[g].pdo \in lost'
      <4>1. PICK f \in Filters, p \in Pdos : f = c[1] /\ p = c[2]
        BY <1>1
      <4>2. /\ filter'[g].pdo = p /\ filter'[g].parent = f /\ p \in Present(h)
            /\ f \in HubFilters(h) /\ \A e \in new : put[e] # f
        BY <1>1, <1>2, <3>2, <4>1
      <4> QED
        BY <1>0, <1>3, <4>2
    <3> QED
      BY <1>8, <2>1, <3>1, <3>2
  <2> QED
    BY <2>1 DEF Expected
<1>10. NoTwins'
  <2>1. ASSUME NEW c \in new, NEW g \in Tgts, Live(g), filter[g].parent = c[1],
               filter[g].pdo = c[2]
        PROVE  filter[g].pdo \in lost'
    <3>1. PICK f \in Filters, p \in Pdos : f = c[1] /\ p = c[2]
      BY <1>1
    <3>2. p \notin filter[f].children /\ pdo[p].state # "missing"
      BY <1>1, <1>5, <3>1
    <3>3. p \in filter[f].children \/ p \in lost \/ pdo[p].state = "missing"
      BY <2>1, <3>1 DEF KidsInv, Expected
    <3> QED
      BY <1>0, <2>1, <3>1, <3>2, <3>3
  <2>2. ASSUME NEW c \in new, NEW e \in new, c[1] = e[1], c[2] = e[2] PROVE c = e
    BY <1>0, <2>2 DEF ToAttach
  <2>3. ASSUME NEW f \in Tgts, NEW g \in Tgts, Live(f)', Live(g)',
               filter'[f].pdo = filter'[g].pdo, filter'[f].parent = filter'[g].parent
        PROVE  f = g \/ filter'[f].pdo \in lost'
    <3>1. CASE Live(f) /\ Live(g)
      BY <1>0, <1>7, <2>3, <3>1 DEF KidsInv, NoTwins
    <3>2. ASSUME NEW c \in new, put[c] = f, Live(g) PROVE filter'[f].pdo \in lost'
      BY <1>2, <1>7, <2>1, <2>3, <3>2
    <3>3. ASSUME NEW c \in new, put[c] = g, Live(f) PROVE filter'[f].pdo \in lost'
      BY <1>2, <1>7, <2>1, <2>3, <3>3
    <3>4. ASSUME NEW c \in new, NEW e \in new, put[c] = f, put[e] = g PROVE f = g
      BY <1>2, <2>2, <2>3, <3>4
    <3> QED
      BY <1>8, <2>3, <3>1, <3>2, <3>3, <3>4
  <2> QED
    BY <2>3 DEF NoTwins
(* A list that is not empty belongs to a hub filter of before.             *)
<1>11. ASSUME NEW f \in Filters, NEW q \in filter'[f].children, Visible(f)'
       PROVE  /\ \A c \in new : put[c] # f
              /\ Visible(f)
              /\ f # Root => filter[f].hub /\ filter'[f].pdo = filter[f].pdo
                             /\ f \in Tgts /\ filter[f].pdo \in Pdos
              /\ \/ f \in HubFilters(h) /\ q \in Present(h)
                 \/ f \notin HubFilters(h) /\ q \in filter[f].children
  <2>1. \A c \in new : put[c] # f
    BY <1>2, <1>11
  <2>2. \/ f \in HubFilters(h) /\ q \in Present(h)
        \/ f \notin HubFilters(h) /\ q \in filter[f].children
    BY <1>3, <1>11, <2>1
  <2>3. f # Root => f \in Tgts /\ filter[f].hub /\ filter'[f].pdo = filter[f].pdo
    BY <1>3, <2>1, <2>2 DEF HubFilters, LockInv, Idle, Filters
  <2>4. f # Root => Live(f)
    BY <1>6, <2>3 DEF LockInv, Idle
  <2>5. f # Root => filter[f].pdo \in Pdos /\ pdo[filter[f].pdo].state \in Known
    BY <2>3, <2>4, FilterPlaces
  <2>6. Visible(f)
    <3>1. CASE f = Root
      BY <3>1 DEF Visible
    <3>2. CASE f # Root
      <4>1. PICK p \in Pdos : p = filter[f].pdo
        BY <2>5, <3>2
      <4>2. pdo'[p].state \in {"listed", "unplugged"}
        BY <1>11, <2>3, <3>2, <4>1 DEF Visible
      <4>3. pdo[p].state \in {"listed", "unplugged"}
        BY <1>4, <1>5, <2>5, <3>2, <4>1, <4>2 DEF Known
      <4> QED
        BY <4>1, <4>3 DEF Visible
    <3> QED
      BY <3>1, <3>2
  <2> QED
    BY <2>1, <2>2, <2>3, <2>5, <2>6
<1>12. KidsThere'
  <2>1. ASSUME NEW f \in Filters, NEW q \in filter'[f].children, Visible(f)'
        PROVE  /\ pdo'[q].hub = (IF f = Root THEN Root ELSE filter'[f].pdo)
               /\ pdo'[q].state \in {"listed", "unplugged"}
    <3>1. CASE f \in HubFilters(h)
      <4>1. q \in Present(h)
        BY <1>11, <2>1, <3>1
      <4>2. h = (IF f = Root THEN Root ELSE filter'[f].pdo)
        BY <1>6, <1>11, <2>1, <3>1 DEF HubFilters, FiltersOn
      <4> QED
        BY <1>4, <1>5, <4>1, <4>2
    <3>2. CASE f \notin HubFilters(h)
      <4>1. q \in filter[f].children /\ Visible(f) /\ q \in Pdos
        BY <1>11, <2>1, <3>2 DEF LockInv, TypeOK, FilterData
      <4>2. /\ pdo[q].hub = (IF f = Root THEN Root ELSE filter[f].pdo)
            /\ pdo[q].state \in {"listed", "unplugged"}
        BY <2>1, <4>1 DEF KidsInv, KidsThere
      <4>3. pdo[q].hub # h
        BY <1>6, <1>11, <2>1, <3>2, <4>2 DEF HubFilters, FiltersOn
      <4> QED
        BY <1>4, <1>5, <1>11, <2>1, <4>1, <4>2, <4>3
    <3> QED
      BY <3>1, <3>2
  <2> QED
    BY <2>1 DEF KidsThere
<1>13. ASSUME NEW f \in Filters, NEW q \in filter'[f].children, Visible(f)'
       PROVE  <<f, q>> \in missed' \/ \E g \in Tgts : filter'[g].pdo = q /\ filter'[g].parent = f
  <2>1. ASSUME q \in filter[f].children
        PROVE  <<f, q>> \in missed' \/ \E g \in Tgts : filter'[g].pdo = q /\ filter'[g].parent = f
    <3>1. <<f, q>> \in missed \/ \E g \in Tgts : filter[g].pdo = q /\ filter[g].parent = f
      BY <1>11, <1>13, <2>1 DEF KidsInv, ChildrenFiltered, Visible, FiltersOn
    <3>2. q \in Pdos
      BY <2>1 DEF LockInv, TypeOK, FilterData
    <3>3. \A g \in Tgts : filter[g].pdo = q => Live(g)
      BY <1>6, <3>2, NoFilterData DEF LockInv, Idle
    <3> QED
      BY <1>0, <1>7, <3>1, <3>3
  <2>2. ASSUME f \in HubFilters(h), q \in Present(h), q \notin filter[f].children
        PROVE  <<f, q>> \in missed' \/ \E g \in Tgts : filter'[g].pdo = q /\ filter'[g].parent = f
    <3>1. PICK c : c = <<f, q>>
      OBVIOUS
    <3>2. c[1] = f /\ c[2] = q /\ c \in HubFilters(h) \X Present(h)
      BY <2>2, <3>1
    <3>3. c \in ToAttach(h)
      BY <2>2, <3>2 DEF ToAttach, NewChildren
    <3>4. CASE c \in failed
      BY <1>0, <3>1, <3>4
    <3>5. CASE c \notin failed
      BY <1>0, <1>1, <1>2, <3>2, <3>3, <3>5
    <3> QED
      BY <3>4, <3>5
  <2> QED
    BY <1>11, <1>13, <2>1, <2>2
<1>14. ChildrenFiltered'
  BY <1>13 DEF ChildrenFiltered, Visible, FiltersOn
<1> QED
  BY <1>9, <1>10, <1>12, <1>14 DEF KidsInv

LEMMA KidsInit == Init => KidsInv
BY TgtLive, NoFilterData
   DEF Init, KidsInv, Expected, NoTwins, KidsThere, ChildrenFiltered, Filters

LEMMA KidsStep == LockInv /\ KidsInv /\ [Next]_vars => KidsInv'
<1> SUFFICES ASSUME LockInv, KidsInv, [Next]_vars PROVE KidsInv'
  OBVIOUS
<1>1. CASE AddDevice
  BY <1>1, AddDeviceKids
<1>2. CASE RemoveHub \/ DeleteControl
  BY <1>2, KidsFrame DEF RemoveHub, DeleteControl
<1>3. CASE DeleteHub
  BY <1>3, DeleteHubKids
<1>4. ASSUME NEW f \in Tgts, DetachTgt(f) \/ RemoveDevice(f) PROVE KidsInv'
  BY <1>4, KidsFrame DEF DetachTgt, RemoveDevice
<1>5. ASSUME NEW f \in Tgts, DeleteTgt(f) PROVE KidsInv'
  BY <1>5, DeleteTgtKids
<1>6. ASSUME NEW p \in Pdos, NEW h \in Pdos \cup {Root}, Plug(p, h) PROVE KidsInv'
  BY <1>6, PlugKids
<1>7. ASSUME NEW p \in Pdos, Unplug(p) \/ Vanish(p) \/ RemoveUnfiltered(p) PROVE KidsInv'
  BY <1>7, UnplugKids, VanishKids, RemoveUnfilteredKids
<1>8. ASSUME NEW p \in Pdos, NEW told \in SUBSET FiltersOn(p), StartDevice(p, told)
      PROVE  KidsInv'
  BY <1>8, StartDeviceKids
<1>9. ASSUME NEW h \in Pdos \cup {Root}, QueryForward(h) \/ QueryFailed(h) PROVE KidsInv'
  BY <1>9, KidsFrame DEF QueryForward, QueryFailed
<1>10. ASSUME NEW h \in Pdos \cup {Root}, NEW failed \in SUBSET ToAttach(h),
              NEW forgot \in SUBSET HubFilters(h), QueryDone(h, failed, forgot)
       PROVE  KidsInv'
  BY <1>10, QueryDoneKids
<1>11. ASSUME NEW r \in Reqs, NEW d, NEW at, Entered(r, d, at) PROVE KidsInv'
  BY <1>11, KidsFrame DEF Entered
<1>12. ASSUME NEW r \in Reqs, RequestStep(r) PROVE KidsInv'
  BY <1>12, KidsFrame DEF RequestStep, Return, DkTgtInDevCtl, Pended,
                          DkTgtInDevCtlCompletion
<1>13. CASE \/ UNCHANGED vars \/ DropStack
            \/ \E attached \in BOOLEAN : AddDeviceFails(attached)
  BY <1>13, KidsFrame DEF vars, DropStack, AddDeviceFails
<1> QED
  BY <1>1, <1>2, <1>3, <1>4, <1>5, <1>6, <1>7, <1>8, <1>9, <1>10, <1>11, <1>12, <1>13
     DEF Next, PnpStep, Dispatch, DkPower, DkInDevCtl

(* The lists of children and the filters agree in every behaviour.         *)
THEOREM KidsKnown == Spec => []KidsInv
<1>1. Init => KidsInv
  BY KidsInit
<1>2. LockInv /\ KidsInv /\ [Next]_vars => KidsInv'
  BY KidsStep
<1> QED
  BY <1>1, <1>2, LocksAndLifetimes, PTL DEF Spec

(* A known child of a hub filter has its filter or was counted as missed:  *)
(* a PDO used again for a new device is never taken for a known one.       *)
THEOREM KnownChildrenFiltered == Spec => []ChildrenFiltered
<1>1. KidsInv => ChildrenFiltered
  BY DEF KidsInv
<1> QED
  BY <1>1, KidsKnown, PTL

LEMMA TwoMembers ==
  ASSUME NEW S, IsFiniteSet(S)
  PROVE  Cardinality(S) > 1 <=> \E x, y \in S : x # y
<1>1. ASSUME Cardinality(S) > 1 PROVE \E x, y \in S : x # y
  <2>1. S # {}
    BY <1>1, FS_EmptySet
  <2>2. PICK x \in S : TRUE
    BY <2>1
  <2>3. Cardinality(S) = 1 <=> \E y : S = {y}
    BY FS_Singleton
  <2>4. S # {x}
    BY <1>1, <2>3
  <2> QED
    BY <2>2, <2>4
<1>2. ASSUME NEW x \in S, NEW y \in S, x # y PROVE Cardinality(S) > 1
  <2>1. Cardinality(S) \in Nat /\ Cardinality(S) # 0
    BY FS_CardinalityType, FS_EmptySet
  <2>2. Cardinality(S) # 1
    BY <1>2, FS_Singleton
  <2> QED
    BY <2>1, <2>2
<1> QED
  BY <1>1, <1>2

(* Every URB of a device is seen by one filter, for any tree of hubs,      *)
(* unless a list of children was lost or the hub above has two filters.    *)
THEOREM OneFilter == Spec => []OneFilterPerDevice
<1>1. LockInv /\ KidsInv => OneFilterPerDevice
  <2> SUFFICES ASSUME LockInv, KidsInv, NEW p \in Pdos, Cardinality(FiltersOn(p)) > 1,
                      p \notin lost
               PROVE  Cardinality(FiltersOn(pdo[p].hub)) > 1
    BY DEF OneFilterPerDevice
  <2>1. \A q : IsFiniteSet(FiltersOn(q))
    BY FilterAssumption, FS_Subset DEF FiltersOn
  <2>2. PICK f \in FiltersOn(p), g \in FiltersOn(p) : f # g
    BY <2>1, TwoMembers
  <2>3. /\ f \in Tgts /\ g \in Tgts /\ filter[f].pdo = p /\ filter[g].pdo = p
        /\ f \in Filters /\ g \in Filters
    BY <2>2 DEF FiltersOn, Filters
  <2>4. Live(f) /\ Live(g)
    BY <2>3, TgtLive, NoFilterData, FilterAssumption DEF LockInv, Idle
  <2>5. filter[f].parent # filter[g].parent
    BY <2>2, <2>3, <2>4 DEF KidsInv, NoTwins
  <2>6. PICK h \in Pdos \cup {Root} : h = pdo[p].hub
    BY <2>3, <2>4, FilterPlaces
  <2>7. filter[f].parent \in HubFilters(h) /\ filter[g].parent \in HubFilters(h)
    BY <2>3, <2>4, <2>6, FilterPlaces
  <2>8. filter[f].parent \in FiltersOn(h) /\ filter[g].parent \in FiltersOn(h)
    BY <2>5, <2>7 DEF HubFilters
  <2>9. IsFiniteSet(FiltersOn(h))
    BY <2>1
  <2>10. \E x, y \in FiltersOn(h) : x # y
    BY <2>5, <2>8
  <2> QED
    BY <2>6, <2>9, <2>10, TwoMembers
<1> QED
  BY <1>1, LocksAndLifetimes, KidsKnown, PTL
=============================================================================
