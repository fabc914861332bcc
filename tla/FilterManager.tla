---------------------------- MODULE FilterManager ----------------------------
(***************************************************************************)
(* The filter devices of one root hub: the hub filter with its control     *)
(* device, and a target filter on every USB device below the hub.          *)
(* USBPcapFilterManager.c, USBPcapPnP.c, USBPcapPower.c, the create and    *)
(* delete of USBPcapRootHubControl.c, and the remove-lock side of every    *)
(* dispatch routine.                                                       *)
(*                                                                         *)
(* A dispatch routine works under the remove lock of its device and a URB  *)
(* under two of them, one until the dispatch routine returns, one until    *)
(* the completion routine has run.  The removal of a device waits for its  *)
(* lock, the data of a root hub lives until the last reference is dropped. *)
(*                                                                         *)
(* External: the PnP manager does one operation at a time on the tree, has *)
(* children removed before their parent and drops a device when its hub    *)
(* stops to report it; bus and function drivers complete every request and *)
(* send none to a device after its removal, nor to a stack whose AddDevice *)
(* failed.  A device extension lives until its handler returns.            *)
(*                                                                         *)
(* Definitions named Faulty... are deliberately wrong variants of the one  *)
(* that follows; they show which property would notice the mistake.        *)
(***************************************************************************)
EXTENDS Integers, FiniteSets, Functions

CONSTANTS
  Pdos,            \* physical device objects, used again once deleted
  Hubs,            \* those of them that are hubs
  Tgts,            \* target filter devices at a time
  Root, Control,   \* the hub filter and the control device
  Reqs,            \* requests inside the driver at a time
  NoPdo            \* no device

Filters == {Root} \cup Tgts
Devices == {Root, Control} \cup Tgts

ASSUME FilterAssumption ==
  /\ Hubs \subseteq Pdos
  /\ Root # Control /\ {Root, Control} \cap Tgts = {}
  /\ NoPdo \notin Pdos \cup Devices /\ Root \notin Pdos
  /\ IsFiniteSet(Tgts) /\ IsFiniteSet(Reqs) /\ IsFiniteSet(Pdos)

VARIABLES
  pdo,             \* external: each PDO, its state and the hub it hangs on
  filter,          \* hub and target filters: state, PDO, parent, children
  control,         \* whether the control device is there
  lock,            \* remove locks: acquisitions, and whether removed
  refCount,        \* pRootData->refCount, 0 when the data is freed
  req,             \* requests: device, kind of lock holding
  pnp,             \* the PnP operation under way
  missed,          \* history: devices whose filter could not be attached
  lost,            \* history: devices that a lost list of children named
  dangling         \* whether a deleted hub filter is on the stack of the hub

vars == <<pdo, filter, control, lock, refCount, req, pnp, missed, lost, dangling>>

NoFilter == [state |-> "none", pdo |-> NoPdo, parent |-> NoPdo, hub |-> FALSE,
             children |-> {}]
NoReq    == [on |-> NoPdo, at |-> "none"]
Unlocked == [count |-> 0, removed |-> FALSE]
NoDevice == [state |-> "gone", hub |-> NoPdo]
Quiet    == [op |-> "none", on |-> NoPdo]

Init ==
  /\ pdo = [p \in Pdos |-> NoDevice]
  /\ filter = [f \in Filters |-> NoFilter]
  /\ control = FALSE
  /\ lock = [d \in Devices |-> Unlocked]
  /\ refCount = 0
  /\ req = [r \in Reqs |-> NoReq]
  /\ pnp = Quiet
  /\ missed = {}
  /\ lost = {}
  /\ dangling = FALSE

Live(d) == IF d = Control THEN control ELSE filter[d].state # "none"
FiltersOn(p) == {f \in Tgts : filter[f].pdo = p}

(* IoAcquireRemoveLock and IoReleaseRemoveLock n times.                    *)
Acquire(d, n) == [lock EXCEPT ![d].count = @ + n]
Release(d, n) == [lock EXCEPT ![d].count = @ - n]
-----------------------------------------------------------------------------
(* External: devices are plugged in and out.  A PDO that its hub reported  *)
(* stays until the PnP manager has removed it.                             *)
HubWorks(h) ==
  IF h = Root THEN filter[Root].state # "none" /\ pnp.op # "removeHub"
  ELSE h \in Hubs /\ pdo[h].state = "listed"

Plug(p, h) ==
  /\ pdo[p].state = "gone"
  /\ h # p /\ HubWorks(h)
  /\ pdo' = [pdo EXCEPT ![p] = [state |-> "plugged", hub |-> h]]
  /\ UNCHANGED <<filter, control, lock, refCount, req, pnp, missed, lost, dangling>>

Unplug(p) ==
  /\ pdo[p].state = "listed"
  /\ pdo' = [pdo EXCEPT ![p].state = "unplugged"]
  /\ UNCHANGED <<filter, control, lock, refCount, req, pnp, missed, lost, dangling>>
-----------------------------------------------------------------------------
(* USBPcapAllocateDeviceData for n devices below the root hub.             *)
Referenced(n) == refCount + n

FaultyDereferenced == refCount              \* the reference is kept

(* USBPcapFreeDeviceData: the root hub's data goes with the last one.      *)
Dereferenced == refCount - 1

(* USBPcapCreateRootHubControlDevice: the control device holds the remove  *)
(* lock of the hub filter.                                                 *)
CreateRootHubControlDevice ==
  /\ control' = TRUE
  /\ lock' = [lock EXCEPT ![Root] = [count |-> 1, removed |-> FALSE],
                          ![Control] = Unlocked]

(* AddDevice for a root hub: the filter is made, attached, and gets its    *)
(* control device.                                                         *)
AddDevice ==
  /\ pnp = Quiet
  /\ filter[Root] = NoFilter /\ ~dangling
  /\ filter' = [filter EXCEPT ![Root].state = "started", ![Root].hub = TRUE]
  /\ CreateRootHubControlDevice
  /\ refCount' = 1
  /\ UNCHANGED <<pdo, req, pnp, missed, lost, dangling>>

(* A step of AddDevice fails.  Before the attach all is undone; when the   *)
(* control device cannot be made the data is freed and the filter deleted, *)
(* but nothing detaches it.                                                *)
AddDeviceFails(attached) ==
  /\ pnp = Quiet
  /\ filter[Root] = NoFilter /\ ~dangling
  /\ dangling' = attached
  /\ UNCHANGED <<pdo, filter, control, lock, refCount, req, pnp, missed, lost>>

(* External: the stack of the hub goes, with what is attached to it.       *)
DropStack ==
  /\ dangling
  /\ dangling' = FALSE
  /\ UNCHANGED <<pdo, filter, control, lock, refCount, req, pnp, missed, lost>>

(* IRP_MN_START_DEVICE of a target.  isHub is set in those of its filters  *)
(* that the hub driver told (USBPcapGetDeviceUSBInfo).                     *)
StartDevice(p, told) ==
  /\ pnp = Quiet
  /\ pdo[p].state = "listed"
  /\ \E f \in FiltersOn(p) : filter[f].state = "attached"
  /\ filter' = [f \in Filters |->
       IF f \in FiltersOn(p) /\ filter[f].state = "attached"
       THEN [filter[f] EXCEPT !.state = "started", !.hub = p \in Hubs /\ f \in told]
       ELSE filter[f]]
  /\ UNCHANGED <<pdo, control, lock, refCount, req, pnp, missed, lost, dangling>>
-----------------------------------------------------------------------------
(* The filters of hub h that look after its children, all of which see a   *)
(* query of the hub's relations.                                           *)
HubFilters(h) ==
  IF h = Root THEN {Root} ELSE {f \in FiltersOn(h) : filter[f].hub}

OnHub(h, states) ==
  {p \in Pdos : pdo[p].hub = h /\ pdo[p].state \in states}

Present(h) == OnHub(h, {"plugged", "listed"})

(* DkHubFltPnpHandleQryDevRels, BusRelations: the lock is taken by the     *)
(* caller and once more, and the hub driver is asked.                      *)
QueryForward(h) ==
  /\ pnp = Quiet
  /\ HubWorks(h)
  /\ HubFilters(h) # {}
  /\ pnp' = [op |-> "query", on |-> h]
  /\ lock' = [d \in Devices |-> [lock[d] EXCEPT
                !.count = IF d \in HubFilters(h) THEN @ + 2 ELSE @]]
  /\ UNCHANGED <<pdo, filter, control, refCount, req, missed, lost, dangling>>

(* The hub driver failed the query or reported no list.                    *)
QueryFailed(h) ==
  /\ pnp = [op |-> "query", on |-> h]
  /\ pnp' = Quiet
  /\ lock' = [d \in Devices |-> [lock[d] EXCEPT
                !.count = IF d \in HubFilters(h) THEN @ - 2 ELSE @]]
  /\ UNCHANGED <<pdo, filter, control, refCount, req, missed, lost, dangling>>

FaultyNewChildren(f, h) == Present(h)       \* does not look for known children

(* The reported children that are not in previousChildren of f.            *)
NewChildren(f, h) == Present(h) \ filter[f].children

FaultyRemembered(f, h, forgot) ==           \* adds to the old list
  IF f \in forgot THEN {} ELSE filter[f].children \cup Present(h)

(* previousChildren afterwards: replaced, or lost for want of memory.      *)
Remembered(f, h, forgot) == IF f \in forgot THEN {} ELSE Present(h)

ToAttach(h) == {c \in HubFilters(h) \X Present(h) : c[2] \in NewChildren(c[1], h)}

(* DkCreateAndAttachTgt for each pair of a hub filter and a child, with    *)
(* put choosing the new filter device.                                     *)
Attached(new, put) ==
  [g \in Tgts |-> IF \E c \in new : put[c] = g
                  THEN LET c == CHOOSE c \in new : put[c] = g IN
                       [NoFilter EXCEPT !.state = "attached",
                                        !.parent = c[1], !.pdo = c[2]]
                  ELSE filter[g]]

(* The hub driver has answered: the new children get a filter, which takes *)
(* the remove lock of its parent and a reference to the root data.  Those  *)
(* in failed do not, the attempt is undone.  Then the list of children is  *)
(* replaced, or lost in the filters in forgot.  The PnP manager learns of  *)
(* the children and of the missing ones.                                   *)
QueryDone(h, failed, forgot) ==
  LET new  == ToAttach(h) \ failed
      free == {g \in Tgts : filter[g] = NoFilter}
      put  == CHOOSE i \in Injection(new, free) : TRUE
      all  == [f \in Filters |-> IF f = Root THEN filter[Root]
                                  ELSE Attached(new, put)[f]]
  IN
  /\ pnp = [op |-> "query", on |-> h]
  /\ Cardinality(new) <= Cardinality(free)
  /\ filter' = [f \in Filters |->
       IF f \in HubFilters(h)
       THEN [all[f] EXCEPT !.children = Remembered(f, h, forgot)] ELSE all[f]]
  /\ lock' = [d \in Devices |-> [lock[d] EXCEPT
       !.count = IF d \in HubFilters(h)
                 THEN @ + Cardinality({c \in new : c[1] = d}) - 2 ELSE @]]
  /\ refCount' = Referenced(Cardinality(new))
  /\ pdo' = [p \in Pdos |->
       CASE p \in Present(h) -> [pdo[p] EXCEPT !.state = "listed"]
         [] p \in OnHub(h, {"unplugged"}) -> [pdo[p] EXCEPT !.state = "missing"]
         [] OTHER -> pdo[p]]
  /\ missed' = missed \cup failed
  /\ lost' = IF forgot = {} THEN lost ELSE lost \cup Present(h)
  /\ pnp' = Quiet
  /\ UNCHANGED <<control, req, dangling>>
-----------------------------------------------------------------------------
(* External: with a hub the PnP manager misses the devices below it,       *)
Vanish(p) ==
  /\ pnp = Quiet
  /\ pdo[p].state \in {"plugged", "listed", "unplugged"}
  /\ pdo[p].hub \in Pdos /\ pdo[pdo[p].hub].state = "missing"
  /\ pdo' = [pdo EXCEPT ![p].state = "missing"]
  /\ UNCHANGED <<filter, control, lock, refCount, req, pnp, missed, lost, dangling>>

(* and it removes a missing device p once its children are gone.           *)
Removable(p) ==
  /\ pdo[p].state = "missing"
  /\ \A q \in Pdos : pdo[q].hub # p

(* A device that has no filter goes without the driver.                    *)
RemoveUnfiltered(p) ==
  /\ pnp = Quiet
  /\ Removable(p)
  /\ FiltersOn(p) = {}
  /\ pdo' = [pdo EXCEPT ![p] = NoDevice]
  /\ missed' = {c \in missed : c[2] # p}
  /\ lost' = lost \ {p}
  /\ UNCHANGED <<filter, control, lock, refCount, req, pnp, dangling>>

(* IRP_MN_REMOVE_DEVICE of a target: lock, forward, release and wait.  The *)
(* filter below has done so when the IRP comes back.                       *)
RemoveDevice(f) ==
  /\ filter[f].state # "none"
  /\ \/ pnp = Quiet /\ Removable(filter[f].pdo)
     \/ pnp = [op |-> "next", on |-> filter[f].pdo]
  /\ pnp' = [op |-> "remove", on |-> f]
  /\ lock' = [lock EXCEPT ![f].removed = TRUE]
  /\ UNCHANGED <<pdo, filter, control, refCount, req, missed, lost, dangling>>

(* DkDetachAndDeleteTgt: the lock of the parent is released first, then    *)
(* the device is detached and deleted and its data freed.                  *)
DetachTgt(f) ==
  /\ pnp = [op |-> "remove", on |-> f]
  /\ lock[f].count = 0
  /\ lock' = Release(filter[f].parent, 1)
  /\ pnp' = [pnp EXCEPT !.op = "delete"]
  /\ UNCHANGED <<pdo, filter, control, refCount, req, missed, lost, dangling>>

DeleteTgt(f) ==
  LET p    == filter[f].pdo
      last == FiltersOn(p) = {f}
  IN
  /\ pnp = [op |-> "delete", on |-> f]
  /\ filter' = [filter EXCEPT ![f] = NoFilter]
  /\ lock' = [lock EXCEPT ![f] = Unlocked]
  /\ refCount' = Dereferenced
  /\ pdo' = IF last THEN [pdo EXCEPT ![p] = NoDevice] ELSE pdo
  /\ lost' = IF last THEN lost \ {p} ELSE lost
  /\ missed' = {c \in missed : c[1] # f /\ (last => c[2] # p)}
  /\ pnp' = IF last THEN Quiet ELSE [op |-> "next", on |-> p]
  /\ UNCHANGED <<control, req, dangling>>

(* IRP_MN_REMOVE_DEVICE of the root hub, which has no device left: the     *)
(* control device first, waiting for its lock.                             *)
RemoveHub ==
  /\ pnp = Quiet
  /\ filter[Root].state # "none"
  /\ \A p \in Pdos : pdo[p].state = "gone"
  /\ pnp' = [op |-> "removeHub", on |-> Root]
  /\ lock' = [lock EXCEPT ![Root].count = @ + 1, ![Control].removed = TRUE]
  /\ UNCHANGED <<pdo, filter, control, refCount, req, missed, lost, dangling>>

(* USBPcapDeleteRootHubControlDevice goes on, the hub filter then waits.   *)
DeleteControl ==
  /\ pnp.op = "removeHub" /\ control
  /\ lock[Control].count = 0
  /\ control' = FALSE
  /\ lock' = [lock EXCEPT ![Control] = Unlocked,
                          ![Root] = [count |-> @.count - 2, removed |-> TRUE]]
  /\ UNCHANGED <<pdo, filter, refCount, req, pnp, missed, lost, dangling>>

(* DkDetachAndDeleteHubFilt.                                               *)
DeleteHub ==
  /\ pnp.op = "removeHub" /\ ~control
  /\ lock[Root].count = 0
  /\ filter' = [filter EXCEPT ![Root] = NoFilter]
  /\ lock' = [lock EXCEPT ![Root] = Unlocked]
  /\ refCount' = Dereferenced
  /\ pnp' = Quiet
  /\ UNCHANGED <<pdo, control, req, missed, lost, dangling>>
-----------------------------------------------------------------------------
(* A request takes the remove lock of its device; once the device is being *)
(* removed it is completed with an error, which changes nothing.           *)
Entered(r, d, at) ==
  /\ req[r] = NoReq
  /\ Live(d) /\ ~lock[d].removed
  /\ lock' = Acquire(d, 1)
  /\ req' = [req EXCEPT ![r] = [on |-> d, at |-> at]]
  /\ UNCHANGED <<pdo, filter, control, refCount, pnp, missed, lost, dangling>>

(* DkDefault, DkDevCtl, DkReadWrite, DkCreateClose: passed on, or handled  *)
(* by the control device with the data of the root hub.                    *)
Dispatch(r, d) == Entered(r, d, "in")

FaultyDkPower(r, d) ==                      \* no filter passes a power IRP on
  Entered(r, d, "kept")

(* DkPower: a filter passes the IRP on.  The control device has no device  *)
(* below it: there the IRP is failed and the lock is kept for good.        *)
DkPower(r, d) == Entered(r, d, IF d = Control THEN "kept" ELSE "in")

(* The dispatch routine gives the lock back and returns.                   *)
Return(r) ==
  /\ req[r].at \in {"in", "leaving"}
  /\ lock' = Release(req[r].on, 1)
  /\ req' = [req EXCEPT ![r] = NoReq]
  /\ UNCHANGED <<pdo, filter, control, refCount, pnp, missed, lost, dangling>>

(* DkInDevCtl with a URB for a started target.                             *)
DkInDevCtl(r, f) ==
  /\ filter[f].state = "started"
  /\ Entered(r, f, "entered")

FaultyTgtInDevCtl(r) ==                     \* relies on the lock of the caller
  /\ req[r].at = "entered"
  /\ req' = [req EXCEPT ![r].at = "sent"]
  /\ lock' = Acquire(req[r].on, 0)
  /\ UNCHANGED <<pdo, filter, control, refCount, pnp, missed, lost, dangling>>

(* DkTgtInDevCtl takes the lock again, which the removal may have closed   *)
(* in between, has the URB analyzed and sends it down.                     *)
DkTgtInDevCtl(r) ==
  LET d == req[r].on IN
  /\ req[r].at = "entered"
  /\ IF lock[d].removed
     THEN req' = [req EXCEPT ![r].at = "leaving"] /\ UNCHANGED lock
     ELSE req' = [req EXCEPT ![r].at = "sent"] /\ lock' = Acquire(d, 1)
  /\ UNCHANGED <<pdo, filter, control, refCount, pnp, missed, lost, dangling>>

(* The dispatch routine returns while the URB is below.                    *)
Pended(r) ==
  /\ req[r].at = "sent"
  /\ req' = [req EXCEPT ![r].at = "pending"]
  /\ lock' = Release(req[r].on, 1)
  /\ UNCHANGED <<pdo, filter, control, refCount, pnp, missed, lost, dangling>>

FaultyCompletion(r) ==                      \* releases only a pended URB's lock
  /\ req[r].at \in {"sent", "pending"}
  /\ req' = [req EXCEPT ![r] = IF @.at = "sent" THEN [@ EXCEPT !.at = "leaving"]
                               ELSE NoReq]
  /\ lock' = IF req[r].at = "sent" THEN lock ELSE Release(req[r].on, 1)
  /\ UNCHANGED <<pdo, filter, control, refCount, pnp, missed, lost, dangling>>

(* DkTgtInDevCtlCompletion analyzes the URB and releases the second lock,  *)
(* before or after the dispatch routine has returned.                      *)
DkTgtInDevCtlCompletion(r) ==
  /\ req[r].at \in {"sent", "pending"}
  /\ req' = [req EXCEPT ![r] = IF @.at = "sent" THEN [@ EXCEPT !.at = "leaving"]
                               ELSE NoReq]
  /\ lock' = Release(req[r].on, 1)
  /\ UNCHANGED <<pdo, filter, control, refCount, pnp, missed, lost, dangling>>

RequestStep(r) ==
  Return(r) \/ DkTgtInDevCtl(r) \/ Pended(r) \/ DkTgtInDevCtlCompletion(r)

PnpStep ==
  \/ DeleteControl \/ DeleteHub
  \/ \E f \in Tgts : DetachTgt(f) \/ DeleteTgt(f)

Next ==
  \/ AddDevice \/ DropStack \/ RemoveHub \/ PnpStep
  \/ \E attached \in BOOLEAN : AddDeviceFails(attached)
  \/ \E p \in Pdos : \/ \E h \in Pdos \cup {Root} : Plug(p, h)
                     \/ Unplug(p) \/ Vanish(p) \/ RemoveUnfiltered(p)
                     \/ \E told \in SUBSET FiltersOn(p) : StartDevice(p, told)
  \/ \E f \in Tgts : RemoveDevice(f)
  \/ \E h \in Pdos \cup {Root} :
       \/ QueryForward(h) \/ QueryFailed(h)
       \/ \E failed \in SUBSET ToAttach(h), forgot \in SUBSET HubFilters(h) :
            QueryDone(h, failed, forgot)
  \/ \E r \in Reqs :
       \/ \E d \in Devices : Dispatch(r, d)
       \/ \E d \in Devices : DkPower(r, d)
       \/ \E f \in Tgts : DkInDevCtl(r, f)
       \/ RequestStep(r)

(* Fairness: the completion of every request, which the drivers below owe, *)
(* and the steps of a removal that has begun.                              *)
Fairness == WF_vars(PnpStep) /\ \A r \in Reqs : WF_vars(RequestStep(r))

Spec == Init /\ [][Next]_vars /\ Fairness
-----------------------------------------------------------------------------
PdoStates == {"gone", "plugged", "listed", "unplugged", "missing"}
Stages    == {"none", "in", "entered", "sent", "pending", "leaving", "kept"}
PnpOps    == {"none", "query", "remove", "delete", "next", "removeHub"}
FilterData == [state : {"none", "attached", "started"}, pdo : Pdos \cup {NoPdo},
               parent : Filters \cup {NoPdo}, hub : BOOLEAN, children : SUBSET Pdos]

(* The values the variables take; no remove lock is released more often    *)
(* than it was acquired, and neither is the root hub's data.               *)
TypeOK ==
  /\ pdo \in [Pdos -> [state : PdoStates, hub : Pdos \cup {Root, NoPdo}]]
  /\ filter \in [Filters -> FilterData]
  /\ control \in BOOLEAN
  /\ lock \in [Devices -> [count : Nat, removed : BOOLEAN]]
  /\ refCount \in Nat
  /\ req \in [Reqs -> [on : Devices \cup {NoPdo}, at : Stages]]
  /\ pnp \in [op : PnpOps, on : Pdos \cup Filters \cup {NoPdo}]
  /\ missed \subseteq Filters \X Pdos /\ lost \subseteq Pdos

(* Who holds the remove lock of d: its requests, a URB a second time while *)
(* it is below and its dispatch routine has not returned, and the filters  *)
(* attached under it.                                                      *)
RequestsOn(d) == {r \in Reqs : req[r].on = d}
SentBelow(d)  == {r \in Reqs : req[r].on = d /\ req[r].at = "sent"}
AttachedTo(d) == {f \in Tgts : filter[f].parent = d
                               /\ pnp # [op |-> "delete", on |-> f]}

(* Every acquisition of a remove lock is owed to a request, to a filter    *)
(* attached below, to the control device or to the PnP operation under     *)
(* way: no path of a dispatch routine, of the completion or of the attach  *)
(* and detach pairs keeps a lock or gives one back twice, but that of a    *)
(* power IRP on the control device, which is counted as never returned.    *)
Owed(d) ==
  Cardinality(RequestsOn(d)) + Cardinality(SentBelow(d)) + Cardinality(AttachedTo(d))
  + (IF d = Root /\ control THEN 1 ELSE 0)
  + (IF pnp.op = "query" /\ d \in HubFilters(pnp.on) THEN 2 ELSE 0)
  + (IF d = Root /\ pnp.op = "removeHub" /\ control THEN 1 ELSE 0)

LocksOwed == \A d \in Devices : lock[d].count = Owed(d)

(* While a request is in the driver its device is there, and so is what it *)
(* goes to: the data of the root hub, for a URB below the filter also the  *)
(* control device whose reads it will complete, for a request on the       *)
(* control device the hub filter.  The removal waits for all of them.      *)
NoUseAfterFree ==
  \A r \in Reqs : req[r].at # "none" =>
    /\ Live(req[r].on)
    /\ req[r].on \in Tgts => refCount > 0
    /\ req[r].at \in {"entered", "sent", "pending"} => control
    /\ req[r].on = Control => Live(Root) /\ refCount > 0

(* "RootHub is supposed to hold the last reference": the count is that of  *)
(* the filters, and no target is left when the hub filter goes.            *)
RootHoldsLast ==
  /\ refCount = Cardinality({f \in Filters : Live(f)})
  /\ Live(Root) \/ refCount = 0

(* No device has two filters, so that each URB is seen once, unless the    *)
(* list of known children could not be allocated, which makes its devices  *)
(* new ones in the next pass, or its hub has two.                          *)
OneFilterPerDevice ==
  \A p \in Pdos : Cardinality(FiltersOn(p)) > 1 =>
    p \in lost \/ Cardinality(FiltersOn(pdo[p].hub)) > 1

(* What a hub filter remembers as known children are devices that exist    *)
(* below its hub and have its filter, or the attempt failed: a PDO that is *)
(* used again for a new device is never taken for a known one.             *)
ChildrenFiltered ==
  \A f \in Filters : \A p \in filter[f].children :
    (f = Root \/ pdo[filter[f].pdo].state \in {"listed", "unplugged"}) =>
      \/ <<f, p>> \in missed
      \/ \E g \in FiltersOn(p) : filter[g].parent = f

(* A removal that has begun comes to an end: its device is gone, and the   *)
(* lock that closed with it.  The one exception is a power IRP that was    *)
(* sent to the control device: the lock it kept holds up its removal, and  *)
(* with it that of the hub, for ever.                                      *)
RemovalEnds ==
  \A d \in Devices :
    lock[d].removed ~> \/ ~lock[d].removed
                       \/ d = Control /\ \E r \in Reqs : req[r].at = "kept"
=============================================================================
