----------------------------- MODULE PlantBinding -----------------------------
(***************************************************************************)
(* Which system stands for which plant of a Deye account, and whose its    *)
(* devices are: the import and the linking of                              *)
(* backend/src/systems/provider-discovery/                                 *)
(* provider-plant-discovery.service.ts, the two syncs of                   *)
(* deye-connections/deye-station-sync.service.ts, and the creation and     *)
(* removal of systems in systems.service.ts.                               *)
(*                                                                         *)
(* A plant is known by (sourceSystem, stationId), which is unique in the   *)
(* table, rows of removed systems included.  Imports and links are         *)
(* transactions; the syncs write row by row.  The provider lists every     *)
(* plant, with one device; one it does not list is not touched.  Owners,   *)
(* prices and measurements do not matter to these steps, and the mark      *)
(* DISCONNECTED is read by none of them.                                   *)
(***************************************************************************)
EXTENDS Naturals

CONSTANTS
  Plants, Systems,
  Requests,             \* requests of staff and of the schedule, in flight together
  NoPlant, NoSystem     \* no element of Plants, of Systems

VARIABLES
  system,      \* rows of SolarSystem
  device,      \* rows of Device, by plant
  request,     \* local state of every request
  moved,       \* requests that were at work when a system last changed its plant
  unsettled    \* plants whose device was last written by one of those, or whose
               \* system has been given another plant since

vars == <<system, device, request, moved, unsettled>>

-----------------------------------------------------------------------------
SystemRow == [state : {"none", "live", "deleted"}, plant : Plants \cup {NoPlant}]
DeviceRow == [state : {"none", "live", "deleted"}, system : Systems \cup {NoSystem}]

Request ==
  [pc : {"idle", "store", "device", "bind", "clear", "own", "link"},
   plant : Plants \cup {NoPlant}, system : Systems \cup {NoSystem}, target : Systems \cup {NoSystem}]

At(pc, p, s) == [pc |-> pc, plant |-> p, system |-> s, target |-> NoSystem]
Idle == At("idle", NoPlant, NoSystem)

Become(r, state) == request' = [request EXCEPT ![r] = state]
Working == {r \in Requests : request[r] # Idle}

(* A request begins with its first reading. *)
Begin(r, state) ==
  /\ request[r] = Idle
  /\ Become(r, state)
  /\ moved' = moved \ {r}
  /\ UNCHANGED <<system, device, unsettled>>

(* The rows that hold the unique key of the plant, and those that queries    *)
(* see, which all ask for deletedAt: null.                                   *)
Holders(p) == {s \in Systems : system[s].plant = p}
Seen(p) == {s \in Holders(p) : system[s].state = "live"}
Fresh == {s \in Systems : system[s].state = "none"}

(* Request r gives system s plant p, and the devices of another plant that it *)
(* had are out of place.                                                     *)
Rebound(r, s, p) ==
  IF system[s].plant = p THEN UNCHANGED <<moved, unsettled>>
  ELSE /\ moved' = moved \cup (Working \ {r})
       /\ unsettled' = unsettled \cup {q \in Plants \ {p} : device[q].system = s}

(* A device is upserted by (stationId, deviceSn).                            *)
StoredBy(r, p, s) ==
  /\ device' = [device EXCEPT ![p] = [state |-> "live", system |-> s]]
  /\ unsettled' = IF r \in moved THEN unsettled \cup {p} ELSE unsettled \ {p}

-----------------------------------------------------------------------------
(* importPlants: one transaction for a plant of the provider's list.          *)
Import(p) ==
  /\ \E s \in IF Holders(p) # {} THEN Holders(p) ELSE Fresh :
       /\ system' = IF Holders(p) # {} THEN system
                    ELSE [system EXCEPT ![s] = [state |-> "live", plant |-> p]]
       /\ device' = [device EXCEPT ![p] = [state |-> "live", system |-> s]]
  /\ unsettled' = unsettled \ {p}
  /\ UNCHANGED <<request, moved>>

-----------------------------------------------------------------------------
(* syncStations: every plant of the list in turn, statement by statement.     *)
(* Nothing is carried from one plant to the next.                             *)
Look(r, p) ==
  \E s \in IF Seen(p) # {} THEN Seen(p) ELSE {NoSystem} :
    Begin(r, At("store", p, s))

(* upsertSystem writes the row it has found, or creates one.  The unique key  *)
(* refuses both while another row holds the plant, and the sync ends.         *)
Upsert(r, p, found) ==
  \/ /\ found # NoSystem /\ Holders(p) \subseteq {found}
     /\ system' = [system EXCEPT ![found].plant = p]
     /\ Rebound(r, found, p)
     /\ Become(r, At("device", p, found))
  \/ /\ found = NoSystem /\ Holders(p) = {}
     /\ \E s \in Fresh :
          /\ system' = [system EXCEPT ![s] = [state |-> "live", plant |-> p]]
          /\ Become(r, At("device", p, s))
     /\ UNCHANGED <<moved, unsettled>>
  \/ /\ ~(Holders(p) \subseteq {found})
     /\ Become(r, Idle)
     /\ UNCHANGED <<system, moved, unsettled>>

Store(r) ==
  /\ request[r].pc = "store"
  /\ Upsert(r, request[r].plant, request[r].system)
  /\ UNCHANGED device

StoreDevice(r) ==
  /\ request[r].pc = "device"
  /\ StoredBy(r, request[r].plant, request[r].system)
  /\ Become(r, Idle)
  /\ UNCHANGED <<system, moved>>

-----------------------------------------------------------------------------
(* syncStationToSystem: staff give a system one plant of the list, which may  *)
(* have had another.                                                          *)
CheckBind(r, s, p) ==
  /\ system[s].state = "live" /\ Seen(p) \subseteq {s}
  /\ Begin(r, At("bind", p, s))

Bind(r) ==
  LET p == request[r].plant
      s == request[r].system
  IN
  /\ request[r].pc = "bind"
  /\ IF Holders(p) \subseteq {s}
     THEN /\ system' = [system EXCEPT ![s].plant = p]
          /\ Rebound(r, s, p)
          /\ Become(r, At("clear", p, s))
     ELSE Become(r, Idle) /\ UNCHANGED <<system, moved, unsettled>>
  /\ UNCHANGED device

(* The devices that the system had of other plants                            *)
OutOfPlace(r) ==
  {q \in Plants \ {request[r].plant} : device[q] = [state |-> "live", system |-> request[r].system]}

ClearOld(r) ==
  /\ request[r].pc = "clear"
  /\ device' = [q \in Plants |-> IF q \in OutOfPlace(r) THEN [device[q] EXCEPT !.state = "deleted"]
                                 ELSE device[q]]
  /\ unsettled' = unsettled \ OutOfPlace(r)
  /\ Become(r, At("own", request[r].plant, request[r].system))
  /\ UNCHANGED <<system, moved>>

OwnDevice(r) ==
  /\ request[r].pc = "own"
  /\ StoredBy(r, request[r].plant, request[r].system)
  /\ Become(r, Idle)
  /\ UNCHANGED <<system, moved>>

-----------------------------------------------------------------------------
(* linkImportedSystem: the imported system s is merged into t and archived.   *)
(* The plant of s is remembered.  A system with contracts or billing records  *)
(* is refused too.                                                            *)
Review(r, s, t) ==
  /\ s # t
  /\ system[s].state = "live" /\ system[t].state = "live"
  /\ system[s].plant # NoPlant /\ system[t].plant = NoPlant
  /\ Begin(r, [pc |-> "link", plant |-> system[s].plant, system |-> s, target |-> t])

(* Faulty variant of Link: the devices stay with the archived system.         *)
LinkWithoutDevices(r) ==
  LET s == request[r].system
      t == request[r].target
      p == request[r].plant
  IN
  /\ request[r].pc = "link"
  /\ IF Holders(p) \subseteq {s, t}
     THEN /\ system' = [system EXCEPT ![s] = [state |-> "deleted", plant |-> NoPlant],
                                      ![t].plant = p]
          /\ moved' = moved \cup (Working \ {r})
          /\ UNCHANGED <<device, unsettled>>
     ELSE UNCHANGED <<system, device, moved, unsettled>>
  /\ Become(r, Idle)

(* The transaction, which is rolled back if another row has got the plant.    *)
Link(r) ==
  LET s == request[r].system
      t == request[r].target
      p == request[r].plant
  IN
  /\ request[r].pc = "link"
  /\ IF Holders(p) \subseteq {s, t}
     THEN /\ system' = [system EXCEPT ![s] = [state |-> "deleted", plant |-> NoPlant],
                                      ![t].plant = p]
          /\ device' = [q \in Plants |-> IF device[q].system = s THEN [device[q] EXCEPT !.system = t]
                                         ELSE device[q]]
          /\ moved' = moved \cup (Working \ {r})
          /\ unsettled' = unsettled \cup {q \in Plants \ {p} : device[q].system \in {s, t}}
     ELSE UNCHANGED <<system, device, moved, unsettled>>
  /\ Become(r, Idle)

-----------------------------------------------------------------------------
(* Systems entered by hand have no plant; a removed one keeps its plant.      *)
Create(s) ==
  /\ system[s].state = "none"
  /\ system' = [system EXCEPT ![s].state = "live"]
  /\ UNCHANGED <<device, request, moved, unsettled>>

Remove(s) ==
  /\ system[s].state = "live"
  /\ system' = [system EXCEPT ![s].state = "deleted"]
  /\ UNCHANGED <<device, request, moved, unsettled>>

(* A request ends early: a statement fails, or the backend restarts.          *)
Fails(r) ==
  /\ request[r] # Idle
  /\ Become(r, Idle)
  /\ UNCHANGED <<system, device, moved, unsettled>>

-----------------------------------------------------------------------------
Init ==
  /\ system = [s \in Systems |-> [state |-> "none", plant |-> NoPlant]]
  /\ device = [p \in Plants |-> [state |-> "none", system |-> NoSystem]]
  /\ request = [r \in Requests |-> Idle]
  /\ moved = {}
  /\ unsettled = {}

Next ==
  \/ \E r \in Requests :
       \/ Store(r) \/ StoreDevice(r) \/ Bind(r) \/ ClearOld(r) \/ OwnDevice(r)
       \/ Link(r) \/ Fails(r)
       \/ \E p \in Plants : Look(r, p)
       \/ \E s \in Systems : \E p \in Plants : CheckBind(r, s, p)
       \/ \E s, t \in Systems : Review(r, s, t)
  \/ \E p \in Plants : Import(p)
  \/ \E s \in Systems : Create(s) \/ Remove(s)

Spec == Init /\ [][Next]_vars

-----------------------------------------------------------------------------
(* Properties *)

(* The unique key holds, and the local states are what the code can have.     *)
TypeOK ==
  /\ system \in [Systems -> SystemRow]
  /\ \A s, t \in Systems : system[s].plant # NoPlant /\ system[s].plant = system[t].plant => s = t
  /\ device \in [Plants -> DeviceRow]
  /\ request \in [Requests -> Request]
  /\ moved \subseteq Requests /\ unsettled \subseteq Plants

(* The devices of a plant belong to the system that stands for the plant,     *)
(* through imports, syncs, links, another plant for the system, removals and  *)
(* requests that stop anywhere: only a sync or a binding that was at work     *)
(* when a system changed its plant, or a binding that did not end, can leave  *)
(* them elsewhere, until the next undisturbed writer.                         *)
DevicesFollowPlant ==
  \A p \in Plants \ unsettled :
    device[p].state = "live" => system[device[p].system].plant = p
=============================================================================
