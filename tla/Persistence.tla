----------------------------- MODULE Persistence -----------------------------
(***************************************************************************)
(* The persisted record of a VM (runv/hypervisor/persistence.go) and the   *)
(* qemu driver's part of it (QemuContext.Dump / QemuDriver.LoadContext).   *)
(*                                                                         *)
(* dump() flattens the VM context into a PersistInfo; serialize() and      *)
(* vmDeserialize() carry it through JSON; vmContext() rebuilds a context   *)
(* from it.  These are modelled as operators.  To apply them to the        *)
(* contexts a VM can really have, a small state machine grows and shrinks  *)
(* the device maps of one VM (hot-plug and unplug, ids from the VM's       *)
(* counters, spec 4.5) and launches its qemu process; the properties apply *)
(* the operators to every context it reaches.                              *)
(*                                                                         *)
(* Device data is abstracted to what the round trip can lose: names, SCSI  *)
(* ids, owning containers, mount points, NIC indexes and PCI addresses.    *)
(* The driver map is abstracted to the Go dynamic type of each value,      *)
(* which is what JSON changes.                                             *)
(***************************************************************************)
EXTENDS Naturals, Sequences, FiniteSets, SequencesExt

CONSTANTS
    Names,          \* device names (keys of imageMap and volumeMap)
    Containers,     \* container indexes of the pod
    MountPoints,    \* volume mount paths inside containers (not "/")
    NicIdx,         \* NIC indexes (keys of networkMap)
    MaxId           \* bound on the PCI and SCSI counters

VARIABLES ctx       \* the VM context

NoMap == [x \in {} |-> 0]

\* f extended or overwritten at key k.
Put(f, k, v) == [x \in DOMAIN f \cup {k} |-> IF x = k THEN v ELSE f[x]]
\* f without key k.
Del(f, k) == [x \in DOMAIN f \ {k} |-> f[x]]

-----------------------------------------------------------------------------
(* dump, serialize, vmDeserialize, vmContext.                              *)

\* QemuContext.Dump fails when no process runs; otherwise it returns the
\* map {"hypervisor": "qemu", "qmpSock": <string>, "pid": <int>},
\* abstracted to the dynamic type of each value.
DumpOk(c) == c.process

DriverDump == [hypervisor |-> "string", qmpSock |-> "string", pid |-> "int"]

\* Faulty variant: an image recorded without its mount point.
ImageRecordNoMount(n, img) ==
    [name |-> n, scsi |-> img.scsi, cs |-> << img.pos >>, mps |-> << >>]

\* An image: one container index, mount point "/".
ImageRecord(n, img) ==
    [name |-> n, scsi |-> img.scsi, cs |-> << img.pos >>, mps |-> << "/" >>]

\* A volume: Containers and MontPoints filled pairwise from vol.pos.
VolumeRecord(n, vol) ==
    LET idx == SetToSeq(DOMAIN vol.pos) IN
    [name |-> n, scsi |-> vol.scsi, cs |-> idx,
     mps |-> [i \in DOMAIN idx |-> vol.pos[idx[i]]]]

\* dump() of a context with DumpOk: the driver map, dumpHwInfo,
\* VolumeList and NetworkList.  VolumeList is filled in map order;
\* vmContext is insensitive to it, so the list is kept as a set.
Dump(c) ==
         [driver |-> DriverDump,
          hw     |-> [pci |-> c.pciAddr, scsi |-> c.scsiId],
          vols   |-> {ImageRecord(n, c.images[n]) : n \in DOMAIN c.images}
                     \cup {VolumeRecord(n, c.volumes[n]) : n \in DOMAIN c.volumes},
          nets   |-> {[index |-> i, pci |-> c.nets[i]] : i \in DOMAIN c.nets}]

\* serialize() then vmDeserialize(): json.Marshal and json.Unmarshal keep
\* every typed field; a number inside the map[string]interface{} driver
\* info comes back as float64, a string as string.
Json(r) ==
    [r EXCEPT !.driver = [k \in DOMAIN @ |-> IF @[k] = "int" THEN "float64" ELSE @[k]]]

\* QemuDriver.LoadContext: the hypervisor entry, a string qmpSock and an
\* int pid are required.
LoadContextOk(drv) ==
    /\ "hypervisor" \in DOMAIN drv
    /\ "qmpSock" \in DOMAIN drv /\ drv.qmpSock = "string"
    /\ "pid" \in DOMAIN drv /\ drv.pid = "int"

IsImageRecord(v) == Len(v.mps) = 1 /\ v.mps[1] = "/"

\* vmContext's rebuild of the device maps: a volume entry whose Containers
\* and MontPoints differ in length is corruption; an entry with the single
\* mount point "/" goes into imageMap; any other entry builds a volumeInfo
\* that is never stored, so volumeMap keeps InitContext's empty map.
Corrupt(r) == \E v \in r.vols : Len(v.cs) # Len(v.mps)

RebuildDevices(r) ==
         LET imgs == {v \in r.vols : IsImageRecord(v)} IN
         [images  |-> [n \in {v.name : v \in imgs} |->
                         LET v == CHOOSE w \in imgs : w.name = n
                         IN  [scsi |-> v.scsi, pos |-> v.cs[1]]],
          volumes |-> NoMap,
          nets    |-> [i \in {x.index : x \in r.nets} |->
                         (CHOOSE x \in r.nets : x.index = i).pci]]

\* loadHwStatus: the counters verbatim.
LoadHwStatus(r) == [pciAddr |-> r.hw.pci, scsiId |-> r.hw.scsi]

\* vmContext: LoadContext, then the counters, then the device maps; it
\* returns an error when the driver info is rejected or a volume entry is
\* corrupt, and the rebuilt context otherwise.
RestoreOk(r) == LoadContextOk(r.driver) /\ ~Corrupt(r)

Restore(r) == RebuildDevices(r) @@ LoadHwStatus(r) @@ [process |-> TRUE]

-----------------------------------------------------------------------------
(* The VM whose context is dumped (spec 4.5: ids come from per-VM counters *)
(* that persist across add and remove).                                    *)

Used(c) == DOMAIN c.images \cup DOMAIN c.volumes

(* An image is attached to container k with the next SCSI id.             *)
AttachImage(n, k) ==
    /\ n \notin Used(ctx)
    /\ ctx.scsiId < MaxId
    /\ ctx' = [ctx EXCEPT !.images = Put(@, n, [scsi |-> ctx.scsiId, pos |-> k]),
                          !.scsiId = @ + 1]

(* A volume is attached with the next SCSI id and mounted by the           *)
(* containers of pos.                                                      *)
AttachVolume(n, pos) ==
    /\ n \notin Used(ctx)
    /\ ctx.scsiId < MaxId
    /\ ctx' = [ctx EXCEPT !.volumes = Put(@, n, [scsi |-> ctx.scsiId, pos |-> pos]),
                          !.scsiId = @ + 1]

(* A NIC is created with the next PCI address.                            *)
AttachNic(i) ==
    /\ i \notin DOMAIN ctx.nets
    /\ ctx.pciAddr < MaxId
    /\ ctx' = [ctx EXCEPT !.nets = Put(@, i, ctx.pciAddr), !.pciAddr = @ + 1]

(* A device is removed; the counters keep their values.                   *)
Detach(n) ==
    /\ n \in Used(ctx)
    /\ ctx' = [ctx EXCEPT !.images = Del(@, n), !.volumes = Del(@, n)]

DetachNic(i) ==
    /\ i \in DOMAIN ctx.nets
    /\ ctx' = [ctx EXCEPT !.nets = Del(@, i)]

(* The qemu process is started (QemuContext.process is set by watchPid).  *)
Launch ==
    /\ ~ctx.process
    /\ ctx' = [ctx EXCEPT !.process = TRUE]

\* The mount maps a volume can have: one or more containers, each at one
\* mount point.
VolumePos == UNION {[S -> MountPoints] : S \in SUBSET Containers \ {{}}}

Init ==
    ctx = [images |-> NoMap, volumes |-> NoMap, nets |-> NoMap,
           pciAddr |-> 0, scsiId |-> 0, process |-> FALSE]

Next ==
    \/ \E n \in Names, k \in Containers : AttachImage(n, k)
    \/ \E n \in Names, pos \in VolumePos : AttachVolume(n, pos)
    \/ \E i \in NicIdx : AttachNic(i)
    \/ \E n \in Names : Detach(n)
    \/ \E i \in NicIdx : DetachNic(i)
    \/ Launch

Spec == Init /\ [][Next]_ctx

-----------------------------------------------------------------------------
(* Properties.                                                             *)

TypeOK ==
    /\ DOMAIN ctx.images \subseteq Names
    /\ DOMAIN ctx.volumes \subseteq Names
    /\ DOMAIN ctx.images \cap DOMAIN ctx.volumes = {}
    /\ \A n \in DOMAIN ctx.images : ctx.images[n] \in [scsi : 0..MaxId, pos : Containers]
    /\ \A n \in DOMAIN ctx.volumes : ctx.volumes[n] \in [scsi : 0..MaxId, pos : VolumePos]
    /\ DOMAIN ctx.nets \subseteq NicIdx
    /\ \A i \in DOMAIN ctx.nets : ctx.nets[i] \in 0..MaxId
    /\ ctx.pciAddr \in 0..MaxId /\ ctx.scsiId \in 0..MaxId
    /\ ctx.process \in BOOLEAN

\* The record a running VM is persisted as, after its trip through JSON.
Stored == Json(Dump(ctx))

(* The device maps rebuilt by vmContext from the stored record of a        *)
(* running VM give back the VM's images (name, SCSI id, owning container)  *)
(* and NICs (index, PCI address), and loadHwStatus gives back both         *)
(* counters, so ids allocated after a restore never collide with the       *)
(* restored devices: dump's flattening of images to one container and      *)
(* mount point "/" must match vmContext's test for an image entry.         *)
ImagesNicsCountersRoundTrip ==
    DumpOk(ctx) =>
        /\ ~Corrupt(Stored)
        /\ RebuildDevices(Stored).images = ctx.images
        /\ RebuildDevices(Stored).nets = ctx.nets
        /\ LoadHwStatus(Stored) = [pciAddr |-> ctx.pciAddr, scsiId |-> ctx.scsiId]

(* The volume map rebuilt by vmContext from the stored record gives back   *)
(* the VM's volumes with their SCSI ids and per-container mount points     *)
(* (spec 4.6: "rebuild image/volume maps ... from the flattened lists").   *)
VolumesRoundTrip ==
    DumpOk(ctx) => RebuildDevices(Stored).volumes = ctx.volumes

(* A running VM whose record was dumped can be restored from it: vmContext *)
(* of the stored record yields a context, not an error.                    *)
RestoreAfterDump ==
    DumpOk(ctx) => RestoreOk(Stored)

=============================================================================
