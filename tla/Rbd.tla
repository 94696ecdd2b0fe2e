-------------------------------- MODULE Rbd ----------------------------------
(***************************************************************************)
(* The rbd graph driver of the embedded docker daemon                      *)
(* (lib/docker/daemon/graphdriver/rbd): layers are rbd images cloned from  *)
(* a protected snapshot of the base image, their DevInfo is kept in the    *)
(* map Devices and saved as a metadata object in the pool, and Get/Put     *)
(* map and mount an image with a mount count.                              *)
(*                                                                         *)
(* Every public call of a layer runs under that layer's info.lock (or the  *)
(* base's lock for AddDevice), and docker never removes a layer it has     *)
(* mounted or creates one twice, so each driver call is one atomic action. *)
(* Each call that talks to ceph, rbd(8) or mount(2) may fail at each step; *)
(* an outcome is the set of states the handler can return in.  The daemon *)
(* may restart (Devices and the in-memory DevInfo are lost, the pool and   *)
(* the kernel's mappings and mounts are kept), and Cleanup shuts it down.  *)
(*                                                                         *)
(* Driver.Init sets up the base image (setupBaseImage) at every start of   *)
(* the daemon; the driver serves calls only when that returned nil.  A     *)
(* layer is a clone of the base's snapshot, so it has a filesystem exactly *)
(* when the base has one.                                                  *)
(***************************************************************************)
EXTENDS Naturals, FiniteSets

CONSTANTS
    Layers,         \* layer ids (hash) docker creates on the base image
    MaxRefs,        \* bound on the Gets docker holds on one layer
    MaxRestarts     \* bound on daemon restarts

VARIABLES
    \* the pool
    snap,       \* snap[h]: the base's snapshot for h: "none", "unprotected", "protected"
    image,      \* image[h]: the cloned image of h exists
    meta,       \* meta[h]: the metadata object of h exists
    \* the daemon
    devs,       \* the keys of Devices
    lay,        \* lay[h]: [count |-> mountCount, dev |-> Device # "",
                \*          kmap |-> kernel mappings, kmnt |-> stacked mounts]
    crashed,    \* the daemon panicked
    down,       \* the driver serves no calls: Shutdown ran, or Driver.Init failed or has not run
    restarts,
    inited,     \* Driver.Init has run since the daemon started
    base,       \* the base image: [img, meta, fs] (image, metadata object, mkfs done)
    \* docker's view
    layers,     \* the layers docker holds (Create returned nil)
    removed,    \* the layers docker removed (Remove returned nil)
    refs        \* refs[h]: Gets returned nil minus Puts

vars == << snap, image, meta, devs, lay, crashed, down, restarts, inited, base,
           layers, removed, refs >>

\* The daemon is up and has not panicked.
Live == ~crashed /\ ~down

\* Faulty variant: mountCount and Device saved with the metadata.
FreshPersisted(l) == l

\* A DevInfo as loadMetadata builds it: no mount count, no Device.
Fresh(l) == [l EXCEPT !.count = 0, !.dev = FALSE]

\* One outcome of a step: the layer's state and whether it returned nil.
Out(l, ok) == [st |-> l, ok |-> ok]

-----------------------------------------------------------------------------
(* The steps shared by the calls, as the sets of their outcomes.           *)

\* mapImageToRbdDevice: nothing when Device is set; otherwise `rbd map`
\* (fails when the image is gone or rbd fails), then imageIsMapped reads
\* the new device from `rbd showmapped`; when that fails the error is
\* returned with the kernel mapping made and Device still unset.
MapImage(l, img) ==
    IF l.dev THEN {Out(l, TRUE)}
    ELSE {Out(l, FALSE)} \cup
         (IF img THEN {Out([l EXCEPT !.dev = TRUE, !.kmap = @ + 1], TRUE),
                       Out([l EXCEPT !.kmap = @ + 1], FALSE)} ELSE {})

\* unmapImageFromRbdDevice: nothing when Device is unset; Device is
\* cleared with nil returned when showmapped does not list the image, or
\* fails (its error is dropped, and the mapping is left); otherwise
\* `rbd unmap` may fail, leaving Device set.
UnmapImage(l) ==
    IF ~l.dev THEN {Out(l, TRUE)}
    ELSE IF l.kmap = 0 THEN {Out([l EXCEPT !.dev = FALSE], TRUE)}
    ELSE {Out(l, FALSE), Out([l EXCEPT !.dev = FALSE], TRUE),
          Out([l EXCEPT !.dev = FALSE, !.kmap = @ - 1], TRUE)}

\* MountDevice under info.lock (docker always mounts a layer at
\* home/mnt/<id>, so the path check never fails): a mounted layer only
\* counts; otherwise map, then mount(2) (which may fail with the image
\* left mapped, and always fails on a clone of a base without a
\* filesystem), then mountCount = 1.
MountDevice(l, img) ==
    IF l.count > 0 THEN {Out([l EXCEPT !.count = @ + 1], TRUE)}
    ELSE UNION {IF ~m.ok THEN {m}
                ELSE {Out(m.st, FALSE)} \cup
                     (IF base.fs THEN {Out([m.st EXCEPT !.kmnt = @ + 1, !.count = 1], TRUE)}
                      ELSE {})
                : m \in MapImage(l, img)}

\* Faulty variant: unmount whenever Put is called.
UnmountDeviceAlways(l) ==
    IF l.count = 0 THEN {Out(l, FALSE)}
    ELSE LET d == [l EXCEPT !.count = @ - 1] IN
         {Out(d, FALSE)} \cup
         (IF d.kmnt > 0 THEN UnmapImage([d EXCEPT !.kmnt = @ - 1]) ELSE {})

\* UnmountDevice under info.lock: an error when not counted; mountCount
\* is decremented first; the last one unmounts (umount(2) may fail, and
\* fails when nothing is mounted) and then unmaps.
UnmountDevice(l) ==
    IF l.count = 0 THEN {Out(l, FALSE)}
    ELSE LET d == [l EXCEPT !.count = @ - 1] IN
         IF d.count > 0 THEN {Out(d, TRUE)}
         ELSE {Out(d, FALSE)} \cup
              (IF d.kmnt > 0 THEN UnmapImage([d EXCEPT !.kmnt = @ - 1]) ELSE {})

\* lookupDevice: the entry of Devices, else the DevInfo loaded from the
\* metadata object (and added to Devices), else nil.
Known(h) == h \in devs \/ meta[h]

LoadedLay(h) == IF h \in devs THEN lay ELSE [lay EXCEPT ![h] = Fresh(@)]

\* Get of a layer lookupDevice returns nil for: MountDevice dereferences
\* the nil *DevInfo (info.lock.Lock()) and the daemon panics.
Panic(h) ==
    /\ Live /\ h \in layers /\ refs[h] < MaxRefs
    /\ ~Known(h)
    /\ crashed' = TRUE
    /\ UNCHANGED << snap, image, meta, devs, lay, down, restarts, inited, base, layers, removed, refs >>

-----------------------------------------------------------------------------
(* Driver.Create: AddDevice(id, "").  Its early return for a layer that   *)
(* lookupDevice finds is not reached: docker creates a layer id once.      *)

\* The snapshots createImage can leave behind when it fails: snapshot
\* creation, Protect (which always fails on a protected snapshot) or
\* Clone fails.
SnapAfterFailure(s) ==
    CASE s = "none"        -> {"none", "unprotected", "protected"}
      [] s = "unprotected" -> {"unprotected", "protected"}
      [] s = "protected"   -> {"protected"}

\* lookupDevice("") finds the base only through its metadata object (or
\* the entry registerDevice left, which it deletes when the save fails):
\* when none was saved it returns nil, nil, and baseInfo.lock.Lock()
\* dereferences the nil *DevInfo: the daemon panics.
CreatePanic(h) ==
    /\ Live /\ h \notin layers \cup removed
    /\ ~base.meta
    /\ crashed' = TRUE
    /\ UNCHANGED << snap, image, meta, devs, lay, down, restarts, inited, base, layers, removed, refs >>

\* createImage fails: the error is returned.
CreateImageFail(h) ==
    /\ Live /\ h \notin layers \cup removed
    /\ base.meta
    /\ ~Known(h)
    /\ \E s \in SnapAfterFailure(snap[h]) : snap' = [snap EXCEPT ![h] = s]
    /\ UNCHANGED << image, meta, devs, lay, crashed, down, restarts, inited, base, layers, removed, refs >>

\* createImage succeeds (Protect of a snapshot it created or found
\* unprotected, Clone to a new image), then registerDevice puts the
\* DevInfo in Devices and saves it; when the save fails the entry is
\* deleted again, but registerDevice returns nil, and so does AddDevice.
AddDevice(h) ==
    /\ Live /\ h \notin layers \cup removed
    /\ base.meta
    /\ ~Known(h)
    /\ snap[h] # "protected" /\ ~image[h]
    /\ snap' = [snap EXCEPT ![h] = "protected"]
    /\ image' = [image EXCEPT ![h] = TRUE]
    /\ \E saved \in BOOLEAN :
          /\ meta' = [meta EXCEPT ![h] = saved]
          /\ devs' = IF saved THEN devs \cup {h} ELSE devs
    /\ lay' = [lay EXCEPT ![h] = Fresh(@)]
    /\ layers' = layers \cup {h}
    /\ UNCHANGED << crashed, down, restarts, inited, base, removed, refs >>

-----------------------------------------------------------------------------
(* Driver.Get and Driver.Put.                                              *)

\* MountDevice; on success the rootfs directory and the id file are
\* written, and when that fails the layer is unmounted again and the
\* error returned.
Get(h) ==
    /\ Live /\ h \in layers /\ refs[h] < MaxRefs
    /\ Known(h)
    /\ devs' = devs \cup {h}
    /\ \E m \in MountDevice(LoadedLay(h)[h], image[h]) :
          \/ /\ m.ok
             /\ lay' = [lay EXCEPT ![h] = m.st]
             /\ refs' = [refs EXCEPT ![h] = @ + 1]
          \/ /\ ~m.ok
             /\ lay' = [lay EXCEPT ![h] = m.st]
             /\ UNCHANGED refs
          \/ /\ m.ok
             /\ \E u \in UnmountDevice(m.st) : lay' = [lay EXCEPT ![h] = u.st]
             /\ UNCHANGED refs
    /\ UNCHANGED << snap, image, meta, crashed, down, restarts, inited, base, layers, removed >>

\* UnmountDevice; its error is logged and nil returned.
Put(h) ==
    /\ Live /\ refs[h] > 0
    /\ Known(h)
    /\ devs' = devs \cup {h}
    /\ \E u \in UnmountDevice(LoadedLay(h)[h]) : lay' = [lay EXCEPT ![h] = u.st]
    /\ refs' = [refs EXCEPT ![h] = @ - 1]
    /\ UNCHANGED << snap, image, meta, crashed, down, restarts, inited, base, layers, removed >>

-----------------------------------------------------------------------------
(* Driver.Remove: HasDevice, then DeleteDevice (deleteImage under          *)
(* info.lock), then the mount directory is removed.                        *)

\* HasDevice is false (no entry, and no metadata object or its read
\* fails): nil, and nothing in the pool is touched.
RemoveUnknown(h) ==
    /\ Live /\ h \in layers /\ refs[h] = 0
    /\ h \notin devs
    /\ layers' = layers \ {h} /\ removed' = removed \cup {h}
    /\ UNCHANGED << snap, image, meta, devs, lay, crashed, down, restarts, inited, base, refs >>

\* deleteImage can remove the image only when it exists and no kernel
\* mapping watches it; the snapshot must then be opened (it exists),
\* unprotected (it is protected) and removed.
Removable(h) == image[h] /\ LoadedLay(h)[h].kmap = 0

\* The (image, snap) pairs a failed deleteImage leaves: img.Remove fails;
\* or the snapshot cannot be opened, unprotected or removed.
DeleteFailures(h) ==
    {<< image[h], snap[h] >>} \cup
    (IF ~Removable(h) THEN {}
     ELSE {<< FALSE, s >> : s \in {snap[h]} \cup
                              (IF snap[h] = "protected" THEN {"unprotected"} ELSE {})})

\* deleteImage returns an error.
DeleteFail(h) ==
    /\ Live /\ h \in layers /\ refs[h] = 0
    /\ Known(h)
    /\ devs' = devs \cup {h} /\ lay' = LoadedLay(h)
    /\ \E r \in DeleteFailures(h) :
          /\ image' = [image EXCEPT ![h] = r[1]]
          /\ snap' = [snap EXCEPT ![h] = r[2]]
    /\ UNCHANGED << meta, crashed, down, restarts, inited, base, layers, removed, refs >>

\* deleteImage succeeds up to unRegisterDevice, which deletes the entry
\* and the metadata object; when the latter fails the entry is put back,
\* and nil is returned either way.  Driver.Remove then removes the mount
\* directory, and returns its error when that fails.
Remove(h) ==
    /\ Live /\ h \in layers /\ refs[h] = 0
    /\ Known(h)
    /\ Removable(h) /\ snap[h] = "protected"
    /\ image' = [image EXCEPT ![h] = FALSE]
    /\ snap' = [snap EXCEPT ![h] = "none"]
    /\ lay' = LoadedLay(h)
    /\ \E deleted \in BOOLEAN :
          /\ meta' = [meta EXCEPT ![h] = ~deleted]
          /\ devs' = IF deleted THEN devs \ {h} ELSE devs \cup {h}
    /\ \/ layers' = layers \ {h} /\ removed' = removed \cup {h}
       \/ UNCHANGED << layers, removed >>
    /\ UNCHANGED << crashed, down, restarts, inited, base, refs >>

-----------------------------------------------------------------------------
(* Driver.Cleanup and daemon restart.                                      *)

\* The layer states Shutdown can leave: a counted layer is detached
\* (MNT_DETACH) and unmapped, errors ignored; mountCount is kept.
Detached(l) ==
    IF l.count = 0 THEN {l}
    ELSE {u.st : u \in UnmapImage([l EXCEPT !.kmnt = IF @ > 0 THEN @ - 1 ELSE 0])}

LayStates == UNION {Detached(lay[h]) : h \in Layers}

Shutdown ==
    /\ Live
    /\ \E g \in [Layers -> LayStates] :
          /\ \A h \in Layers : g[h] \in IF h \in devs THEN Detached(lay[h]) ELSE {lay[h]}
          /\ lay' = g
    /\ down' = TRUE
    /\ UNCHANGED << snap, image, meta, devs, crashed, restarts, inited, base, layers, removed, refs >>

\* The daemon restarts (after a panic, a Cleanup, or a kill): Devices and
\* every DevInfo are rebuilt from the pool on demand; the kernel keeps
\* its mappings and mounts; docker holds no mounts; Driver.Init runs next.
Restart ==
    /\ restarts < MaxRestarts
    /\ devs' = {}
    /\ lay' = [h \in Layers |-> Fresh(lay[h])]
    /\ crashed' = FALSE /\ down' = TRUE /\ inited' = FALSE
    /\ restarts' = restarts + 1
    /\ refs' = [h \in Layers |-> 0]
    /\ UNCHANGED << snap, image, meta, base, layers, removed >>

\* createFilesystem: mkfs.ext4 on the mapped device (tried again without
\* lazy_journal_init when it fails); whether a filesystem was made.  On an
\* unmapped image Device is "" and mkfs fails.
CreateFilesystem(mapped) == IF mapped THEN BOOLEAN ELSE {FALSE}

\* The base images setupBaseImage can leave, with whether it returned nil.
\* lookupDevice("") may fail to read the metadata; a base it finds is
\* used as it is (the check of Initialized is commented out).  Otherwise
\* rbd.Create (which fails when the image exists), registerDevice (whose
\* failed metadata save is ignored), the map (whose error is ignored),
\* and createFilesystem (which fails on an unmapped image, or when mkfs
\* fails); the deferred unmap's error is ignored.
SetupBaseImage(b) ==
    {Out(b, FALSE)} \cup
    IF b.meta THEN {Out(b, TRUE)}
    ELSE IF b.img THEN {}
    ELSE UNION {{Out([img |-> TRUE, meta |-> m, fs |-> fs], fs) : fs \in CreateFilesystem(mapped)}
                : m \in BOOLEAN, mapped \in BOOLEAN}

\* Driver.Init: NewRbdSet connects to the pool (which may fail) and runs
\* setupBaseImage, then the home directory is created (which may fail);
\* the driver serves calls only when all three returned nil.
Start ==
    /\ ~inited /\ ~crashed
    /\ inited' = TRUE
    /\ \E r \in SetupBaseImage(base), home \in BOOLEAN :
          /\ base' = r.st
          /\ down' = ~(r.ok /\ home)
    /\ UNCHANGED << snap, image, meta, devs, lay, crashed, restarts, layers, removed, refs >>

Init ==
    /\ snap = [h \in Layers |-> "none"]
    /\ image = [h \in Layers |-> FALSE]
    /\ meta = [h \in Layers |-> FALSE]
    /\ devs = {}
    /\ lay = [h \in Layers |-> [count |-> 0, dev |-> FALSE, kmap |-> 0, kmnt |-> 0]]
    /\ crashed = FALSE /\ down = TRUE /\ restarts = 0
    /\ inited = FALSE
    /\ base = [img |-> FALSE, meta |-> FALSE, fs |-> FALSE]
    /\ layers = {} /\ removed = {}
    /\ refs = [h \in Layers |-> 0]

Next ==
    \/ \E h \in Layers :
          \/ CreatePanic(h) \/ CreateImageFail(h) \/ AddDevice(h)
          \/ Get(h) \/ Panic(h) \/ Put(h)
          \/ RemoveUnknown(h) \/ DeleteFail(h) \/ Remove(h)
    \/ Start
    \/ Shutdown
    \/ Restart

\* Docker's calls are the environment: nothing obliges it to make any.
Spec == Init /\ [][Next]_vars

-----------------------------------------------------------------------------
(* Properties.                                                             *)

TypeOK ==
    /\ snap \in [Layers -> {"none", "unprotected", "protected"}]
    /\ image \in [Layers -> BOOLEAN] /\ meta \in [Layers -> BOOLEAN]
    /\ devs \subseteq Layers
    /\ lay \in [Layers -> [count : 0..MaxRefs, dev : BOOLEAN, kmap : Nat, kmnt : Nat]]
    /\ crashed \in BOOLEAN /\ down \in BOOLEAN /\ restarts \in 0..MaxRestarts
    /\ inited \in BOOLEAN /\ base \in [img : BOOLEAN, meta : BOOLEAN, fs : BOOLEAN]
    /\ layers \subseteq Layers /\ removed \subseteq Layers
    /\ refs \in [Layers -> 0..MaxRefs]

(* While the driver is up, a layer with a positive mountCount is mounted   *)
(* and mapped: MountDevice's fast path hands out home/mnt/<id> on the      *)
(* strength of mountCount alone, so every Get that returned nil and has    *)
(* not been Put must keep the filesystem mounted, through failed mounts,   *)
(* failed unmounts and unmaps, and failed id-file writes.                  *)
CountedIsMounted ==
    ~down => \A h \in devs : lay[h].count > 0 => lay[h].kmnt > 0 /\ lay[h].dev

(* mountCount of every layer in Devices equals the Gets docker holds on it *)
(* (Gets that returned nil minus Puts), and docker holds none on a layer   *)
(* that is not in Devices: Driver.Put ignores UnmountDevice's error, so a  *)
(* count out of step with docker is never repaired.                        *)
MountCountMatchesRefs ==
    \A h \in Layers :
        /\ h \in devs => lay[h].count = refs[h]
        /\ refs[h] > 0 => h \in devs

(* The daemon never panics: the base, and a layer for which Driver.Create *)
(* returned nil, are found by lookupDevice when docker creates a layer on  *)
(* the base or mounts the layer.                                           *)
NoPanic == ~crashed

=============================================================================
