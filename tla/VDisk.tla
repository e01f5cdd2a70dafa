-------------------------------- MODULE VDisk --------------------------------
(***************************************************************************)
(* rockbot.data, the virtual disk of rockbot-vdisk, with the length repair *)
(* that Store::open_volume of rockbot-storage adds on top.                 *)
(*                                                                         *)
(* The file holds one header, the manifest of its volumes, and their       *)
(* regions.  Every VolumeBackend (a handle here) keeps the copy of the     *)
(* manifest it read when it was opened; to change one length it writes     *)
(* that whole copy over the header, in place.  Nothing locks the file      *)
(* between handles, whether of one process or of several.                  *)
(*                                                                         *)
(* Sizes are counted in blocks of ALIGNMENT bytes; the region space starts *)
(* at block 1, after the header.                                           *)
(***************************************************************************)
EXTENDS Naturals, FiniteSets

CONSTANTS
    Volumes,
    Stores,       \* the volumes that hold a redb database; the others hold blobs
    Handles,      \* the users that can have the file open at once
    Capacity,     \* the capacity each volume is opened with
    BlobSizes,    \* bound: the capacities replace_bytes asks for
    DiskBlocks,   \* bound: regions end by this block
    Layout,       \* the volumes an earlier run left on a disk used "warm"
    Usages        \* the ways of using the disk that are considered

ASSUME VolumesAssumption ==
    /\ Volumes # {} /\ Stores \subseteq Volumes
    /\ Capacity \in [Volumes -> Nat \ {0}]
ASSUME UsagesAssumption == Usages \subseteq {"exclusive", "warm", "free"}
ASSUME LayoutAssumption ==
    /\ Layout \in [Volumes -> [off : Nat, cap : Nat, len : Nat \ {0}]]
    /\ \A v \in Volumes :
          /\ Layout[v].off >= 1 /\ Layout[v].len <= Layout[v].cap
          /\ Layout[v].off + Layout[v].cap <= DiskBlocks
    /\ \A u, v \in Volumes : u # v =>
          \/ Layout[u].off + Layout[u].cap <= Layout[v].off
          \/ Layout[v].off + Layout[v].cap <= Layout[u].off
ASSUME BoundAssumption == DiskBlocks \in Nat /\ BlobSizes \subseteq Nat \ {0}

VARIABLES
    usage,        \* how this disk is used, see below
    header,       \* the last manifest that was completely written
    torn,         \* the header bytes are partly overwritten
    cells,        \* the blocks written so far: by which volume, and for the
                  \* first block of a store the size redb recorded in it
    pc, vol,      \* where a handle stands, and the volume it is for
    copy,         \* its copy of the manifest
    region, len,  \* base_offset and capacity; logical_len
    writing,      \* the handles in the middle of persist_manifest
    mixed,        \* those of them whose writes overlap another's
    kept          \* history: the length each volume's last user was promised

headerVars == <<header, torn, writing, mixed>>
handleVars == <<pc, vol, copy, region, len>>
vars == <<usage, headerVars, cells, handleVars, kept>>

HeaderEnd == 1
Regions == [off : Nat, cap : Nat]
Records == [off : Nat, cap : Nat, len : Nat]
NoManifest == [v \in {} |-> HeaderEnd]

End(r) == r.off + r.cap
Overlap(r, s) == r.off < End(s) /\ s.off < End(r)

Put(m, v, r) == [u \in DOMAIN m \union {v} |-> IF u = v THEN r ELSE m[u]]
\* Mutant: remove_volume writes the manifest back with the volume in it.
MutWithout(m, v) == m
Without(m, v) == [u \in DOMAIN m \ {v} |-> m[u]]
SetLength(m, v, n) == Put(m, v, [m[v] EXCEPT !.len = n])

\* Mutant: the space in use is counted by the lengths.
MutIsNextOffset(m, o) ==
    /\ \A v \in DOMAIN m : m[v].off + m[v].len <= o
    /\ IF DOMAIN m = {} THEN o = HeaderEnd
       ELSE \E v \in DOMAIN m : m[v].off + m[v].len = o

\* o is where the next region goes: the largest end of a region of m.
IsNextOffset(m, o) ==
    /\ \A v \in DOMAIN m : End(m[v]) <= o
    /\ IF DOMAIN m = {} THEN o = HeaderEnd ELSE \E v \in DOMAIN m : End(m[v]) = o

\* What load_or_initialize_manifest may return.  While a header is being
\* written a reader can still see the old bytes, or already the new ones.
Readable ==
    IF torn THEN {header : h \in writing} \union {copy[h] : h \in writing}
            ELSE {header}

\* Handle h is dropped, with its copy of the manifest.
AnyVolume == CHOOSE v \in Volumes : TRUE
NoRegion == [off |-> HeaderEnd, cap |-> 0]
Dropped(hs) ==
    /\ pc' = [h \in Handles |-> IF h \in hs THEN "closed" ELSE pc[h]]
    /\ copy' = [h \in Handles |-> IF h \in hs THEN NoManifest ELSE copy[h]]
    /\ region' = [h \in Handles |-> IF h \in hs THEN NoRegion ELSE region[h]]
    /\ len' = [h \in Handles |-> IF h \in hs THEN 0 ELSE len[h]]
    /\ vol' = [h \in Handles |-> IF h \in hs THEN AnyVolume ELSE vol[h]]

(***************************************************************************)
(* How the disk is used.  "exclusive": one handle at a time, as the tests  *)
(* and the one-shot commands do.  "warm": one handle per volume, all live  *)
(* together as in a running gateway, on a disk whose volumes were created  *)
(* and filled by an earlier run, none removed.  "free": no rule.           *)
(***************************************************************************)
MayOpen(h, v) ==
    /\ usage = "exclusive" => \A g \in Handles \ {h} : pc[g] = "closed"
    /\ usage = "warm" => \A g \in Handles \ {h} : vol[g] = v => pc[g] = "closed"

Free(h, v) == pc[h] = "closed" \/ (pc[h] = "reopen" /\ v = vol[h])

\* Mutant: one block too many is added when the capacity is aligned.
MutOpenExisting(h, v) ==
    /\ Free(h, v)
    /\ MayOpen(h, v)
    /\ \E m \in Readable :
          /\ v \in DOMAIN m
          /\ copy' = [copy EXCEPT ![h] = m]
          /\ region' = [region EXCEPT ![h] = [off |-> m[v].off, cap |-> m[v].cap + 1]]
          /\ len' = [len EXCEPT ![h] = m[v].len]
    /\ pc' = [pc EXCEPT ![h] = "opened"]
    /\ vol' = [vol EXCEPT ![h] = v]
    /\ UNCHANGED <<usage, headerVars, cells, kept>>

\* VolumeBackend::open of a volume its manifest names.
OpenExisting(h, v) ==
    /\ Free(h, v)
    /\ MayOpen(h, v)
    /\ \E m \in Readable :
          /\ v \in DOMAIN m
          /\ copy' = [copy EXCEPT ![h] = m]
          /\ region' = [region EXCEPT ![h] = [off |-> m[v].off, cap |-> m[v].cap]]
          /\ len' = [len EXCEPT ![h] = m[v].len]
    /\ pc' = [pc EXCEPT ![h] = "opened"]
    /\ vol' = [vol EXCEPT ![h] = v]
    /\ UNCHANGED <<usage, headerVars, cells, kept>>

\* VolumeBackend::open of a volume its manifest does not name.
OpenNew(h, v) ==
    /\ Free(h, v)
    /\ MayOpen(h, v)
    /\ \E m \in Readable, o \in 0 .. DiskBlocks :
          /\ v \notin DOMAIN m
          /\ IsNextOffset(m, o) /\ o + Capacity[v] <= DiskBlocks
          /\ copy' = [copy EXCEPT ![h] = Put(m, v,
                         [off |-> o, cap |-> Capacity[v], len |-> 0])]
          /\ region' = [region EXCEPT ![h] = [off |-> o, cap |-> Capacity[v]]]
    /\ pc' = [pc EXCEPT ![h] = "create"]
    /\ vol' = [vol EXCEPT ![h] = v]
    /\ len' = [len EXCEPT ![h] = 0]
    /\ UNCHANGED <<usage, headerVars, cells, kept>>

\* "virtual disk header is corrupt": nothing can be opened.
OpenRefused(h) ==
    /\ torn /\ pc[h] \in {"closed", "reopen"}
    /\ Dropped({h})
    /\ UNCHANGED <<usage, headerVars, cells, kept>>

\* expected_redb_len: the size in the first block, if that can be read and
\* is this volume's (another's decrypts to something without the magic).
ExpectedLen(h) ==
    LET b == region[h].off
    IN  IF len[h] > 0 /\ b \in DOMAIN cells /\ cells[b].vol = vol[h]
        THEN cells[b].size ELSE 0

\* Mutant: the length in the manifest is believed.
MutCheckLen(h) ==
    /\ pc[h] = "opened"
    /\ pc' = [pc EXCEPT ![h] = "open"]
    /\ UNCHANGED <<usage, headerVars, cells, vol, copy, region, len, kept>>

\* repair_redb_header_len_if_needed, for the volumes opened as a Store.
CheckLen(h) ==
    /\ pc[h] = "opened"
    /\ IF vol[h] \in Stores /\ len[h] < ExpectedLen(h)
       THEN IF ExpectedLen(h) <= region[h].cap
            THEN /\ copy' = [copy EXCEPT ![h] =
                                SetLength(copy[h], vol[h], ExpectedLen(h))]
                 /\ pc' = [pc EXCEPT ![h] = "resize"]
                 /\ UNCHANGED <<vol, region, len>>
            ELSE Dropped({h})
       ELSE /\ pc' = [pc EXCEPT ![h] = "open"]
            /\ UNCHANGED <<vol, copy, region, len>>
    /\ UNCHANGED <<usage, headerVars, cells, kept>>

\* persist_manifest overwrites the header in place ...
BeginPersist(h) ==
    /\ pc[h] \in {"create", "resize", "replace", "remove"} /\ h \notin writing
    /\ torn' = TRUE
    /\ writing' = writing \union {h}
    /\ mixed' = IF writing = {} THEN mixed ELSE mixed \union writing \union {h}
    /\ UNCHANGED <<usage, header, cells, handleVars, kept>>

\* ... and returns.  Overlapping writers leave one of the manifests, or, the
\* last of them, a mixture that does not parse.
HeaderWritten(h) ==
    IF h \in mixed
    THEN /\ header' \in {header, copy[h]}
         /\ torn' \in (IF writing = {h} THEN BOOLEAN ELSE {TRUE})
    ELSE header' = copy[h] /\ torn' = FALSE

EndPersist(h) ==
    /\ h \in writing
    /\ HeaderWritten(h)
    /\ writing' = writing \ {h}
    /\ mixed' = mixed \ {h}
    /\ \/ /\ pc[h] \in {"create", "resize"}
          /\ pc' = [pc EXCEPT ![h] = IF pc[h] = "create" THEN "opened" ELSE "open"]
          /\ len' = [len EXCEPT ![h] = copy[h][vol[h]].len]
          /\ kept' = Put(kept, vol[h], copy[h][vol[h]].len)
          /\ UNCHANGED <<vol, copy, region>>
       \/ /\ pc[h] = "replace"
          /\ pc' = [pc EXCEPT ![h] = "reopen"]
          /\ copy' = [copy EXCEPT ![h] = NoManifest]
          /\ kept' = Put(kept, vol[h], 0)
          /\ UNCHANGED <<vol, region, len>>
       \/ /\ pc[h] = "remove"
          /\ Dropped({h})
          /\ kept' = [v \in DOMAIN kept \ {vol[h]} |-> kept[v]]
    /\ UNCHANGED <<usage, cells>>

\* Mutant: checked_end_offset lets a write run one block over the end.
MutWrite(h, b, size) ==
    /\ pc[h] = "open"
    /\ b <= region[h].cap
    /\ IF vol[h] \in Stores /\ b = 0 THEN size \in 1 .. len[h] ELSE size = 0
    /\ cells' = Put(cells, region[h].off + b, [vol |-> vol[h], size |-> size])
    /\ IF b + 1 > len[h] /\ b < region[h].cap
       THEN /\ copy' = [copy EXCEPT ![h] = SetLength(copy[h], vol[h], b + 1)]
            /\ pc' = [pc EXCEPT ![h] = "resize"]
       ELSE UNCHANGED <<copy, pc>>
    /\ UNCHANGED <<usage, headerVars, vol, region, len, kept>>

\* VolumeBackend::write of block b; the first block of a store carries the
\* size redb lays its data out for.  A write past the end sets the length.
Write(h, b, size) ==
    /\ pc[h] = "open"
    /\ b < region[h].cap
    /\ IF vol[h] \in Stores /\ b = 0 THEN size \in 1 .. len[h] ELSE size = 0
    /\ cells' = Put(cells, region[h].off + b, [vol |-> vol[h], size |-> size])
    /\ IF b + 1 > len[h]
       THEN /\ copy' = [copy EXCEPT ![h] = SetLength(copy[h], vol[h], b + 1)]
            /\ pc' = [pc EXCEPT ![h] = "resize"]
       ELSE UNCHANGED <<copy, pc>>
    /\ UNCHANGED <<usage, headerVars, vol, region, len, kept>>

\* Mutant: set_len accepts one block more than the capacity.
MutSetLen(h, n) ==
    /\ pc[h] = "open"
    /\ n <= region[h].cap + 1 /\ n # len[h]
    /\ vol[h] \in Stores => n >= 1 /\ n >= ExpectedLen(h)
    /\ copy' = [copy EXCEPT ![h] = SetLength(copy[h], vol[h], n)]
    /\ pc' = [pc EXCEPT ![h] = "resize"]
    /\ UNCHANGED <<usage, headerVars, cells, vol, region, len, kept>>

\* StorageBackend::set_len; redb does not shrink below the size it recorded.
SetLen(h, n) ==
    /\ pc[h] = "open"
    /\ n <= region[h].cap /\ n # len[h]
    /\ vol[h] \in Stores => n >= 1 /\ n >= ExpectedLen(h)
    /\ copy' = [copy EXCEPT ![h] = SetLength(copy[h], vol[h], n)]
    /\ pc' = [pc EXCEPT ![h] = "resize"]
    /\ UNCHANGED <<usage, headerVars, cells, vol, region, len, kept>>

\* replace_bytes, up to its open: a new region for v, the old one is free.
Replace(h, v, cap) ==
    /\ pc[h] = "closed" /\ usage # "warm" /\ MayOpen(h, v)
    /\ \E m \in Readable, o \in 0 .. DiskBlocks :
          /\ IsNextOffset(Without(m, v), o) /\ o + cap <= DiskBlocks
          /\ copy' = [copy EXCEPT ![h] = Put(Without(m, v), v,
                         [off |-> o, cap |-> cap, len |-> 0])]
    /\ pc' = [pc EXCEPT ![h] = "replace"]
    /\ vol' = [vol EXCEPT ![h] = v]
    /\ UNCHANGED <<usage, headerVars, cells, region, len, kept>>

\* remove_volume of a volume that is there.
Remove(h, v) ==
    /\ pc[h] = "closed" /\ usage # "warm" /\ MayOpen(h, v)
    /\ \E m \in Readable :
          /\ v \in DOMAIN m
          /\ copy' = [copy EXCEPT ![h] = Without(m, v)]
    /\ pc' = [pc EXCEPT ![h] = "remove"]
    /\ vol' = [vol EXCEPT ![h] = v]
    /\ UNCHANGED <<usage, headerVars, cells, region, len, kept>>

Close(h) ==
    /\ pc[h] = "open"
    /\ Dropped({h})
    /\ UNCHANGED <<usage, headerVars, cells, kept>>

\* The process dies.  A header half written stays that way.
Crash ==
    /\ \E h \in Handles : pc[h] # "closed"
    /\ Dropped(Handles)
    /\ writing' = {} /\ mixed' = {}
    /\ UNCHANGED <<usage, header, torn, cells, kept>>

\* A new disk; or, used "warm", one whose volumes were created and filled.
Init ==
    /\ usage \in Usages
    /\ header = IF usage = "warm" THEN Layout ELSE NoManifest
    /\ cells = IF usage = "warm"
               THEN [b \in {Layout[v].off : v \in Volumes} |->
                        LET v == CHOOSE v \in Volumes : Layout[v].off = b
                        IN  [vol |-> v,
                             size |-> IF v \in Stores THEN Layout[v].len ELSE 0]]
               ELSE NoManifest
    /\ kept = [v \in DOMAIN header |-> header[v].len]
    /\ torn = FALSE /\ writing = {} /\ mixed = {}
    /\ pc = [h \in Handles |-> "closed"]
    /\ vol = [h \in Handles |-> AnyVolume]
    /\ copy = [h \in Handles |-> NoManifest]
    /\ region = [h \in Handles |-> NoRegion]
    /\ len = [h \in Handles |-> 0]

Next ==
    \/ \E h \in Handles :
          \/ \E v \in Volumes :
                \/ OpenExisting(h, v) \/ OpenNew(h, v) \/ Remove(h, v)
                \/ \E cap \in BlobSizes : Replace(h, v, cap)
          \/ \E b, size \in 0 .. DiskBlocks : Write(h, b, size)
          \/ \E n \in 0 .. DiskBlocks : SetLen(h, n)
          \/ OpenRefused(h) \/ CheckLen(h) \/ Close(h)
          \/ BeginPersist(h) \/ EndPersist(h)
    \/ Crash

Spec == Init /\ [][Next]_vars

-----------------------------------------------------------------------------
\* Types, and that every length fits its region (checked_end_offset, set_len).
IsManifest(m) ==
    /\ DOMAIN m \subseteq Volumes /\ m \in [DOMAIN m -> Records]
    /\ \A v \in DOMAIN m :
          m[v].off >= HeaderEnd /\ End(m[v]) <= DiskBlocks /\ m[v].len <= m[v].cap
TypeOK ==
    /\ usage \in Usages
    /\ IsManifest(header) /\ torn \in BOOLEAN
    /\ DOMAIN cells \subseteq 1 .. DiskBlocks
    /\ cells \in [DOMAIN cells -> [vol : Volumes, size : Nat]]
    /\ pc \in [Handles -> {"closed", "opened", "open", "create", "resize",
                           "replace", "reopen", "remove"}]
    /\ vol \in [Handles -> Volumes]
    /\ DOMAIN copy = Handles /\ \A h \in Handles : IsManifest(copy[h])
    /\ region \in [Handles -> Regions] /\ len \in [Handles -> Nat]
    /\ writing \subseteq Handles /\ mixed \subseteq writing
    /\ DOMAIN kept \subseteq Volumes /\ kept \in [DOMAIN kept -> Nat]

\* No manifest, on disk or in the copy of any handle, however stale, gives
\* two volumes overlapping regions.
Disjoint(m) == \A u, v \in DOMAIN m : u # v => ~ Overlap(m[u], m[v])
ManifestsDisjoint == Disjoint(header) /\ \A h \in Handles : Disjoint(copy[h])

\* Unless the disk is used without any rule, handles that are open for
\* different volumes work on regions that do not overlap (base_offset and
\* capacity stay what the manifest said when the handle was opened).
InUse(h) == pc[h] \in {"opened", "open", "resize"}
LiveRegionsDisjoint ==
    usage # "free" =>
        \A g, h \in Handles :
            InUse(g) /\ InUse(h) /\ vol[g] # vol[h] => ~ Overlap(region[g], region[h])

\* No write of a running gateway reaches into the region of another open
\* volume: what is written there was written through that volume.
RegionsHoldOwnData ==
    usage = "warm" =>
        \A h \in Handles : InUse(h) =>
            \A b \in region[h].off .. End(region[h]) - 1 :
                b \in DOMAIN cells => cells[b].vol = vol[h]

\* With one handle at a time, the header, whenever it is whole, tells every
\* volume the length its last user was promised.
LengthsKept ==
    ~ torn => /\ DOMAIN header = DOMAIN kept
              /\ \A v \in DOMAIN kept : header[v].len = kept[v]
ExclusiveLengthsKept == usage = "exclusive" => LengthsKept

\* In a running gateway a stale copy may put back an old length of a store,
\* but a store that opens again is never shorter than the size redb laid its
\* data out for: the length repair finds that size in its first block.
StoreNeverTruncated ==
    usage = "warm" =>
        \A h \in Handles : pc[h] = "open" /\ vol[h] \in Stores =>
            /\ region[h].off \in DOMAIN cells
            /\ cells[region[h].off].vol = vol[h]
            /\ cells[region[h].off].size <= len[h]
=============================================================================
