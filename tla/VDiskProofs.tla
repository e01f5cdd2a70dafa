----------------------------- MODULE VDiskProofs -----------------------------
(***************************************************************************)
(* What VDisk promises for any volumes, handles and sizes.  The manifests  *)
(* stay well formed and disjoint because a handle that can set a length    *)
(* has its volume in its own copy, with the region it works on             *)
(* (HandleInv).  The properties of a disk used "warm" follow from WarmInv: *)
(* every manifest in reach lays the volumes out as the disk was found;     *)
(* that of a disk used exclusively from KeptInv: the copy of the one       *)
(* handle differs from the promised lengths at its own volume only.        *)
(***************************************************************************)
EXTENDS VDisk, TLAPS

HasRecord(h) == pc[h] \in {"opened", "open", "create", "resize"}

HandleInv ==
    \A h \in Handles :
       /\ pc[h] \in {"create", "resize", "replace", "remove"} \/ h \notin writing
       /\ HasRecord(h) => /\ vol[h] \in DOMAIN copy[h]
                          /\ copy[h][vol[h]].off = region[h].off
                          /\ copy[h][vol[h]].cap = region[h].cap
       /\ InUse(h) => len[h] <= region[h].cap

-----------------------------------------------------------------------------
\* Adding a record that fits keeps a manifest well formed; if its region is
\* clear of the others, it also keeps it disjoint.
LEMMA PutManifest ==
    ASSUME BoundAssumption, NEW m, IsManifest(m), NEW v \in Volumes,
           NEW r \in Records, r.off >= HeaderEnd, End(r) <= DiskBlocks, r.len <= r.cap
    PROVE  /\ IsManifest(Put(m, v, r))
           /\ Disjoint(m) /\ (\A u \in DOMAIN m \ {v} : ~ Overlap(m[u], r) /\ ~ Overlap(r, m[u]))
                 => Disjoint(Put(m, v, r))
<1> DEFINE n == Put(m, v, r)
<1>1. DOMAIN n = DOMAIN m \union {v} /\ n[v] = r /\ \A u \in DOMAIN m \ {v} : n[u] = m[u]
  BY DEF Put
<1>2. \A u \in DOMAIN n : n[u] \in Records
  BY <1>1 DEF IsManifest
<1>3. n \in [DOMAIN n -> Records]
  BY <1>2 DEF Put
<1>4. IsManifest(n)
  BY <1>1, <1>3 DEF IsManifest
<1>5. ASSUME Disjoint(m), \A u \in DOMAIN m \ {v} : ~ Overlap(m[u], r) /\ ~ Overlap(r, m[u])
      PROVE  Disjoint(n)
  BY <1>1, <1>5 DEF Disjoint
<1> QED BY <1>4, <1>5

\* Removing a volume keeps a manifest well formed and disjoint.
LEMMA WithoutManifest ==
    ASSUME NEW m, IsManifest(m), NEW v \in Volumes
    PROVE  /\ IsManifest(Without(m, v)) /\ v \notin DOMAIN Without(m, v)
           /\ Disjoint(m) => Disjoint(Without(m, v))
BY DEF IsManifest, Without, Disjoint

\* Setting a length that fits changes no region.
LEMMA LengthManifest ==
    ASSUME BoundAssumption, NEW m, IsManifest(m), NEW v \in DOMAIN m,
           NEW n \in Nat, n <= m[v].cap
    PROVE  /\ IsManifest(SetLength(m, v, n))
           /\ v \in DOMAIN SetLength(m, v, n)
           /\ DOMAIN SetLength(m, v, n) = DOMAIN m
           /\ \A u \in DOMAIN m : /\ SetLength(m, v, n)[u].off = m[u].off
                                  /\ SetLength(m, v, n)[u].cap = m[u].cap
                                  /\ u # v => SetLength(m, v, n)[u] = m[u]
           /\ SetLength(m, v, n)[v].len = n
           /\ Disjoint(m) => Disjoint(SetLength(m, v, n))
<1> DEFINE r == [m[v] EXCEPT !.len = n]
           s == SetLength(m, v, n)
<1>1. v \in Volumes /\ m[v] \in Records
  BY DEF IsManifest
<1>2. r \in Records /\ r.off = m[v].off /\ r.cap = m[v].cap /\ r.len = n
  BY <1>1 DEF Records
<1>3. IsManifest(s)
  <2>1. r.off >= HeaderEnd /\ End(r) <= DiskBlocks /\ r.len <= r.cap
    BY <1>2 DEF IsManifest, End
  <2> QED BY <1>1, <1>2, <2>1, PutManifest DEF SetLength
<1>4. DOMAIN s = DOMAIN m /\ s[v] = r /\ \A u \in DOMAIN m \ {v} : s[u] = m[u]
  BY DEF SetLength, Put
<1>5. \A u \in DOMAIN m : s[u].off = m[u].off /\ s[u].cap = m[u].cap
  BY <1>2, <1>4
<1>6. Disjoint(m) => Disjoint(s)
  BY <1>4, <1>5 DEF Disjoint, Overlap, End
<1> QED BY <1>2, <1>3, <1>4, <1>5, <1>6

\* A region that starts at the next offset is clear of every other.
LEMMA NextOffsetClear ==
    ASSUME BoundAssumption, NEW m, IsManifest(m), NEW o \in Nat, IsNextOffset(m, o),
           NEW c \in Nat, NEW l \in Nat
    PROVE  /\ o >= HeaderEnd
           /\ \A u \in DOMAIN m : LET r == [off |-> o, cap |-> c, len |-> l]
                                  IN  ~ Overlap(m[u], r) /\ ~ Overlap(r, m[u])
<1>1. \A u \in DOMAIN m : m[u] \in Records /\ m[u].off >= HeaderEnd
  BY DEF IsManifest
<1>2. o >= HeaderEnd
  BY <1>1 DEF IsNextOffset, HeaderEnd, End, Records
<1>3. ASSUME NEW u \in DOMAIN m
      PROVE  LET r == [off |-> o, cap |-> c, len |-> l]
             IN  ~ Overlap(m[u], r) /\ ~ Overlap(r, m[u])
  BY <1>1, <1>3 DEF IsNextOffset, Overlap, End, Records
<1> QED BY <1>2, <1>3

\* What a reader of the header gets is a well-formed manifest, disjoint if all are.
LEMMA ReadableManifest ==
    ASSUME TypeOK, NEW m \in Readable
    PROVE  IsManifest(m) /\ (ManifestsDisjoint => Disjoint(m))
BY DEF TypeOK, Readable, ManifestsDisjoint

\* The empty manifest of a handle that is not open.
LEMMA EmptyManifest == IsManifest(NoManifest) /\ Disjoint(NoManifest)
BY DEF IsManifest, NoManifest, Disjoint

-----------------------------------------------------------------------------
TypeInv == TypeOK /\ HandleInv
Stage == {"closed", "opened", "open", "create", "resize", "replace", "reopen", "remove"}

\* Dropping handles that are not writing, or all of them, keeps the types.
LEMMA DroppedType ==
    ASSUME VolumesAssumption, BoundAssumption, TypeInv, NEW hs \in SUBSET Handles, Dropped(hs),
           \A h \in hs : h \notin writing'
    PROVE  /\ pc' \in [Handles -> Stage] /\ vol' \in [Handles -> Volumes]
           /\ DOMAIN copy' = Handles /\ \A h \in Handles : IsManifest(copy'[h])
           /\ region' \in [Handles -> Regions] /\ len' \in [Handles -> Nat]
           /\ writing' \subseteq writing => HandleInv'
<1> USE DEF TypeInv, TypeOK, Dropped
<1>1. AnyVolume \in Volumes /\ NoRegion \in Regions /\ "closed" \in Stage
  BY DEF VolumesAssumption, AnyVolume, NoRegion, Regions, HeaderEnd, Stage
<1>2. pc' \in [Handles -> Stage] /\ vol' \in [Handles -> Volumes]
  BY <1>1 DEF Stage
<1>3. region' \in [Handles -> Regions] /\ len' \in [Handles -> Nat]
  BY <1>1
<1>4. DOMAIN copy' = Handles /\ \A h \in Handles : IsManifest(copy'[h])
  BY EmptyManifest
<1>5. ASSUME writing' \subseteq writing PROVE HandleInv'
  BY <1>5 DEF HandleInv, HasRecord, InUse
<1> QED BY <1>2, <1>3, <1>4, <1>5

\* Opening keeps the types.
LEMMA OpenType ==
    ASSUME VolumesAssumption, BoundAssumption, TypeInv, NEW h \in Handles, NEW v \in Volumes,
           OpenExisting(h, v) \/ OpenNew(h, v)
    PROVE  TypeInv'
<1> USE DEF TypeInv
<1>1. CASE OpenExisting(h, v)
  <2>1. PICK m \in Readable :
          /\ v \in DOMAIN m
          /\ copy' = [copy EXCEPT ![h] = m]
          /\ region' = [region EXCEPT ![h] = [off |-> m[v].off, cap |-> m[v].cap]]
          /\ len' = [len EXCEPT ![h] = m[v].len]
    BY <1>1 DEF OpenExisting
  <2>2. IsManifest(m) /\ m[v] \in Records /\ m[v].len <= m[v].cap
    BY <2>1, ReadableManifest DEF IsManifest
  <2>3. /\ pc' = [pc EXCEPT ![h] = "opened"] /\ vol' = [vol EXCEPT ![h] = v]
        /\ UNCHANGED <<usage, headerVars, cells, kept>> /\ pc[h] \in {"closed", "reopen"}
    BY <1>1 DEF OpenExisting, Free
  <2>4. region' \in [Handles -> Regions] /\ len' \in [Handles -> Nat]
    BY <2>1, <2>2 DEF TypeOK, Regions, Records
  <2>5. DOMAIN copy' = Handles /\ \A g \in Handles : IsManifest(copy'[g])
    BY <2>1, <2>2 DEF TypeOK
  <2>6. TypeOK'
    BY <2>3, <2>4, <2>5 DEF TypeOK, headerVars
  <2>7. HandleInv'
    BY <2>1, <2>2, <2>3 DEF HandleInv, HasRecord, InUse, TypeOK, headerVars, Regions, Records
  <2> QED BY <2>6, <2>7
<1>2. CASE OpenNew(h, v)
  <2>1. PICK m \in Readable, o \in 0 .. DiskBlocks :
          /\ v \notin DOMAIN m
          /\ IsNextOffset(m, o) /\ o + Capacity[v] <= DiskBlocks
          /\ copy' = [copy EXCEPT ![h] = Put(m, v,
                         [off |-> o, cap |-> Capacity[v], len |-> 0])]
          /\ region' = [region EXCEPT ![h] = [off |-> o, cap |-> Capacity[v]]]
    BY <1>2 DEF OpenNew
  <2> DEFINE r == [off |-> o, cap |-> Capacity[v], len |-> 0]
  <2>2. IsManifest(m)
    BY ReadableManifest
  <2>3. o \in Nat /\ Capacity[v] \in Nat
    BY DEF VolumesAssumption, BoundAssumption
  <2>4. r \in Records /\ r.off >= HeaderEnd /\ End(r) <= DiskBlocks /\ r.len <= r.cap
    BY <2>1, <2>2, <2>3, NextOffsetClear DEF Records, End
  <2>5. IsManifest(Put(m, v, r)) /\ v \in DOMAIN Put(m, v, r) /\ Put(m, v, r)[v] = r
    BY <2>2, <2>4, PutManifest DEF Put
  <2>6. /\ pc' = [pc EXCEPT ![h] = "create"] /\ vol' = [vol EXCEPT ![h] = v]
        /\ len' = [len EXCEPT ![h] = 0]
        /\ UNCHANGED <<usage, headerVars, cells, kept>> /\ pc[h] \in {"closed", "reopen"}
    BY <1>2 DEF OpenNew, Free
  <2>7. region' \in [Handles -> Regions] /\ len' \in [Handles -> Nat]
    BY <2>1, <2>3, <2>6 DEF TypeOK, Regions
  <2>8. DOMAIN copy' = Handles /\ \A g \in Handles : IsManifest(copy'[g])
    BY <2>1, <2>5 DEF TypeOK
  <2>9. TypeOK'
    BY <2>6, <2>7, <2>8 DEF TypeOK, headerVars
  <2>10. HandleInv'
    BY <2>1, <2>3, <2>5, <2>6 DEF HandleInv, HasRecord, InUse, TypeOK, headerVars, Regions, Records
  <2> QED BY <2>9, <2>10
<1> QED BY <1>1, <1>2

\* The region of a handle that is open lies inside the disk.
LEMMA RegionFits ==
    ASSUME BoundAssumption, TypeInv, NEW h \in Handles, HasRecord(h)
    PROVE  /\ region[h].off \in Nat /\ region[h].cap \in Nat
           /\ region[h].off >= HeaderEnd /\ End(region[h]) <= DiskBlocks
BY DEF TypeInv, TypeOK, HandleInv, IsManifest, End, Regions

\* Setting the length of an open handle's volume in its copy keeps the types.
LEMMA ResizeType ==
    ASSUME BoundAssumption, TypeInv, NEW h \in Handles, InUse(h), NEW n \in Nat,
           n <= region[h].cap, pc[h] \in {"open", "opened"},
           copy' = [copy EXCEPT ![h] = SetLength(copy[h], vol[h], n)],
           pc' = [pc EXCEPT ![h] = "resize"],
           UNCHANGED <<headerVars, vol, region, len>>
    PROVE  /\ pc' \in [Handles -> Stage]
           /\ DOMAIN copy' = Handles /\ \A g \in Handles : IsManifest(copy'[g])
           /\ HandleInv'
<1> USE DEF TypeInv
<1>1. IsManifest(copy[h]) /\ vol[h] \in DOMAIN copy[h] /\ n <= copy[h][vol[h]].cap
  BY DEF TypeOK, HandleInv, HasRecord, InUse
<1> DEFINE s == SetLength(copy[h], vol[h], n)
<1>2. /\ IsManifest(s) /\ vol[h] \in DOMAIN s
      /\ s[vol[h]].off = copy[h][vol[h]].off /\ s[vol[h]].cap = copy[h][vol[h]].cap
  BY <1>1, LengthManifest
<1>3. pc' \in [Handles -> Stage]
  BY DEF TypeOK, Stage
<1>4. copy' = [copy EXCEPT ![h] = s] /\ DOMAIN copy' = Handles /\ \A g \in Handles : IsManifest(copy'[g])
  BY <1>2 DEF TypeOK
<1>5. h \in DOMAIN pc /\ h \notin writing
  BY DEF TypeOK, HandleInv
<1>6. ASSUME NEW g \in Handles
      PROVE  /\ pc'[g] \in {"create", "resize", "replace", "remove"} \/ g \notin writing'
             /\ HasRecord(g)' => /\ vol'[g] \in DOMAIN copy'[g]
                                 /\ copy'[g][vol'[g]].off = region'[g].off
                                 /\ copy'[g][vol'[g]].cap = region'[g].cap
             /\ InUse(g)' => len'[g] <= region'[g].cap
  <2>1. CASE g = h
    BY <1>2, <2>1 DEF HandleInv, HasRecord, InUse, TypeOK, headerVars
  <2>2. CASE g # h
    BY <2>2 DEF HandleInv, HasRecord, InUse, TypeOK, headerVars
  <2> QED BY <2>1, <2>2
<1> QED BY <1>3, <1>4, <1>6 DEF HandleInv

\* Every step keeps the types and HandleInv.
LEMMA TypeStep ==
    ASSUME VolumesAssumption, BoundAssumption, TypeInv, [Next]_vars
    PROVE  TypeInv'
<1>1. ASSUME NEW h \in Handles, NEW v \in Volumes, OpenExisting(h, v) \/ OpenNew(h, v)
      PROVE  TypeInv'
  BY <1>1, OpenType
<1>2. ASSUME NEW h \in Handles, OpenRefused(h) PROVE TypeInv'
  <2>1. Dropped({h}) /\ UNCHANGED <<usage, headerVars, cells, kept>> /\ h \notin writing
    BY <1>2 DEF OpenRefused, TypeInv, HandleInv
  <2>2. writing' = writing
    BY <2>1 DEF headerVars
  <2> QED BY <2>1, <2>2, DroppedType DEF TypeInv, TypeOK, headerVars, Stage
<1>3. ASSUME NEW h \in Handles, CheckLen(h) PROVE TypeInv'
  <2>1. pc[h] = "opened" /\ UNCHANGED <<usage, headerVars, cells, kept>> /\ h \notin writing
    BY <1>3 DEF CheckLen, TypeInv, HandleInv
  <2>2. CASE Dropped({h})
    <3>1. writing' = writing
      BY <2>1 DEF headerVars
    <3> QED BY <2>1, <2>2, <3>1, DroppedType DEF TypeInv, TypeOK, headerVars, Stage
  <2>3. CASE /\ ExpectedLen(h) <= region[h].cap
             /\ copy' = [copy EXCEPT ![h] = SetLength(copy[h], vol[h], ExpectedLen(h))]
             /\ pc' = [pc EXCEPT ![h] = "resize"]
             /\ UNCHANGED <<vol, region, len>>
    <3>1. ExpectedLen(h) \in Nat
      BY DEF ExpectedLen, TypeInv, TypeOK
    <3>2. UNCHANGED <<headerVars, vol, region, len>> /\ InUse(h) /\ pc[h] \in {"open", "opened"}
      BY <2>1, <2>3 DEF InUse
    <3>3. /\ pc' \in [Handles -> Stage] /\ HandleInv'
          /\ DOMAIN copy' = Handles /\ \A g \in Handles : IsManifest(copy'[g])
      BY <2>3, <3>1, <3>2, ResizeType
    <3> QED BY <2>1, <2>3, <3>3 DEF TypeInv, TypeOK, headerVars, Stage
  <2>4. CASE /\ pc' = [pc EXCEPT ![h] = "open"]
             /\ UNCHANGED <<vol, copy, region, len>>
    BY <2>1, <2>4 DEF TypeInv, TypeOK, headerVars, HandleInv, HasRecord, InUse
  <2> QED BY <1>3, <2>2, <2>3, <2>4 DEF CheckLen
<1>4. ASSUME NEW h \in Handles, BeginPersist(h) PROVE TypeInv'
  BY <1>4 DEF BeginPersist, handleVars, TypeInv, TypeOK, HandleInv, HasRecord, InUse
<1>5. ASSUME NEW h \in Handles, EndPersist(h) PROVE TypeInv'
  <2>1. /\ h \in writing /\ writing' = writing \ {h} /\ mixed' = mixed \ {h}
        /\ UNCHANGED <<usage, cells>> /\ HeaderWritten(h)
    BY <1>5 DEF EndPersist
  <2>2. IsManifest(header') /\ torn' \in BOOLEAN
    BY <2>1 DEF HeaderWritten, TypeInv, TypeOK
  <2>3. CASE /\ pc[h] \in {"create", "resize"}
             /\ pc' = [pc EXCEPT ![h] = IF pc[h] = "create" THEN "opened" ELSE "open"]
             /\ len' = [len EXCEPT ![h] = copy[h][vol[h]].len]
             /\ kept' = Put(kept, vol[h], copy[h][vol[h]].len)
             /\ UNCHANGED <<vol, copy, region>>
    <3>1. /\ vol[h] \in Volumes /\ copy[h][vol[h]] \in Records
          /\ copy[h][vol[h]].len <= region[h].cap
      BY <2>3 DEF TypeInv, TypeOK, HandleInv, HasRecord, IsManifest
    <3>2. len' \in [Handles -> Nat] /\ copy[h][vol[h]].len \in Nat
      BY <2>3, <3>1 DEF Records, TypeInv, TypeOK
    <3>3. DOMAIN kept' \subseteq Volumes /\ kept' \in [DOMAIN kept' -> Nat]
      BY <2>3, <3>1, <3>2 DEF Put, TypeInv, TypeOK
    <3>4. pc' \in [Handles -> Stage]
      BY <2>3 DEF TypeInv, TypeOK, Stage
    <3>5. TypeOK'
      BY <2>1, <2>2, <2>3, <3>2, <3>3, <3>4 DEF TypeInv, TypeOK, Stage
    <3>6. HandleInv'
      BY <2>1, <2>3, <3>1 DEF TypeInv, TypeOK, HandleInv, HasRecord, InUse
    <3> QED BY <3>5, <3>6 DEF TypeInv
  <2>4. CASE /\ pc[h] = "replace"
             /\ pc' = [pc EXCEPT ![h] = "reopen"]
             /\ copy' = [copy EXCEPT ![h] = NoManifest]
             /\ kept' = Put(kept, vol[h], 0)
             /\ UNCHANGED <<vol, region, len>>
    <3>1. DOMAIN kept' \subseteq Volumes /\ kept' \in [DOMAIN kept' -> Nat]
      BY <2>4 DEF Put, TypeInv, TypeOK
    <3>2. TypeOK'
      BY <2>1, <2>2, <2>4, <3>1, EmptyManifest DEF TypeInv, TypeOK
    <3>3. HandleInv'
      BY <2>1, <2>4 DEF TypeInv, TypeOK, HandleInv, HasRecord, InUse
    <3> QED BY <3>2, <3>3 DEF TypeInv
  <2>5. CASE Dropped({h}) /\ kept' = [v \in DOMAIN kept \ {vol[h]} |-> kept[v]]
    <3>1. DOMAIN kept' \subseteq Volumes /\ kept' \in [DOMAIN kept' -> Nat]
      BY <2>5 DEF TypeInv, TypeOK
    <3>2. h \notin writing' /\ writing' \subseteq writing
      BY <2>1
    <3> QED BY <2>1, <2>2, <2>5, <3>1, <3>2, DroppedType DEF TypeInv, TypeOK, Stage
  <2> QED BY <1>5, <2>3, <2>4, <2>5 DEF EndPersist
<1>6. ASSUME NEW h \in Handles, NEW b \in 0 .. DiskBlocks, NEW size \in 0 .. DiskBlocks,
             Write(h, b, size)
      PROVE  TypeInv'
  <2>1. /\ pc[h] = "open" /\ b < region[h].cap /\ b \in Nat /\ size \in Nat
        /\ cells' = Put(cells, region[h].off + b, [vol |-> vol[h], size |-> size])
        /\ UNCHANGED <<usage, headerVars, vol, region, len, kept>>
    BY <1>6 DEF Write
  <2>2. region[h].off + b \in 1 .. DiskBlocks
    BY <2>1, RegionFits DEF HasRecord, HeaderEnd, End, BoundAssumption
  <2>3. /\ DOMAIN cells' \subseteq 1 .. DiskBlocks
        /\ cells' \in [DOMAIN cells' -> [vol : Volumes, size : Nat]]
    BY <2>1, <2>2 DEF Put, TypeInv, TypeOK
  <2>4. CASE UNCHANGED <<copy, pc>>
    BY <2>1, <2>3, <2>4 DEF TypeInv, TypeOK, HandleInv, HasRecord, InUse, headerVars
  <2>5. CASE /\ copy' = [copy EXCEPT ![h] = SetLength(copy[h], vol[h], b + 1)]
             /\ pc' = [pc EXCEPT ![h] = "resize"]
    <3>1. /\ InUse(h) /\ b + 1 \in Nat /\ b + 1 <= region[h].cap
          /\ pc[h] \in {"open", "opened"} /\ UNCHANGED <<headerVars, vol, region, len>>
      BY <2>1, RegionFits DEF HasRecord, InUse
    <3>2. /\ pc' \in [Handles -> Stage] /\ HandleInv'
          /\ DOMAIN copy' = Handles /\ \A g \in Handles : IsManifest(copy'[g])
      BY <2>5, <3>1, ResizeType
    <3> QED BY <2>1, <2>3, <2>5, <3>2 DEF TypeInv, TypeOK, headerVars, Stage
  <2> QED BY <1>6, <2>4, <2>5 DEF Write
<1>7. ASSUME NEW h \in Handles, NEW n \in 0 .. DiskBlocks, SetLen(h, n) PROVE TypeInv'
  <2>1. /\ n \in Nat /\ n <= region[h].cap /\ InUse(h) /\ pc[h] \in {"open", "opened"}
        /\ copy' = [copy EXCEPT ![h] = SetLength(copy[h], vol[h], n)]
        /\ pc' = [pc EXCEPT ![h] = "resize"]
        /\ UNCHANGED <<usage, headerVars, cells, vol, region, len, kept>>
    BY <1>7 DEF SetLen, InUse
  <2>2. /\ pc' \in [Handles -> Stage] /\ HandleInv'
        /\ DOMAIN copy' = Handles /\ \A g \in Handles : IsManifest(copy'[g])
    BY <2>1, ResizeType
  <2> QED BY <2>1, <2>2 DEF TypeInv, TypeOK, headerVars, Stage
<1>8. ASSUME NEW h \in Handles, NEW v \in Volumes, NEW cap \in BlobSizes, Replace(h, v, cap)
      PROVE  TypeInv'
  <2>1. PICK m \in Readable, o \in 0 .. DiskBlocks :
          /\ IsNextOffset(Without(m, v), o) /\ o + cap <= DiskBlocks
          /\ copy' = [copy EXCEPT ![h] = Put(Without(m, v), v,
                         [off |-> o, cap |-> cap, len |-> 0])]
    BY <1>8 DEF Replace
  <2> DEFINE r == [off |-> o, cap |-> cap, len |-> 0]
  <2>2. IsManifest(Without(m, v)) /\ o \in Nat /\ cap \in Nat
    BY ReadableManifest, WithoutManifest DEF TypeInv, BoundAssumption
  <2>3. r \in Records /\ r.off >= HeaderEnd /\ End(r) <= DiskBlocks /\ r.len <= r.cap
    BY <2>1, <2>2, NextOffsetClear DEF Records, End
  <2>4. IsManifest(Put(Without(m, v), v, r))
    BY <2>2, <2>3, PutManifest
  <2>5. /\ pc' = [pc EXCEPT ![h] = "replace"] /\ vol' = [vol EXCEPT ![h] = v]
        /\ UNCHANGED <<usage, headerVars, cells, region, len, kept>> /\ pc[h] = "closed"
    BY <1>8 DEF Replace
  <2> QED BY <2>1, <2>4, <2>5 DEF TypeInv, TypeOK, HandleInv, HasRecord, InUse, headerVars
<1>9. ASSUME NEW h \in Handles, NEW v \in Volumes, Remove(h, v) PROVE TypeInv'
  <2>1. PICK m \in Readable : copy' = [copy EXCEPT ![h] = Without(m, v)]
    BY <1>9 DEF Remove
  <2>2. IsManifest(Without(m, v))
    BY ReadableManifest, WithoutManifest DEF TypeInv
  <2>3. /\ pc' = [pc EXCEPT ![h] = "remove"] /\ vol' = [vol EXCEPT ![h] = v]
        /\ UNCHANGED <<usage, headerVars, cells, region, len, kept>> /\ pc[h] = "closed"
    BY <1>9 DEF Remove
  <2> QED BY <2>1, <2>2, <2>3 DEF TypeInv, TypeOK, HandleInv, HasRecord, InUse, headerVars
<1>10. ASSUME NEW h \in Handles, Close(h) PROVE TypeInv'
  <2>1. Dropped({h}) /\ UNCHANGED <<usage, headerVars, cells, kept>> /\ h \notin writing
    BY <1>10 DEF Close, TypeInv, HandleInv
  <2>2. writing' = writing
    BY <2>1 DEF headerVars
  <2> QED BY <2>1, <2>2, DroppedType DEF TypeInv, TypeOK, headerVars, Stage
<1>11. CASE Crash
  BY <1>11, DroppedType DEF Crash, TypeInv, TypeOK, Stage
<1>12. CASE UNCHANGED vars
  BY <1>12 DEF vars, headerVars, handleVars, TypeInv, TypeOK, HandleInv, HasRecord, InUse
<1> QED BY <1>1, <1>2, <1>3, <1>4, <1>5, <1>6, <1>7, <1>8, <1>9, <1>10, <1>11, <1>12 DEF Next

-----------------------------------------------------------------------------
\* Every step keeps every manifest disjoint.
LEMMA DisjointStep ==
    ASSUME VolumesAssumption, BoundAssumption, TypeInv, ManifestsDisjoint, [Next]_vars
    PROVE  ManifestsDisjoint'
<1> DEFINE Changes(h, m) == /\ copy' = [copy EXCEPT ![h] = m] /\ header' = header
<1>1. ASSUME NEW h \in Handles, NEW m, Disjoint(m), Changes(h, m)
      PROVE  ManifestsDisjoint'
  BY <1>1 DEF ManifestsDisjoint, TypeInv, TypeOK
<1>2. ASSUME NEW hs \in SUBSET Handles, Dropped(hs), IF header' = header THEN TRUE
                 ELSE \E h \in Handles : header' = copy[h]
      PROVE  ManifestsDisjoint'
  BY <1>2, EmptyManifest DEF Dropped, ManifestsDisjoint
<1>3. ASSUME NEW h \in Handles, NEW n \in Nat, n <= region[h].cap, HasRecord(h)
      PROVE  Disjoint(SetLength(copy[h], vol[h], n))
  <2>1. /\ IsManifest(copy[h]) /\ vol[h] \in DOMAIN copy[h]
        /\ n <= copy[h][vol[h]].cap /\ Disjoint(copy[h])
    BY <1>3 DEF TypeInv, TypeOK, HandleInv, ManifestsDisjoint
  <2> QED BY <2>1, LengthManifest
<1>4. ASSUME NEW h \in Handles, NEW v \in Volumes, OpenExisting(h, v)
      PROVE  ManifestsDisjoint'
  <2>1. PICK m \in Readable : copy' = [copy EXCEPT ![h] = m]
    BY <1>4 DEF OpenExisting
  <2>2. Disjoint(m) /\ header' = header
    BY <1>4, ReadableManifest DEF TypeInv, OpenExisting, headerVars
  <2> QED BY <1>1, <2>1, <2>2
<1>5. ASSUME NEW h \in Handles, NEW v \in Volumes, OpenNew(h, v)
      PROVE  ManifestsDisjoint'
  <2>1. PICK m \in Readable, o \in 0 .. DiskBlocks :
          /\ v \notin DOMAIN m /\ IsNextOffset(m, o) /\ o + Capacity[v] <= DiskBlocks
          /\ copy' = [copy EXCEPT ![h] = Put(m, v,
                         [off |-> o, cap |-> Capacity[v], len |-> 0])]
    BY <1>5 DEF OpenNew
  <2> DEFINE r == [off |-> o, cap |-> Capacity[v], len |-> 0]
  <2>2. IsManifest(m) /\ Disjoint(m) /\ o \in Nat /\ Capacity[v] \in Nat
    BY ReadableManifest DEF TypeInv, VolumesAssumption, BoundAssumption
  <2>3. /\ r \in Records /\ r.off >= HeaderEnd /\ End(r) <= DiskBlocks /\ r.len <= r.cap
        /\ \A u \in DOMAIN m : ~ Overlap(m[u], r) /\ ~ Overlap(r, m[u])
    BY <2>1, <2>2, NextOffsetClear DEF Records, End
  <2>4. Disjoint(Put(m, v, r)) /\ header' = header
    BY <1>5, <2>2, <2>3, PutManifest DEF OpenNew, headerVars
  <2> QED BY <1>1, <2>1, <2>4
<1>6. ASSUME NEW h \in Handles, NEW v \in Volumes, NEW cap \in BlobSizes, Replace(h, v, cap)
      PROVE  ManifestsDisjoint'
  <2>1. PICK m \in Readable, o \in 0 .. DiskBlocks :
          /\ IsNextOffset(Without(m, v), o) /\ o + cap <= DiskBlocks
          /\ copy' = [copy EXCEPT ![h] = Put(Without(m, v), v,
                         [off |-> o, cap |-> cap, len |-> 0])]
    BY <1>6 DEF Replace
  <2> DEFINE r == [off |-> o, cap |-> cap, len |-> 0]
             w == Without(m, v)
  <2>2. IsManifest(w) /\ Disjoint(w) /\ o \in Nat /\ cap \in Nat
    BY ReadableManifest, WithoutManifest DEF TypeInv, BoundAssumption
  <2>3. /\ r \in Records /\ r.off >= HeaderEnd /\ End(r) <= DiskBlocks /\ r.len <= r.cap
        /\ \A u \in DOMAIN w : ~ Overlap(w[u], r) /\ ~ Overlap(r, w[u])
    BY <2>1, <2>2, NextOffsetClear DEF Records, End
  <2>4. Disjoint(Put(w, v, r)) /\ header' = header
    BY <1>6, <2>2, <2>3, PutManifest DEF Replace, headerVars
  <2> QED BY <1>1, <2>1, <2>4
<1>7. ASSUME NEW h \in Handles, NEW v \in Volumes, Remove(h, v)
      PROVE  ManifestsDisjoint'
  <2>1. PICK m \in Readable : copy' = [copy EXCEPT ![h] = Without(m, v)]
    BY <1>7 DEF Remove
  <2>2. Disjoint(Without(m, v)) /\ header' = header
    BY <1>7, ReadableManifest, WithoutManifest DEF TypeInv, Remove, headerVars
  <2> QED BY <1>1, <2>1, <2>2
<1>8. ASSUME NEW h \in Handles, CheckLen(h) PROVE ManifestsDisjoint'
  <2>1. header' = header /\ pc[h] = "opened" /\ ExpectedLen(h) \in Nat
    BY <1>8 DEF CheckLen, headerVars, ExpectedLen, TypeInv, TypeOK
  <2>2. CASE Dropped({h})
    BY <1>2, <2>1, <2>2
  <2>3. CASE /\ ExpectedLen(h) <= region[h].cap
             /\ copy' = [copy EXCEPT ![h] = SetLength(copy[h], vol[h], ExpectedLen(h))]
    BY <1>1, <1>3, <2>1, <2>3 DEF HasRecord
  <2>4. CASE UNCHANGED copy
    BY <2>1, <2>4 DEF ManifestsDisjoint
  <2> QED BY <1>8, <2>2, <2>3, <2>4 DEF CheckLen
<1>9. ASSUME NEW h \in Handles, NEW b \in 0 .. DiskBlocks, NEW size \in 0 .. DiskBlocks,
             Write(h, b, size)
      PROVE  ManifestsDisjoint'
  <2>1. header' = header /\ HasRecord(h) /\ b < region[h].cap /\ b \in Nat
    BY <1>9 DEF Write, headerVars, HasRecord
  <2>2. b + 1 \in Nat /\ b + 1 <= region[h].cap
    BY <2>1, RegionFits
  <2>3. CASE copy' = [copy EXCEPT ![h] = SetLength(copy[h], vol[h], b + 1)]
    BY <1>1, <1>3, <2>1, <2>2, <2>3
  <2>4. CASE UNCHANGED copy
    BY <2>1, <2>4 DEF ManifestsDisjoint
  <2> QED BY <1>9, <2>3, <2>4 DEF Write
<1>10. ASSUME NEW h \in Handles, NEW n \in 0 .. DiskBlocks, SetLen(h, n)
       PROVE  ManifestsDisjoint'
  <2>1. /\ header' = header /\ HasRecord(h) /\ n <= region[h].cap /\ n \in Nat
        /\ copy' = [copy EXCEPT ![h] = SetLength(copy[h], vol[h], n)]
    BY <1>10 DEF SetLen, headerVars, HasRecord
  <2> QED BY <1>1, <1>3, <2>1
<1>11. ASSUME NEW h \in Handles, EndPersist(h) PROVE ManifestsDisjoint'
  <2>1. header' \in {header, copy[h]}
    BY <1>11 DEF EndPersist, HeaderWritten
  <2>2. CASE Dropped({h})
    BY <1>2, <2>1, <2>2
  <2>3. CASE copy' = copy \/ copy' = [copy EXCEPT ![h] = NoManifest]
    BY <2>1, <2>3, EmptyManifest DEF ManifestsDisjoint, TypeInv, TypeOK
  <2> QED BY <1>11, <2>2, <2>3 DEF EndPersist
<1>12. ASSUME NEW h \in Handles, OpenRefused(h) \/ Close(h) PROVE ManifestsDisjoint'
  <2>1. Dropped({h}) /\ header' = header
    BY <1>12 DEF OpenRefused, Close, headerVars
  <2> QED BY <1>2, <2>1
<1>13. ASSUME NEW h \in Handles, BeginPersist(h) PROVE ManifestsDisjoint'
  BY <1>13 DEF BeginPersist, handleVars, ManifestsDisjoint
<1>14. CASE Crash
  <2>1. Dropped(Handles) /\ header' = header
    BY <1>14 DEF Crash
  <2> QED BY <1>2, <2>1
<1>15. CASE UNCHANGED vars
  BY <1>15 DEF vars, headerVars, handleVars, ManifestsDisjoint
<1> QED BY <1>4, <1>5, <1>6, <1>7, <1>8, <1>9, <1>10, <1>11, <1>12, <1>13, <1>14, <1>15 DEF Next

\* The disk as it is found: empty, or with the volumes of Layout.
LEMMA FoundDisk ==
    ASSUME VolumesAssumption, LayoutAssumption, BoundAssumption, Init
    PROVE  IsManifest(header) /\ Disjoint(header)
<1>1. CASE usage = "warm"
  <2>1. header = Layout
    BY <1>1 DEF Init
  <2> QED BY <2>1 DEF LayoutAssumption, IsManifest, Disjoint, Records, HeaderEnd, End, Overlap
<1>2. CASE usage # "warm"
  <2>1. header = NoManifest
    BY <1>2 DEF Init
  <2> QED BY <2>1, EmptyManifest
<1> QED BY <1>1, <1>2

\* The types and HandleInv hold initially.
LEMMA TypeInit ==
    ASSUME VolumesAssumption, LayoutAssumption, BoundAssumption, Init
    PROVE  TypeInv
<1>1. DOMAIN cells \subseteq 1 .. DiskBlocks /\ cells \in [DOMAIN cells -> [vol : Volumes, size : Nat]]
  <2>1. CASE usage = "warm"
    <3> DEFINE first == {Layout[v].off : v \in Volumes}
               owner(b) == CHOOSE v \in Volumes : Layout[v].off = b
    <3>1. \A b \in first : owner(b) \in Volumes /\ Layout[owner(b)].len \in Nat
      BY DEF LayoutAssumption
    <3>2. first \subseteq 1 .. DiskBlocks
      BY DEF LayoutAssumption, BoundAssumption
    <3>3. cells = [b \in first |-> [vol |-> owner(b),
                                    size |-> IF owner(b) \in Stores THEN Layout[owner(b)].len ELSE 0]]
      BY <2>1 DEF Init
    <3> QED BY <3>1, <3>2, <3>3
  <2>2. CASE usage # "warm"
    BY <2>2 DEF Init, NoManifest
  <2> QED BY <2>1, <2>2
<1>2. DOMAIN kept \subseteq Volumes /\ kept \in [DOMAIN kept -> Nat]
  BY FoundDisk DEF Init, IsManifest, Records
<1>3. region \in [Handles -> Regions] /\ vol \in [Handles -> Volumes]
  BY DEF Init, NoRegion, Regions, HeaderEnd, AnyVolume, VolumesAssumption
<1>4. TypeOK
  BY <1>1, <1>2, <1>3, FoundDisk, EmptyManifest DEF Init, TypeOK
<1>5. HandleInv
  BY DEF Init, HandleInv, HasRecord, InUse
<1> QED BY <1>4, <1>5 DEF TypeInv

\* In every reachable state each variable has its type, and the length of
\* every record of every manifest fits its region.
THEOREM TypeCorrect == Spec => []TypeOK
<1>1. Init => TypeInv
  BY TypeInit, VolumesAssumption, LayoutAssumption, BoundAssumption
<1>2. TypeInv /\ [Next]_vars => TypeInv'
  BY TypeStep, VolumesAssumption, BoundAssumption
<1>3. TypeInv => TypeOK
  BY DEF TypeInv
<1> QED BY <1>1, <1>2, <1>3, PTL DEF Spec

\* However many handles are open and however stale their copies are, no
\* manifest, on disk or in memory, gives two volumes overlapping regions.
THEOREM ManifestsDisjointTheorem == Spec => []ManifestsDisjoint
<1> DEFINE Inv == TypeInv /\ ManifestsDisjoint
<1>1. Init => Inv
  <2>1. Init => Disjoint(header) /\ \A h \in Handles : copy[h] = NoManifest
    BY FoundDisk, VolumesAssumption, LayoutAssumption, BoundAssumption DEF Init
  <2> QED BY <2>1, TypeInit, EmptyManifest, VolumesAssumption, LayoutAssumption, BoundAssumption DEF ManifestsDisjoint
<1>2. Inv /\ [Next]_vars => Inv'
  BY TypeStep, DisjointStep, VolumesAssumption, BoundAssumption
<1>3. Inv => ManifestsDisjoint
  OBVIOUS
<1> QED BY <1>1, <1>2, <1>3, PTL DEF Spec

-----------------------------------------------------------------------------
(***************************************************************************)
(* A disk used "warm".                                                     *)
(***************************************************************************)
AsFound(m) ==
    /\ DOMAIN m = Volumes
    /\ \A v \in Volumes : /\ m[v].off = Layout[v].off /\ m[v].cap = Layout[v].cap
                          /\ v \in Stores => m[v].len >= 1

Size(v) == cells[Layout[v].off].size

CoversSize(h) ==
    InUse(h) /\ vol[h] \in Stores =>
       /\ len[h] >= 1
       /\ pc[h] = "open" => Size(vol[h]) <= len[h]
       /\ pc[h] = "resize" => Size(vol[h]) <= copy[h][vol[h]].len

WarmInv ==
    /\ AsFound(header)
    /\ \A h \in Handles : pc[h] \in {"closed", "opened", "open", "resize"}
    /\ \A h \in Handles : InUse(h) => AsFound(copy[h])
    /\ \A g, h \in Handles : InUse(g) /\ InUse(h) /\ vol[g] = vol[h] => g = h
    /\ \A v \in Volumes : \A b \in Layout[v].off .. Layout[v].off + Layout[v].cap - 1 :
          b \in DOMAIN cells => cells[b].vol = v
    /\ \A v \in Stores : Layout[v].off \in DOMAIN cells
    /\ \A h \in Handles : CoversSize(h)

UsageInv == TypeInv /\ (usage = "warm" => WarmInv)

\* The region of an open handle is the one its volume was found with.
LEMMA WarmRegion ==
    ASSUME TypeInv, WarmInv, NEW h \in Handles, InUse(h)
    PROVE  /\ region[h].off = Layout[vol[h]].off /\ region[h].cap = Layout[vol[h]].cap
           /\ vol[h] \in Volumes
BY DEF TypeInv, TypeOK, HandleInv, WarmInv, AsFound, HasRecord, InUse

\* What a reader of the header gets names every volume where it was found.
LEMMA WarmReadable ==
    ASSUME TypeInv, WarmInv, NEW m \in Readable
    PROVE  AsFound(m)
<1>1. \A h \in writing : InUse(h)
  BY DEF TypeInv, TypeOK, HandleInv, WarmInv, InUse
<1> QED BY <1>1 DEF Readable, WarmInv, TypeInv, TypeOK

\* Dropping handles keeps WarmInv.
LEMMA WarmDropped ==
    ASSUME TypeInv, WarmInv, NEW hs \in SUBSET Handles, Dropped(hs), UNCHANGED <<header, cells>>
    PROVE  WarmInv'
BY DEF TypeInv, TypeOK, WarmInv, CoversSize, Dropped, InUse, AsFound, Size

\* A handle that turns to setting its volume's length keeps WarmInv, if the
\* length covers what a store recorded.
LEMMA WarmResize ==
    ASSUME BoundAssumption, TypeInv, WarmInv, NEW h \in Handles, InUse(h), NEW n \in Nat,
           n <= region[h].cap, vol[h] \in Stores => n >= 1 /\ n >= Size(vol[h])',
           copy' = [copy EXCEPT ![h] = SetLength(copy[h], vol[h], n)],
           pc' = [pc EXCEPT ![h] = "resize"],
           UNCHANGED <<header, vol, region, len>>,
           \A v \in Volumes : \A b \in Layout[v].off .. Layout[v].off + Layout[v].cap - 1 :
              b \in DOMAIN cells' => cells'[b].vol = v,
           \A v \in Stores : Layout[v].off \in DOMAIN cells',
           \A v \in Stores \ {vol[h]} : Size(v)' = Size(v)
    PROVE  WarmInv'
<1> DEFINE s == SetLength(copy[h], vol[h], n)
<1>1. /\ IsManifest(copy[h]) /\ vol[h] \in DOMAIN copy[h] /\ n <= copy[h][vol[h]].cap
      /\ AsFound(copy[h])
  BY DEF TypeInv, TypeOK, HandleInv, HasRecord, InUse, WarmInv
<1>2. /\ DOMAIN s = DOMAIN copy[h] /\ s[vol[h]].len = n
      /\ \A u \in DOMAIN copy[h] : /\ s[u].off = copy[h][u].off /\ s[u].cap = copy[h][u].cap
                                   /\ u # vol[h] => s[u] = copy[h][u]
  BY <1>1, LengthManifest
<1>3. AsFound(s)
  BY <1>1, <1>2 DEF AsFound
<1>4. AsFound(header)' /\ \A g \in Handles : pc'[g] \in {"closed", "opened", "open", "resize"}
  BY DEF WarmInv, AsFound, TypeInv, TypeOK
<1>5. \A g \in Handles : InUse(g)' <=> InUse(g)
  BY DEF InUse, TypeInv, TypeOK
<1>6. \A g \in Handles : InUse(g)' => AsFound(copy[g])'
  BY <1>3, <1>5 DEF AsFound, WarmInv, TypeInv, TypeOK
<1>7. \A f, g \in Handles : InUse(f)' /\ InUse(g)' /\ vol'[f] = vol'[g] => f = g
  BY <1>5 DEF WarmInv
<1>8. ASSUME NEW g \in Handles PROVE CoversSize(g)'
  <2>1. vol' = vol /\ len' = len /\ CoversSize(g)
    BY DEF WarmInv
  <2>2. CASE g = h
    <3>1. pc'[g] = "resize" /\ copy'[g] = s
      BY <2>2 DEF TypeInv, TypeOK
    <3> QED BY <1>2, <2>1, <2>2, <3>1 DEF CoversSize, InUse
  <2>3. CASE g # h
    <3>1. InUse(g) => vol[g] # vol[h]
      BY <2>3 DEF WarmInv
    <3>2. pc'[g] = pc[g] /\ copy'[g] = copy[g]
      BY <2>3 DEF TypeInv, TypeOK
    <3>3. InUse(g) /\ vol[g] \in Stores => Size(vol[g])' = Size(vol[g])
      BY <3>1
    <3> QED BY <2>1, <3>2, <3>3 DEF CoversSize, InUse
  <2> QED BY <2>2, <2>3
<1>9. /\ \A v \in Volumes : \A b \in Layout[v].off .. Layout[v].off + Layout[v].cap - 1 :
              b \in DOMAIN cells' => cells'[b].vol = v
      /\ \A v \in Stores : Layout[v].off \in DOMAIN cells'
  OBVIOUS
<1> QED BY <1>4, <1>6, <1>7, <1>8, <1>9 DEF WarmInv

\* Every step of a disk used "warm" keeps WarmInv.
LEMMA WarmStep ==
    ASSUME VolumesAssumption, BoundAssumption, TypeInv, usage = "warm", WarmInv, [Next]_vars
    PROVE  WarmInv'
<1>1. ASSUME NEW h \in Handles, NEW v \in Volumes, OpenExisting(h, v) PROVE WarmInv'
  <2>1. PICK m \in Readable :
          /\ v \in DOMAIN m
          /\ copy' = [copy EXCEPT ![h] = m]
          /\ region' = [region EXCEPT ![h] = [off |-> m[v].off, cap |-> m[v].cap]]
          /\ len' = [len EXCEPT ![h] = m[v].len]
    BY <1>1 DEF OpenExisting
  <2>2. AsFound(m)
    BY WarmReadable
  <2>3. /\ pc' = [pc EXCEPT ![h] = "opened"] /\ vol' = [vol EXCEPT ![h] = v]
        /\ header' = header /\ cells' = cells
        /\ \A g \in Handles \ {h} : vol[g] = v => pc[g] = "closed"
    BY <1>1 DEF OpenExisting, headerVars, MayOpen
  <2>4. \A g \in Handles : CoversSize(g)'
    BY <2>1, <2>2, <2>3 DEF CoversSize, InUse, AsFound, WarmInv, TypeInv, TypeOK, Size
  <2>5. \A g \in Handles : InUse(g)' => AsFound(copy'[g])
    BY <2>1, <2>2, <2>3 DEF InUse, WarmInv, TypeInv, TypeOK
  <2>6. \A f, g \in Handles : InUse(f)' /\ InUse(g)' /\ vol'[f] = vol'[g] => f = g
    BY <2>3 DEF InUse, WarmInv, TypeInv, TypeOK
  <2>7. \A g \in Handles : pc'[g] \in {"closed", "opened", "open", "resize"}
    BY <2>3 DEF WarmInv, TypeInv, TypeOK
  <2> QED BY <2>3, <2>4, <2>5, <2>6, <2>7 DEF WarmInv, AsFound
<1>2. ASSUME NEW h \in Handles, NEW v \in Volumes, OpenNew(h, v) PROVE FALSE
  BY <1>2, WarmReadable DEF OpenNew, AsFound
<1>3. ASSUME NEW h \in Handles, OpenRefused(h) \/ Close(h) PROVE WarmInv'
  <2>1. Dropped({h}) /\ UNCHANGED <<header, cells>>
    BY <1>3 DEF OpenRefused, Close, headerVars
  <2> QED BY <2>1, WarmDropped
<1>4. ASSUME NEW h \in Handles, CheckLen(h) PROVE WarmInv'
  <2>1. pc[h] = "opened" /\ InUse(h) /\ UNCHANGED <<header, cells>> /\ ExpectedLen(h) \in Nat
    BY <1>4 DEF CheckLen, headerVars, InUse, ExpectedLen, TypeInv, TypeOK
  <2>2. region[h].off = Layout[vol[h]].off /\ vol[h] \in Volumes /\ CoversSize(h)
    BY <2>1, WarmRegion DEF WarmInv
  <2>3. vol[h] \in Stores => ExpectedLen(h) = Size(vol[h])
    <3>1. SUFFICES ASSUME vol[h] \in Stores PROVE ExpectedLen(h) = Size(vol[h])
      OBVIOUS
    <3>2. Layout[vol[h]].off \in DOMAIN cells /\ len[h] > 0
      BY <2>1, <2>2, <3>1 DEF WarmInv, CoversSize, TypeInv, TypeOK
    <3>3. /\ Layout[vol[h]].off \in Nat
          /\ Layout[vol[h]].off \in Layout[vol[h]].off .. Layout[vol[h]].off + Layout[vol[h]].cap - 1
      BY <2>2, LayoutAssumption
    <3>4. cells[Layout[vol[h]].off].vol = vol[h]
      BY <2>2, <3>2, <3>3 DEF WarmInv
    <3> QED BY <2>2, <3>2, <3>4 DEF ExpectedLen, Size
  <2>4. CASE Dropped({h})
    BY <2>1, <2>4, WarmDropped
  <2>5. CASE /\ vol[h] \in Stores /\ len[h] < ExpectedLen(h) /\ ExpectedLen(h) <= region[h].cap
             /\ copy' = [copy EXCEPT ![h] = SetLength(copy[h], vol[h], ExpectedLen(h))]
             /\ pc' = [pc EXCEPT ![h] = "resize"]
             /\ UNCHANGED <<vol, region, len>>
    <3>1. /\ UNCHANGED <<header, vol, region, len>> /\ \A v \in Volumes : Size(v)' = Size(v)
          /\ UNCHANGED cells /\ ExpectedLen(h) >= 1 /\ ExpectedLen(h) >= Size(vol[h])'
      BY <2>1, <2>2, <2>3, <2>5 DEF Size, TypeInv, TypeOK
    <3> QED BY <2>1, <2>5, <3>1, WarmResize, VolumesAssumption DEF WarmInv
  <2>6. CASE /\ ~ (vol[h] \in Stores /\ len[h] < ExpectedLen(h))
             /\ pc' = [pc EXCEPT ![h] = "open"]
             /\ UNCHANGED <<vol, copy, region, len>>
    <3>1. vol[h] \in Stores => Size(vol[h]) <= len[h]
      BY <2>1, <2>3, <2>6 DEF TypeInv, TypeOK
    <3>2. \A g \in Handles : CoversSize(g)'
      BY <2>1, <2>6, <3>1 DEF CoversSize, InUse, WarmInv, TypeInv, TypeOK, Size
    <3>3. \A g \in Handles : InUse(g)' <=> InUse(g)
      BY <2>1, <2>6 DEF InUse, TypeInv, TypeOK
    <3> QED BY <2>1, <2>6, <3>2, <3>3 DEF WarmInv, TypeInv, TypeOK, AsFound
  <2> QED BY <1>4, <2>4, <2>5, <2>6 DEF CheckLen
<1>5. ASSUME NEW h \in Handles, BeginPersist(h) PROVE WarmInv'
  BY <1>5 DEF BeginPersist, handleVars, WarmInv, CoversSize, InUse, AsFound, Size
<1>6. ASSUME NEW h \in Handles, EndPersist(h) PROVE WarmInv'
  <2>1. h \in writing /\ cells' = cells /\ pc[h] = "resize" /\ header' \in {header, copy[h]}
    BY <1>6 DEF EndPersist, HeaderWritten, TypeInv, TypeOK, HandleInv, WarmInv
  <2>2. /\ pc' = [pc EXCEPT ![h] = "open"]
        /\ len' = [len EXCEPT ![h] = copy[h][vol[h]].len]
        /\ UNCHANGED <<vol, copy, region>>
    BY <1>6, <2>1 DEF EndPersist
  <2>3. AsFound(copy[h]) /\ InUse(h) /\ vol[h] \in Volumes
    BY <2>1 DEF WarmInv, InUse, TypeInv, TypeOK
  <2>4. AsFound(header')
    BY <2>1, <2>3 DEF WarmInv
  <2>5. \A g \in Handles : InUse(g)' <=> InUse(g)
    BY <2>1, <2>2 DEF InUse, TypeInv, TypeOK
  <2>6. \A g \in Handles : CoversSize(g)'
    BY <2>1, <2>2, <2>3 DEF CoversSize, InUse, AsFound, WarmInv, TypeInv, TypeOK, Size
  <2>7. \A g \in Handles : pc'[g] \in {"closed", "opened", "open", "resize"}
    BY <2>2 DEF WarmInv, TypeInv, TypeOK
  <2> QED BY <2>1, <2>2, <2>4, <2>5, <2>6, <2>7 DEF WarmInv
<1>7. ASSUME NEW h \in Handles, NEW b \in 0 .. DiskBlocks, NEW size \in 0 .. DiskBlocks,
             Write(h, b, size)
      PROVE  WarmInv'
  <2>1. /\ pc[h] = "open" /\ InUse(h) /\ b < region[h].cap /\ b \in Nat /\ size \in Nat
        /\ IF vol[h] \in Stores /\ b = 0 THEN size \in 1 .. len[h] ELSE size = 0
        /\ cells' = Put(cells, region[h].off + b, [vol |-> vol[h], size |-> size])
        /\ UNCHANGED <<header, vol, region, len>>
    BY <1>7 DEF Write, headerVars, InUse
  <2>2. /\ region[h].off = Layout[vol[h]].off /\ region[h].cap = Layout[vol[h]].cap
        /\ vol[h] \in Volumes /\ CoversSize(h)
    BY <2>1, WarmRegion DEF WarmInv
  <2> DEFINE c == Layout[vol[h]].off + b
  <2>3. /\ cells'[c] = [vol |-> vol[h], size |-> size] /\ DOMAIN cells' = DOMAIN cells \union {c}
        /\ \A d \in DOMAIN cells \ {c} : cells'[d] = cells[d]
    BY <2>1, <2>2 DEF Put
  <2>4. \A v \in Volumes \ {vol[h]} :
          c \notin Layout[v].off .. Layout[v].off + Layout[v].cap - 1
    BY <2>1, <2>2, LayoutAssumption
  <2>5. \A v \in Volumes : \A d \in Layout[v].off .. Layout[v].off + Layout[v].cap - 1 :
          d \in DOMAIN cells' => cells'[d].vol = v
    BY <2>3, <2>4 DEF WarmInv
  <2>6. \A v \in Stores : Layout[v].off \in DOMAIN cells'
    BY <2>3 DEF WarmInv
  <2>7. \A v \in Stores \ {vol[h]} : Layout[v].off # c
    BY <2>4, LayoutAssumption, VolumesAssumption
  <2>8. \A v \in Stores \ {vol[h]} : Size(v)' = Size(v)
    BY <2>3, <2>7 DEF Size, WarmInv
  <2>9. vol[h] \in Stores => Size(vol[h])' <= len[h]
    <3>1. SUFFICES ASSUME vol[h] \in Stores PROVE cells'[Layout[vol[h]].off].size <= len[h]
      BY <2>1 DEF Size
    <3>2. CASE b = 0
      BY <2>1, <2>2, <2>3, <3>1, <3>2, LayoutAssumption
    <3>3. CASE b # 0
      <4>1. Layout[vol[h]].off # c /\ Layout[vol[h]].off \in DOMAIN cells
        BY <2>1, <2>2, <3>1, <3>3, LayoutAssumption DEF WarmInv
      <4>2. Size(vol[h]) <= len[h]
        BY <2>1, <2>2, <3>1 DEF CoversSize
      <4> QED BY <2>3, <4>1, <4>2 DEF Size
    <3> QED BY <3>2, <3>3
  <2>10. CASE UNCHANGED <<copy, pc>>
    <3>1. ASSUME NEW g \in Handles PROVE CoversSize(g)'
      <4>1. CoversSize(g) /\ (InUse(g) /\ g # h => vol[g] # vol[h])
        BY <2>1 DEF WarmInv
      <4>2. InUse(g) /\ g # h /\ vol[g] \in Stores => Size(vol[g])' = Size(vol[g])
        BY <2>1, <2>8, <4>1
      <4>3. InUse(g)' = InUse(g)
        BY <2>10 DEF InUse
      <4>4. CASE g = h
        BY <2>1, <2>9, <2>10, <4>1, <4>4 DEF CoversSize, InUse
      <4>5. CASE g # h
        BY <2>1, <2>10, <4>1, <4>2, <4>3, <4>5 DEF CoversSize
      <4> QED BY <4>4, <4>5
    <3>2. \A g \in Handles : InUse(g)' <=> InUse(g)
      BY <2>10 DEF InUse
    <3> QED BY <2>1, <2>5, <2>6, <2>10, <3>1, <3>2 DEF WarmInv, AsFound
  <2>11. CASE /\ b + 1 > len[h]
              /\ copy' = [copy EXCEPT ![h] = SetLength(copy[h], vol[h], b + 1)]
              /\ pc' = [pc EXCEPT ![h] = "resize"]
    <3>1. b + 1 \in Nat /\ b + 1 <= region[h].cap
      BY <2>1, RegionFits DEF HasRecord
    <3>2. vol[h] \in Stores => b + 1 >= 1 /\ b + 1 >= Size(vol[h])'
      <4>1. vol[h] \in Stores => Size(vol[h])' \in Nat
        <5>1. TypeInv'
          BY TypeStep
        <5>2. vol' = vol /\ (vol[h] \in Stores => Layout[vol[h]].off \in DOMAIN cells')
          BY <2>1, <2>6
        <5> QED BY <5>1, <5>2 DEF Size, TypeInv, TypeOK
      <4> QED BY <2>1, <2>9, <2>11, <4>1 DEF TypeInv, TypeOK
    <3> QED BY <2>1, <2>5, <2>6, <2>8, <2>11, <3>1, <3>2, WarmResize
  <2> QED BY <1>7, <2>10, <2>11 DEF Write
<1>8. ASSUME NEW h \in Handles, NEW n \in 0 .. DiskBlocks, SetLen(h, n) PROVE WarmInv'
  <2>1. /\ pc[h] = "open" /\ InUse(h) /\ n \in Nat /\ n <= region[h].cap
        /\ vol[h] \in Stores => n >= 1 /\ n >= ExpectedLen(h)
        /\ copy' = [copy EXCEPT ![h] = SetLength(copy[h], vol[h], n)]
        /\ pc' = [pc EXCEPT ![h] = "resize"]
        /\ UNCHANGED <<header, vol, region, len>> /\ UNCHANGED cells
    BY <1>8 DEF SetLen, headerVars, InUse
  <2>2. region[h].off = Layout[vol[h]].off /\ vol[h] \in Volumes /\ CoversSize(h)
    BY <2>1, WarmRegion DEF WarmInv
  <2>3. vol[h] \in Stores => ExpectedLen(h) = Size(vol[h])
    <3>1. SUFFICES ASSUME vol[h] \in Stores PROVE ExpectedLen(h) = Size(vol[h])
      OBVIOUS
    <3>2. Layout[vol[h]].off \in DOMAIN cells /\ len[h] > 0
      BY <2>1, <2>2, <3>1 DEF WarmInv, CoversSize, TypeInv, TypeOK
    <3>3. /\ Layout[vol[h]].off \in Nat
          /\ Layout[vol[h]].off \in Layout[vol[h]].off .. Layout[vol[h]].off + Layout[vol[h]].cap - 1
      BY <2>2, LayoutAssumption
    <3>4. cells[Layout[vol[h]].off].vol = vol[h]
      BY <2>2, <3>2, <3>3 DEF WarmInv
    <3> QED BY <2>2, <3>2, <3>4 DEF ExpectedLen, Size
  <2>4. \A v \in Volumes : Size(v)' = Size(v)
    BY <2>1 DEF Size
  <2> QED BY <2>1, <2>2, <2>3, <2>4, WarmResize, VolumesAssumption DEF WarmInv
<1>9. ASSUME NEW h \in Handles, NEW v \in Volumes,
             Remove(h, v) \/ \E cap \in BlobSizes : Replace(h, v, cap)
      PROVE  FALSE
  BY <1>9 DEF Remove, Replace
<1>10. CASE Crash
  <2>1. Dropped(Handles) /\ UNCHANGED <<header, cells>>
    BY <1>10 DEF Crash
  <2> QED BY <2>1, WarmDropped
<1>11. CASE UNCHANGED vars
  BY <1>11 DEF vars, headerVars, handleVars, WarmInv, CoversSize, InUse, AsFound, Size
<1> QED BY <1>1, <1>2, <1>3, <1>4, <1>5, <1>6, <1>7, <1>8, <1>9, <1>10, <1>11 DEF Next

\* A disk that is found filled satisfies WarmInv.
LEMMA WarmInit ==
    ASSUME VolumesAssumption, Init, usage = "warm"
    PROVE  WarmInv
<1> DEFINE first == {Layout[v].off : v \in Volumes}
           owner(b) == CHOOSE v \in Volumes : Layout[v].off = b
<1>1. cells = [b \in first |-> [vol |-> owner(b),
                                size |-> IF owner(b) \in Stores THEN Layout[owner(b)].len ELSE 0]]
  BY DEF Init
<1>2. \A u, v \in Volumes :
         Layout[u].off \in Layout[v].off .. Layout[v].off + Layout[v].cap - 1 => u = v
  BY LayoutAssumption
<1>3. \A b \in first : owner(b) \in Volumes /\ Layout[owner(b)].off = b
  OBVIOUS
<1>4. \A v \in Volumes : \A b \in Layout[v].off .. Layout[v].off + Layout[v].cap - 1 :
          b \in DOMAIN cells => cells[b].vol = v
  BY <1>1, <1>2, <1>3
<1>5. AsFound(header)
  BY VolumesAssumption, LayoutAssumption DEF Init, AsFound
<1>6. \A h \in Handles : ~ InUse(h) /\ pc[h] = "closed"
  BY DEF Init, InUse
<1>7. \A v \in Stores : Layout[v].off \in DOMAIN cells
  BY <1>1, VolumesAssumption
<1> QED BY <1>4, <1>5, <1>6, <1>7 DEF WarmInv, CoversSize

\* Nothing changes how the disk is used.
LEMMA UsageKept == [Next]_vars => usage' = usage
<1> SUFFICES ASSUME [Next]_vars PROVE usage' = usage
  OBVIOUS
<1> USE DEF OpenExisting, OpenNew, OpenRefused, CheckLen, BeginPersist, EndPersist,
            Write, SetLen, Replace, Remove, Close
<1>1. ASSUME NEW h \in Handles, NEW v \in Volumes,
             \/ OpenExisting(h, v) \/ OpenNew(h, v) \/ Remove(h, v)
             \/ \E cap \in BlobSizes : Replace(h, v, cap)
      PROVE  usage' = usage
  BY <1>1
<1>2. ASSUME NEW h \in Handles,
             \/ \E b, size \in 0 .. DiskBlocks : Write(h, b, size)
             \/ \E n \in 0 .. DiskBlocks : SetLen(h, n)
             \/ OpenRefused(h) \/ CheckLen(h) \/ Close(h)
      PROVE  usage' = usage
  BY <1>2
<1>3. ASSUME NEW h \in Handles, BeginPersist(h) \/ EndPersist(h) PROVE usage' = usage
  BY <1>3
<1> HIDE DEF OpenExisting, OpenNew, OpenRefused, CheckLen, BeginPersist, EndPersist,
             Write, SetLen, Replace, Remove, Close
<1> QED BY <1>1, <1>2, <1>3 DEF Next, vars, Crash

\* UsageInv is inductive.
LEMMA UsageInductive ==
    ASSUME VolumesAssumption, LayoutAssumption, BoundAssumption
    PROVE  /\ Init => UsageInv
           /\ UsageInv /\ [Next]_vars => UsageInv'
<1>1. Init => UsageInv
  BY TypeInit, WarmInit DEF UsageInv
<1>2. ASSUME UsageInv, [Next]_vars PROVE UsageInv'
  <2>1. usage' = usage
    BY <1>2, UsageKept
  <2> QED BY <1>2, <2>1, TypeStep, WarmStep DEF UsageInv
<1> QED BY <1>1, <1>2

\* In a running gateway no store is opened shorter than the size redb laid
\* its data out for, whatever lengths stale manifests put back on disk.
THEOREM StoreNeverTruncatedTheorem == Spec => []StoreNeverTruncated
<1>1. Init => UsageInv
  BY UsageInductive, VolumesAssumption, LayoutAssumption, BoundAssumption
<1>2. UsageInv /\ [Next]_vars => UsageInv'
  BY UsageInductive, VolumesAssumption, LayoutAssumption, BoundAssumption
<1>3. ASSUME UsageInv PROVE StoreNeverTruncated
  <2>1. SUFFICES ASSUME usage = "warm", NEW h \in Handles, pc[h] = "open", vol[h] \in Stores
                 PROVE  /\ region[h].off \in DOMAIN cells
                        /\ cells[region[h].off].vol = vol[h]
                        /\ cells[region[h].off].size <= len[h]
    BY DEF StoreNeverTruncated
  <2>2. TypeInv /\ WarmInv /\ InUse(h) /\ vol[h] \in Volumes
    BY <1>3, <2>1 DEF UsageInv, InUse, TypeInv, TypeOK
  <2>3. region[h].off = Layout[vol[h]].off
    BY <2>2, WarmRegion
  <2>4. /\ Layout[vol[h]].off \in Nat
        /\ Layout[vol[h]].off \in Layout[vol[h]].off .. Layout[vol[h]].off + Layout[vol[h]].cap - 1
    BY <2>2, LayoutAssumption
  <2> QED BY <2>1, <2>2, <2>3, <2>4 DEF WarmInv, CoversSize, Size
<1> QED BY <1>1, <1>2, <1>3, PTL DEF Spec

\* In a running gateway no write reaches another open volume's region: what
\* lies in a handle's region was written through its own volume.
THEOREM RegionsHoldOwnDataTheorem == Spec => []RegionsHoldOwnData
<1>1. Init => UsageInv
  BY UsageInductive, VolumesAssumption, LayoutAssumption, BoundAssumption
<1>2. UsageInv /\ [Next]_vars => UsageInv'
  BY UsageInductive, VolumesAssumption, LayoutAssumption, BoundAssumption
<1>3. ASSUME UsageInv PROVE RegionsHoldOwnData
  <2>1. SUFFICES ASSUME usage = "warm", NEW h \in Handles, InUse(h),
                        NEW b \in region[h].off .. End(region[h]) - 1, b \in DOMAIN cells
                 PROVE  cells[b].vol = vol[h]
    BY DEF RegionsHoldOwnData
  <2>2. TypeInv /\ WarmInv
    BY <1>3, <2>1 DEF UsageInv
  <2>3. /\ vol[h] \in Volumes /\ region[h].off = Layout[vol[h]].off
        /\ region[h].cap = Layout[vol[h]].cap
    BY <2>1, <2>2, WarmRegion
  <2>4. b \in Layout[vol[h]].off .. Layout[vol[h]].off + Layout[vol[h]].cap - 1
    BY <2>1, <2>3, LayoutAssumption DEF End
  <2> QED BY <2>1, <2>2, <2>3, <2>4 DEF WarmInv
<1> QED BY <1>1, <1>2, <1>3, PTL DEF Spec

AloneInv ==
    usage = "exclusive" =>
        \A g, h \in Handles : pc[g] # "closed" /\ pc[h] # "closed" => g = h

\* Used exclusively, at most one handle is not closed.
LEMMA AloneStep ==
    ASSUME TypeInv, AloneInv, [Next]_vars
    PROVE  AloneInv'
<1>1. ASSUME NEW h \in Handles, NEW v \in Volumes,
             OpenExisting(h, v) \/ OpenNew(h, v) \/ Remove(h, v)
                \/ \E cap \in BlobSizes : Replace(h, v, cap)
      PROVE  AloneInv'
  <2>1. /\ usage' = usage /\ MayOpen(h, v)
        /\ \A g \in Handles \ {h} : pc'[g] = pc[g]
    BY <1>1 DEF OpenExisting, OpenNew, Remove, Replace, TypeInv, TypeOK
  <2> QED BY <2>1 DEF AloneInv, MayOpen
<1>2. ASSUME usage' = usage, \A h \in Handles : pc'[h] # "closed" => pc[h] # "closed"
      PROVE  AloneInv'
  BY <1>2 DEF AloneInv
<1>3. ASSUME NEW h \in Handles,
             OpenRefused(h) \/ CheckLen(h) \/ Close(h) \/ BeginPersist(h) \/ EndPersist(h)
      PROVE  AloneInv'
  <2>1. usage' = usage /\ \A g \in Handles : pc'[g] # "closed" => pc[g] # "closed"
    BY <1>3 DEF OpenRefused, CheckLen, Close, BeginPersist, EndPersist, Dropped, handleVars,
                TypeInv, TypeOK
  <2> QED BY <1>2, <2>1
<1>4. ASSUME NEW h \in Handles,
             (\E b, size \in 0 .. DiskBlocks : Write(h, b, size))
                \/ \E n \in 0 .. DiskBlocks : SetLen(h, n)
      PROVE  AloneInv'
  <2>1. usage' = usage /\ \A g \in Handles : pc'[g] # "closed" => pc[g] # "closed"
    BY <1>4 DEF Write, SetLen, TypeInv, TypeOK
  <2> QED BY <1>2, <2>1
<1>5. CASE Crash
  BY <1>2, <1>5 DEF Crash, Dropped
<1>6. CASE UNCHANGED vars
  BY <1>2, <1>6 DEF vars, handleVars
<1> QED BY <1>1, <1>3, <1>4, <1>5, <1>6 DEF Next

\* As long as the disk is used by the rules, two open handles of different
\* volumes never work on overlapping regions.
THEOREM LiveRegionsDisjointTheorem == Spec => []LiveRegionsDisjoint
<1> DEFINE Inv == UsageInv /\ AloneInv /\ usage \in Usages
<1>1. Init => Inv
  BY UsageInductive, VolumesAssumption, LayoutAssumption, BoundAssumption DEF Init, AloneInv
<1>2. Inv /\ [Next]_vars => Inv'
  BY UsageInductive, AloneStep, TypeStep, VolumesAssumption, LayoutAssumption, BoundAssumption
     DEF UsageInv, TypeInv, TypeOK
<1>3. ASSUME Inv PROVE LiveRegionsDisjoint
  <2>1. SUFFICES ASSUME usage # "free", NEW g \in Handles, NEW h \in Handles,
                        InUse(g), InUse(h), vol[g] # vol[h]
                 PROVE  ~ Overlap(region[g], region[h])
    BY DEF LiveRegionsDisjoint
  <2>2. usage = "warm"
    BY <1>3, <2>1, UsagesAssumption DEF AloneInv, InUse
  <2>3. /\ region[g].off = Layout[vol[g]].off /\ region[g].cap = Layout[vol[g]].cap
        /\ region[h].off = Layout[vol[h]].off /\ region[h].cap = Layout[vol[h]].cap
        /\ vol[g] \in Volumes /\ vol[h] \in Volumes
    BY <1>3, <2>1, <2>2, WarmRegion DEF UsageInv
  <2> QED BY <2>1, <2>3, LayoutAssumption DEF Overlap, End
<1> QED BY <1>1, <1>2, <1>3, PTL DEF Spec

-----------------------------------------------------------------------------
(* Lengths under exclusive use.  The copy of the one handle differs from   *)
(* the promised lengths at its own volume only, so writing it back over    *)
(* the header loses no other volume's length.                              *)

Follows(m, v) ==
    /\ DOMAIN m \ {v} = DOMAIN kept \ {v}
    /\ \A u \in DOMAIN m \ {v} : m[u].len = kept[u]

KeptHandle(h) ==
    /\ pc[h] \notin {"closed", "reopen"} => Follows(copy[h], vol[h])
    /\ pc[h] = "replace" => vol[h] \in DOMAIN copy[h] /\ copy[h][vol[h]].len = 0
    /\ pc[h] = "remove" => vol[h] \notin DOMAIN copy[h]

KeptInv == mixed = {} /\ LengthsKept /\ \A h \in Handles : KeptHandle(h)

\* A handle that is opened by itself reads the whole header.
LEMMA AloneReads ==
    ASSUME usage = "exclusive", TypeInv, NEW h \in Handles, NEW v \in Volumes,
           pc[h] \in {"closed", "reopen"}, MayOpen(h, v), NEW m \in Readable
    PROVE  ~ torn /\ m = header /\ \A g \in Handles \ {h} : pc[g] = "closed"
<1>1. \A g \in Handles \ {h} : pc[g] = "closed"
  BY DEF MayOpen
<1>2. writing = {}
  BY <1>1 DEF TypeInv, TypeOK, HandleInv
<1> QED BY <1>1, <1>2 DEF Readable

LEMMA KeptOpen ==
    ASSUME usage = "exclusive", TypeInv, KeptInv, NEW h \in Handles, NEW v \in Volumes,
           OpenExisting(h, v) \/ OpenNew(h, v) \/ Remove(h, v)
              \/ \E cap \in BlobSizes : Replace(h, v, cap)
    PROVE  KeptInv'
<1>1. PICK m \in Readable :
         /\ pc'[h] \in {"opened", "create", "remove", "replace"} /\ vol'[h] = v
         /\ \/ pc'[h] \in {"opened", "create"} /\ copy'[h] = m
            \/ pc'[h] \in {"opened", "create"}
                  /\ \E r : copy'[h] = Put(m, v, r)
            \/ pc'[h] = "remove" /\ copy'[h] = Without(m, v)
            \/ pc'[h] = "replace"
                  /\ \E r : copy'[h] = Put(Without(m, v), v, r) /\ r.len = 0
  <2>1. CASE OpenExisting(h, v)
    BY <2>1 DEF OpenExisting, TypeInv, TypeOK
  <2>2. CASE OpenNew(h, v)
    BY <2>2 DEF OpenNew, TypeInv, TypeOK
  <2>3. CASE Remove(h, v)
    BY <2>3 DEF Remove, TypeInv, TypeOK
  <2>4. ASSUME NEW cap \in BlobSizes, Replace(h, v, cap)
        PROVE  \E m \in Readable :
                  /\ pc'[h] = "replace" /\ vol'[h] = v
                  /\ \E r : copy'[h] = Put(Without(m, v), v, r) /\ r.len = 0
    <3>1. PICK m \in Readable, o \in 0 .. DiskBlocks :
             copy' = [copy EXCEPT ![h] = Put(Without(m, v), v,
                         [off |-> o, cap |-> cap, len |-> 0])]
      BY <2>4 DEF Replace
    <3>2. copy'[h] = Put(Without(m, v), v, [off |-> o, cap |-> cap, len |-> 0])
      BY <3>1 DEF TypeInv, TypeOK
    <3>3. [off |-> o, cap |-> cap, len |-> 0].len = 0
      OBVIOUS
    <3>4. pc'[h] = "replace" /\ vol'[h] = v
      BY <2>4 DEF Replace, TypeInv, TypeOK
    <3> QED BY <3>2, <3>3, <3>4
  <2> QED BY <2>1, <2>2, <2>3, <2>4
<1>2. /\ MayOpen(h, v) /\ pc[h] \in {"closed", "reopen"}
      /\ UNCHANGED <<header, torn, mixed, kept>>
      /\ \A g \in Handles \ {h} : pc'[g] = pc[g]
  BY DEF OpenExisting, OpenNew, Remove, Replace, Free, headerVars, TypeInv, TypeOK
<1>3. ~ torn /\ m = header /\ \A g \in Handles \ {h} : pc'[g] = "closed"
  BY <1>1, <1>2, AloneReads
<1>4. LengthsKept' /\ mixed' = {}
  BY <1>2 DEF LengthsKept, KeptInv
<1>5. DOMAIN m = DOMAIN kept /\ \A u \in DOMAIN m : m[u].len = kept[u]
  BY <1>3 DEF KeptInv, LengthsKept
<1>6. /\ v \notin DOMAIN Without(m, v) /\ DOMAIN Without(m, v) = DOMAIN m \ {v}
      /\ \A u \in DOMAIN m \ {v} : Without(m, v)[u] = m[u]
  BY DEF Without
<1>7. ASSUME NEW k, DOMAIN k \ {v} = DOMAIN m \ {v}, \A u \in DOMAIN m \ {v} : k[u] = m[u],
             NEW r
      PROVE  /\ v \in DOMAIN Put(k, v, r) /\ Put(k, v, r)[v] = r
             /\ DOMAIN Put(k, v, r) \ {v} = DOMAIN m \ {v}
             /\ \A u \in DOMAIN m \ {v} : Put(k, v, r)[u] = m[u]
  BY <1>7 DEF Put
<1>8. KeptHandle(h)'
  <2>1. CASE pc'[h] \in {"opened", "create"}
    <3>1. /\ DOMAIN copy'[h] \ {v} = DOMAIN m \ {v}
          /\ \A u \in DOMAIN m \ {v} : copy'[h][u] = m[u]
      BY <1>1, <1>7, <2>1
    <3> QED BY <1>1, <1>2, <1>5, <2>1, <3>1 DEF KeptHandle, Follows
  <2>2. CASE pc'[h] = "remove"
    <3>1. copy'[h] = Without(m, v)
      BY <1>1, <2>2
    <3> QED BY <1>1, <1>2, <1>5, <1>6, <2>2, <3>1 DEF KeptHandle, Follows
  <2>3. CASE pc'[h] = "replace"
    <3>1. PICK r : copy'[h] = Put(Without(m, v), v, r) /\ r.len = 0
      BY <1>1, <2>3
    <3>2. /\ v \in DOMAIN copy'[h] /\ copy'[h][v].len = 0
          /\ DOMAIN copy'[h] \ {v} = DOMAIN m \ {v}
          /\ \A u \in DOMAIN m \ {v} : copy'[h][u] = m[u]
      BY <1>6, <1>7, <3>1
    <3> QED BY <1>1, <1>2, <1>5, <2>3, <3>2 DEF KeptHandle, Follows
  <2> QED BY <1>1, <2>1, <2>2, <2>3
<1>9. \A g \in Handles \ {h} : KeptHandle(g)'
  BY <1>3 DEF KeptHandle
<1> QED BY <1>4, <1>8, <1>9 DEF KeptInv

\* A handle that sets a length of its own volume still follows the others.
LEMMA KeptResize ==
    ASSUME TypeInv, KeptInv, NEW h \in Handles, InUse(h), NEW n,
           \/ copy' = [copy EXCEPT ![h] = SetLength(copy[h], vol[h], n)]
           \/ copy' = copy,
           pc' = [pc EXCEPT ![h] = "resize"] \/ pc' = [pc EXCEPT ![h] = "open"] \/ pc' = pc,
           UNCHANGED <<header, torn, mixed, kept, vol>>
    PROVE  KeptInv'
<1>1. vol[h] \in DOMAIN copy[h]
  BY DEF TypeInv, HandleInv, InUse, HasRecord
<1>2. /\ DOMAIN copy'[h] \ {vol[h]} = DOMAIN copy[h] \ {vol[h]}
      /\ \A u \in DOMAIN copy[h] \ {vol[h]} : copy'[h][u] = copy[h][u]
  BY <1>1 DEF SetLength, Put, TypeInv, TypeOK
<1>3. InUse(h)'
  BY DEF InUse, TypeInv, TypeOK
<1>4. KeptHandle(h)'
  BY <1>2, <1>3 DEF KeptInv, KeptHandle, Follows, InUse
<1>5. \A g \in Handles \ {h} : pc'[g] = pc[g] /\ copy'[g] = copy[g]
  BY DEF TypeInv, TypeOK
<1>6. \A g \in Handles \ {h} : KeptHandle(g)'
  BY <1>5 DEF KeptInv, KeptHandle, Follows
<1> QED BY <1>4, <1>6 DEF KeptInv, LengthsKept

\* Dropping handles leaves the others as they were.
LEMMA KeptDropped ==
    ASSUME TypeInv, KeptInv, NEW hs \in SUBSET Handles, Dropped(hs),
           UNCHANGED <<header, torn, kept>>, mixed' \subseteq mixed
    PROVE  KeptInv'
<1>1. \A g \in Handles : \/ pc'[g] = "closed"
                         \/ pc'[g] = pc[g] /\ copy'[g] = copy[g] /\ vol'[g] = vol[g]
  BY DEF Dropped
<1>2. \A g \in Handles : KeptHandle(g)'
  BY <1>1 DEF KeptInv, KeptHandle, Follows
<1> QED BY <1>2 DEF KeptInv, LengthsKept

\* persist_manifest by the only handle: the header becomes its copy.
LEMMA KeptPersist ==
    ASSUME usage = "exclusive", TypeInv, AloneInv, KeptInv, NEW h \in Handles,
           BeginPersist(h) \/ EndPersist(h)
    PROVE  KeptInv'
<1>0. pc[h] \in {"create", "resize", "replace", "remove"}
  BY DEF BeginPersist, EndPersist, TypeInv, HandleInv
<1>1. /\ \A g \in Handles \ {h} : pc[g] = "closed"
      /\ writing \subseteq {h}
  BY <1>0 DEF AloneInv, TypeInv, TypeOK, HandleInv
<1>2. CASE BeginPersist(h)
  <2>1. torn' /\ mixed' = mixed /\ UNCHANGED <<pc, vol, copy, kept>>
    BY <1>1, <1>2 DEF BeginPersist, handleVars
  <2> QED BY <2>1 DEF KeptInv, KeptHandle, Follows, LengthsKept
<1>3. CASE EndPersist(h)
  <2>1. header' = copy[h] /\ mixed' = {} /\ Follows(copy[h], vol[h])
    BY <1>0, <1>3 DEF EndPersist, HeaderWritten, KeptInv, KeptHandle
  <2>2. ASSUME pc'[h] \in {"opened", "open"}, vol'[h] = vol[h], copy'[h] = copy[h],
               vol[h] \in DOMAIN copy[h], kept' = Put(kept, vol[h], copy[h][vol[h]].len)
        PROVE  LengthsKept' /\ KeptHandle(h)'
    BY <2>1, <2>2 DEF LengthsKept, KeptHandle, Follows, Put
  <2>3. \A g \in Handles \ {h} : pc'[g] = "closed"
    BY <1>1, <1>3 DEF EndPersist, Dropped, TypeInv, TypeOK
  <2>4. CASE pc[h] \in {"create", "resize"}
    <3>1. vol[h] \in DOMAIN copy[h]
      BY <2>4 DEF TypeInv, HandleInv, HasRecord
    <3>2. /\ pc'[h] \in {"opened", "open"} /\ vol' = vol /\ copy' = copy
          /\ kept' = Put(kept, vol[h], copy[h][vol[h]].len)
      BY <1>3, <2>4 DEF EndPersist, TypeInv, TypeOK
    <3>3. LengthsKept' /\ KeptHandle(h)'
      BY <2>2, <3>1, <3>2
    <3> QED BY <2>1, <2>3, <3>3 DEF KeptInv, KeptHandle
  <2>5. CASE pc[h] = "replace"
    <3>1. vol[h] \in DOMAIN copy[h] /\ copy[h][vol[h]].len = 0
      BY <2>5 DEF KeptInv, KeptHandle
    <3>2. pc'[h] = "reopen" /\ kept' = Put(kept, vol[h], 0)
      BY <1>3, <2>5 DEF EndPersist, TypeInv, TypeOK
    <3>3. LengthsKept'
      BY <2>1, <3>1, <3>2 DEF LengthsKept, Follows, Put
    <3>4. KeptHandle(h)'
      BY <3>2 DEF KeptHandle
    <3> QED BY <2>1, <2>3, <3>3, <3>4 DEF KeptInv, KeptHandle
  <2>6. CASE pc[h] = "remove"
    <3>1. vol[h] \notin DOMAIN copy[h]
      BY <2>6 DEF KeptInv, KeptHandle
    <3>2. pc'[h] = "closed" /\ kept' = [v \in DOMAIN kept \ {vol[h]} |-> kept[v]]
      BY <1>3, <2>6 DEF EndPersist, Dropped
    <3>3. LengthsKept'
      BY <2>1, <3>1, <3>2 DEF LengthsKept, Follows
    <3>4. KeptHandle(h)'
      BY <3>2 DEF KeptHandle
    <3> QED BY <2>1, <2>3, <3>3, <3>4 DEF KeptInv, KeptHandle
  <2> QED BY <1>0, <2>4, <2>5, <2>6
<1> QED BY <1>2, <1>3

LEMMA KeptStep ==
    ASSUME usage = "exclusive", TypeInv, AloneInv, KeptInv, [Next]_vars
    PROVE  KeptInv'
<1>1. ASSUME NEW h \in Handles, CheckLen(h) PROVE KeptInv'
  <2>1. UNCHANGED <<header, torn, mixed, kept>> /\ pc[h] = "opened"
    BY <1>1 DEF CheckLen, headerVars
  <2>2. CASE Dropped({h})
    BY <2>1, <2>2, KeptDropped
  <2>3. CASE ~ Dropped({h})
    <3>1. /\ \/ copy' = [copy EXCEPT ![h] = SetLength(copy[h], vol[h], ExpectedLen(h))]
             \/ copy' = copy
          /\ pc' = [pc EXCEPT ![h] = "resize"] \/ pc' = [pc EXCEPT ![h] = "open"]
          /\ vol' = vol
      BY <1>1, <2>3 DEF CheckLen
    <3> QED BY <2>1, <3>1, KeptResize DEF InUse
  <2> QED BY <2>2, <2>3
<1>2. ASSUME NEW h \in Handles, NEW b \in 0 .. DiskBlocks, NEW size \in 0 .. DiskBlocks,
             Write(h, b, size)
      PROVE  KeptInv'
  <2>1. /\ UNCHANGED <<header, torn, mixed, kept, vol>> /\ pc[h] = "open"
        /\ \/ /\ copy' = [copy EXCEPT ![h] = SetLength(copy[h], vol[h], b + 1)]
              /\ pc' = [pc EXCEPT ![h] = "resize"]
           \/ copy' = copy /\ pc' = pc
    BY <1>2 DEF Write, headerVars
  <2> QED BY <2>1, KeptResize DEF InUse
<1>3. ASSUME NEW h \in Handles, NEW n \in 0 .. DiskBlocks, SetLen(h, n)
      PROVE  KeptInv'
  <2>1. /\ UNCHANGED <<header, torn, mixed, kept, vol>> /\ pc[h] = "open"
        /\ copy' = [copy EXCEPT ![h] = SetLength(copy[h], vol[h], n)]
        /\ pc' = [pc EXCEPT ![h] = "resize"]
    BY <1>3 DEF SetLen, headerVars
  <2> QED BY <2>1, KeptResize DEF InUse
<1>4. ASSUME NEW h \in Handles, OpenRefused(h) \/ Close(h) PROVE KeptInv'
  BY <1>4, KeptDropped DEF OpenRefused, Close, headerVars
<1>5. CASE Crash
  BY <1>5, KeptDropped DEF Crash
<1>6. CASE UNCHANGED vars
  BY <1>6 DEF vars, headerVars, handleVars, KeptInv, KeptHandle, Follows, LengthsKept
<1> QED BY <1>1, <1>2, <1>3, <1>4, <1>5, <1>6, KeptOpen, KeptPersist DEF Next

\* With one handle at a time, whatever it opens, resizes, replaces or removes
\* and wherever it crashes, a header that can be read tells every volume the
\* length its last user was promised.
THEOREM ExclusiveLengthsKeptTheorem == Spec => []ExclusiveLengthsKept
<1> DEFINE Inv == UsageInv /\ AloneInv /\ (usage = "exclusive" => KeptInv)
<1>1. Init => Inv
  <2>1. Init => AloneInv /\ KeptInv
    BY DEF Init, AloneInv, KeptInv, KeptHandle, LengthsKept
  <2> QED BY <2>1, UsageInductive, VolumesAssumption, LayoutAssumption, BoundAssumption
<1>2. Inv /\ [Next]_vars => Inv'
  <2> SUFFICES ASSUME Inv, [Next]_vars PROVE Inv'
    OBVIOUS
  <2>1. UsageInv' /\ AloneInv'
    BY UsageInductive, AloneStep, VolumesAssumption, LayoutAssumption, BoundAssumption
       DEF UsageInv
  <2>2. ASSUME usage' = "exclusive" PROVE KeptInv'
    <3>1. usage = "exclusive"
      BY <2>2, UsageKept
    <3> QED BY <3>1, KeptStep DEF UsageInv
  <2> QED BY <2>1, <2>2
<1>3. Inv => ExclusiveLengthsKept
  BY DEF ExclusiveLengthsKept, KeptInv
<1> QED BY <1>1, <1>2, <1>3, PTL DEF Spec
=============================================================================
