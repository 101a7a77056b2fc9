-------------------------- MODULE AudioCacheLeaseProofs --------------------------
(***************************************************************************)
(* Proof of LeaseSafe of AudioCache: what a playback reads from is never   *)
(* evicted and never freed, for every set of keys, playbacks and workers.  *)
(*                                                                         *)
(* LeaseSafe is not inductive: that an eviction harms no reader needs that *)
(* the asset of a key is cached and of no other key (EntriesAreCached),    *)
(* and that a victim has left the cache and has one worker that frees it   *)
(* (VictimsAreDetached); that close frees what nobody reads needs that no  *)
(* playback outlives its beginning (IdleFiles).  Steps are reduced to what *)
(* they do to assets, victims and leases: nothing (Unmoved), or one of     *)
(* admit, detach, free, lease and give back.                               *)
(***************************************************************************)
EXTENDS AudioCacheProofs, FiniteSetTheorems

\* The playbacks that read from an asset.
Holders(a) == {f \in Files : file[f].lease = a}

\* What is leased is the cached asset of the playback's key.
LeasesAreCached ==
    \A f \in Files : file[f].lease # None =>
        file[f].key \in Keys /\ entry[file[f].key] = file[f].lease

RefsAreLeases == \A a \in Assets : asset[a].refs = Cardinality(Holders(a))

\* The asset of a key is allocated, in the cache, and of no other key.
EntriesAreCached ==
    /\ \A k \in Keys : entry[k] # None => entry[k] \in live /\ asset[entry[k]].cached
    /\ \A j, k \in Keys : entry[j] # None /\ entry[j] = entry[k] => j = k

\* A victim is allocated until its one worker frees it, and out of the cache.
VictimsAreDetached ==
    /\ \A w \in Workers : job[w].victim # None =>
          /\ job[w].pc = "freeing"
          /\ job[w].victim \in live /\ ~asset[job[w].victim].cached
    /\ \A v, w \in Workers : job[v].victim # None /\ job[v].victim = job[w].victim => v = w

\* Memory that is allocated has somebody who will free it.
NoneLeaked ==
    \A a \in live : \/ \E k \in Keys : entry[k] = a
                    \/ \E w \in Workers : job[w].victim = a

\* A playback that is not open yet has no lease, and none is open while the
\* cache closes.
IdleFiles ==
    /\ \A f \in Files : file[f].pc \in {"none", "opened"} => file[f].lease = None
    /\ closing => \A f \in Files : file[f].pc = "none"

LInv ==
    /\ LeasesAreCached /\ RefsAreLeases /\ EntriesAreCached /\ VictimsAreDetached
    /\ NoneLeaked /\ IdleFiles

--------------------------------------------------------------------------------
\* The types these proofs use.
LEMMA LeaseFacts ==
    ASSUME TInv
    PROVE  /\ None \notin Assets /\ None \notin Keys
           /\ entry \in [Keys -> Assets \cup {None}] /\ live \subseteq Assets
           /\ asset \in [Assets -> AssetRecord]
           /\ job \in [Workers -> Job] /\ file \in [Files -> Playback]
           /\ \A a \in Assets : asset[a].refs \in Int
           /\ \A w \in Workers : job[w].victim \in Assets \cup {None}
           /\ \A f \in Files : file[f].lease \in Assets \cup {None}
                               /\ file[f].key \in Keys \cup {None}
<1>1. /\ entry \in [Keys -> Assets \cup {None}] /\ live \subseteq Assets
      /\ asset \in [Assets -> AssetRecord]
      /\ job \in [Workers -> Job] /\ file \in [Files -> Playback]
  BY DEF TInv, TypeOK
<1>2. \A a \in Assets : asset[a].refs \in Int
  BY <1>1, AssetFacts
<1>3. \A w \in Workers : job[w].victim \in Assets \cup {None}
  BY <1>1 DEF Job
<1>4. \A f \in Files : file[f].lease \in Assets \cup {None} /\ file[f].key \in Keys \cup {None}
  BY <1>1 DEF Playback
<1> QED BY <1>1, <1>2, <1>3, <1>4, NoneApart

\* There are finitely many holders, none of them exactly when refs is zero.
LEMMA HoldersAreFinite ==
    ASSUME NEW a
    PROVE  /\ IsFiniteSet(Holders(a)) /\ Cardinality(Holders(a)) \in Nat
           /\ Cardinality(Holders(a)) = 0 <=> Holders(a) = {}
<1>1. IsFiniteSet(Holders(a))
  BY FilesAssumption, FS_Subset DEF Holders, FilesAssumption
<1> QED BY <1>1, FS_CardinalityType, FS_EmptySet

\* Only the cached asset of a key is held.
LEMMA HeldIsCached ==
    ASSUME TInv, LInv, NEW a \in Assets, Holders(a) # {}
    PROVE  a \in live /\ asset[a].cached /\ \E k \in Keys : entry[k] = a
<1>1. PICK f \in Files : file[f].lease = a
  BY DEF Holders
<1> QED BY <1>1, LeaseFacts DEF LInv, LeasesAreCached, EntriesAreCached

\* The invariant says what LeaseSafe says.
LEMMA LInvIsSafe == ASSUME TInv, LInv PROVE LeaseSafe
<1>1. ASSUME NEW f \in Files, file[f].lease # None
      PROVE  file[f].lease \in live /\ entry[file[f].key] = file[f].lease
  BY <1>1 DEF LInv, LeasesAreCached, EntriesAreCached
<1>2. \A a \in Assets : asset[a].refs = Cardinality({f \in Files : file[f].lease = a})
  BY DEF LInv, RefsAreLeases, Holders
<1>3. ASSUME NEW a \in live
      PROVE  \/ \E k \in Keys : entry[k] = a /\ asset[a].cached
             \/ \E w \in Workers : job[w].victim = a /\ ~asset[a].cached
  <2>1. a # None
    BY LeaseFacts
  <2> QED BY <2>1 DEF LInv, NoneLeaked, EntriesAreCached, VictimsAreDetached
<1> QED BY <1>1, <1>2, <1>3 DEF LeaseSafe

\* Nothing is allocated, leased or being freed at first.
LEMMA InitLInv == Init => LInv
<1> SUFFICES ASSUME Init PROVE LInv
  OBVIOUS
<1>1. \A f \in Files : file[f].lease = None /\ file[f].pc = "none"
  BY NoFileFacts DEF Init
<1>2. \A w \in Workers : job[w].victim = None
  BY NoJobFacts DEF Init
<1>3. RefsAreLeases
  <2>1. ASSUME NEW a \in Assets PROVE asset[a].refs = 0 /\ Holders(a) = {}
    BY <1>1, NoneApart DEF Init, NoAsset, Holders
  <2> QED BY <2>1, HoldersAreFinite DEF RefsAreLeases
<1>4. EntriesAreCached /\ NoneLeaked
  BY DEF Init, EntriesAreCached, NoneLeaked
<1> QED BY <1>1, <1>2, <1>3, <1>4 DEF LInv, LeasesAreCached, VictimsAreDetached, IdleFiles

--------------------------------------------------------------------------------
\* Effects

\* No job gets or loses a victim.
VictimsStay ==
    \A w \in Workers :
        /\ job'[w].victim = job[w].victim
        /\ job[w].pc = "freeing" => job'[w].pc = "freeing"

\* No playback gets or loses a lease, or closes under one.
LeasesStay ==
    /\ \A f \in Files :
          /\ file'[f].lease = file[f].lease
          /\ file'[f].lease # None => file'[f].key = file[f].key
          /\ file'[f].pc \in {"none", "opened"} => file'[f].lease = None
    /\ closing' => \A f \in Files : file'[f].pc = "none"

Unmoved == UNCHANGED assets /\ VictimsStay /\ LeasesStay

\* Where no lease moves every asset keeps its holders.
LEMMA HoldersStay == ASSUME LeasesStay, NEW a PROVE Holders(a)' = Holders(a)
BY DEF LeasesStay, Holders

\* A step that moves no asset, victim or lease keeps the invariant.
LEMMA UnmovedKeeps == ASSUME TInv, LInv, Unmoved PROVE LInv'
<1> USE DEF LInv, Unmoved, assets
<1>1. LeasesAreCached'
  BY DEF LeasesAreCached, LeasesStay
<1>2. RefsAreLeases'
  BY HoldersStay DEF RefsAreLeases
<1>3. EntriesAreCached'
  BY DEF EntriesAreCached
<1>4. VictimsAreDetached' /\ NoneLeaked'
  BY DEF VictimsAreDetached, NoneLeaked, VictimsStay
<1>5. IdleFiles'
  BY DEF IdleFiles, LeasesStay
<1> QED BY <1>1, <1>2, <1>3, <1>4, <1>5

\* A new asset of a key that has none: nobody reads it yet.
LEMMA AdmitKeeps ==
    ASSUME TInv, LInv, NEW k \in Keys, NEW bytes, entry[k] = None, Admit(k, bytes),
           VictimsStay, LeasesStay
    PROVE  LInv'
<1>1. PICK a \in Assets \ live :
        /\ live' = live \cup {a}
        /\ asset' = [asset EXCEPT ![a] = [bytes |-> bytes, refs |-> 0, cached |-> TRUE,
                                          lastUsed |-> now]]
        /\ entry' = [entry EXCEPT ![k] = a]
  BY DEF Admit
<1>2. asset'[a].refs = 0 /\ asset'[a].cached /\ \A b \in Assets \ {a} : asset'[b] = asset[b]
  BY <1>1, LeaseFacts
<1>3. a \notin live /\ a # None /\ \A j \in Keys : entry[j] # a
  BY <1>1, LeaseFacts DEF LInv, EntriesAreCached
<1>4. entry'[k] = a /\ \A j \in Keys \ {k} : entry'[j] = entry[j]
  BY <1>1, LeaseFacts
<1>5. LeasesAreCached'
  BY <1>4 DEF LInv, LeasesAreCached, LeasesStay
<1>6. RefsAreLeases'
  <2>1. Holders(a) = {}
    BY <1>1, <1>3, HeldIsCached
  <2> QED BY <1>2, <2>1, HoldersStay, HoldersAreFinite DEF LInv, RefsAreLeases
<1>7. EntriesAreCached'
  <2>1. ASSUME NEW j \in Keys, entry'[j] # None
        PROVE  entry'[j] \in live' /\ asset'[entry'[j]].cached
    <3>1. CASE j = k
      BY <1>1, <1>2, <1>4, <3>1
    <3>2. CASE j # k
      BY <1>1, <1>2, <1>3, <1>4, <2>1, <3>2, LeaseFacts DEF LInv, EntriesAreCached
    <3> QED BY <3>1, <3>2
  <2>2. ASSUME NEW i \in Keys, NEW j \in Keys, entry'[i] # None, entry'[i] = entry'[j]
        PROVE  i = j
    BY <1>3, <1>4, <2>2 DEF LInv, EntriesAreCached
  <2> QED BY <2>1, <2>2 DEF EntriesAreCached
<1>8. VictimsAreDetached'
  BY <1>1, <1>2, LeaseFacts DEF LInv, VictimsAreDetached, VictimsStay
<1>9. NoneLeaked'
  <2>1. ASSUME NEW b \in live'
        PROVE  (\E j \in Keys : entry'[j] = b) \/ \E w \in Workers : job'[w].victim = b
    <3>1. CASE b = a
      BY <1>4, <3>1
    <3>2. CASE b # a
      <4>1. b \in live /\ b # None
        BY <1>1, <3>2, LeaseFacts
      <4> QED BY <1>4, <4>1 DEF LInv, NoneLeaked, VictimsStay
    <3> QED BY <3>1, <3>2
  <2> QED BY <2>1 DEF NoneLeaked
<1>10. IdleFiles'
  BY DEF LInv, IdleFiles, LeasesStay
<1> QED BY <1>5, <1>6, <1>7, <1>8, <1>9, <1>10 DEF LInv

\* An eviction takes an asset that nobody reads out of the cache.
LEMMA DetachKeeps ==
    ASSUME TInv, LInv, NEW w \in Workers, Detach(w) PROVE LInv'
<1>1. PICK k \in Victims :
        /\ entry' = [entry EXCEPT ![k] = None]
        /\ asset' = [asset EXCEPT ![entry[k]].cached = FALSE]
        /\ job' = [job EXCEPT ![w].pc = "freeing", ![w].victim = entry[k]]
  BY DEF Detach
<1> DEFINE a == entry[k]
<1>2. k \in Keys /\ a # None /\ a \in Assets /\ asset[a].refs = 0
  BY LeaseFacts DEF Victims, Evictable
<1>3. UNCHANGED <<live, file, closing>> /\ job[w].pc = "reserve"
  BY DEF Detach, ending
<1>4. a \in live /\ asset[a].cached /\ Holders(a) = {}
  BY <1>2, HoldersAreFinite DEF LInv, EntriesAreCached, RefsAreLeases
<1>5. entry'[k] = None /\ \A j \in Keys \ {k} : entry'[j] = entry[j] /\ entry[j] # a
  BY <1>1, <1>2, LeaseFacts DEF LInv, EntriesAreCached
<1>6. /\ \A b \in Assets : asset'[b].refs = asset[b].refs
      /\ \A b \in Assets \ {a} : asset'[b] = asset[b]
      /\ ~asset'[a].cached
  <2>1. asset[a] \in AssetRecord
    BY <1>2, LeaseFacts
  <2> QED BY <1>1, <1>2, <2>1, LeaseFacts DEF AssetRecord
<1>7. /\ job'[w].victim = a /\ job'[w].pc = "freeing" /\ job[w].victim = None
      /\ \A v \in Workers \ {w} : job'[v] = job[v]
  <2>1. job[w] \in Job
    BY LeaseFacts
  <2> QED BY <1>1, <1>3, <2>1, LeaseFacts DEF Job, LInv, VictimsAreDetached
<1> HIDE DEF a
<1>8. LeasesAreCached'
  <2>1. \A f \in Files : file[f].lease # None => file[f].key # k
    BY <1>4, <1>2 DEF LInv, LeasesAreCached, Holders, a
  <2> QED BY <1>3, <1>5, <2>1 DEF LInv, LeasesAreCached
<1>9. RefsAreLeases'
  <2>1. \A b : Holders(b)' = Holders(b)
    BY <1>3 DEF Holders
  <2> QED BY <1>6, <2>1 DEF LInv, RefsAreLeases
<1>10. EntriesAreCached'
  <2>1. ASSUME NEW j \in Keys, entry'[j] # None
        PROVE  entry'[j] = entry[j] /\ entry[j] # a /\ j # k
    BY <1>5, <2>1
  <2> QED BY <1>3, <1>6, <2>1, LeaseFacts DEF LInv, EntriesAreCached
<1>11. VictimsAreDetached'
  <2>1. ASSUME NEW v \in Workers, v # w, job[v].victim # None
        PROVE  job[v].victim # a /\ job[v].victim \in Assets /\ job[v].victim \in live
               /\ ~asset[job[v].victim].cached /\ job[v].pc = "freeing"
    BY <1>4, <2>1, LeaseFacts DEF LInv, VictimsAreDetached
  <2>2. ASSUME NEW v \in Workers, job'[v].victim # None
        PROVE  /\ job'[v].pc = "freeing"
               /\ job'[v].victim \in live' /\ ~asset'[job'[v].victim].cached
    BY <1>3, <1>4, <1>6, <1>7, <2>1, <2>2
  <2>3. ASSUME NEW u \in Workers, NEW v \in Workers, job'[u].victim # None,
               job'[u].victim = job'[v].victim
        PROVE  u = v
    BY <1>7, <2>1, <2>3 DEF LInv, VictimsAreDetached
  <2> QED BY <2>2, <2>3 DEF VictimsAreDetached
<1>12. NoneLeaked'
  <2>1. ASSUME NEW b \in live
        PROVE  (\E j \in Keys : entry'[j] = b) \/ \E v \in Workers : job'[v].victim = b
    <3>0. b # None
      BY LeaseFacts
    <3>1. CASE \E j \in Keys : entry[j] = b
      <4>1. PICK j \in Keys : entry[j] = b
        BY <3>1
      <4> QED BY <1>5, <1>7, <4>1 DEF a
    <3>2. CASE \E v \in Workers : job[v].victim = b
      BY <1>7, <3>0, <3>2
    <3> QED BY <3>1, <3>2 DEF LInv, NoneLeaked
  <2> QED BY <1>3, <2>1 DEF NoneLeaked
<1>13. IdleFiles'
  BY <1>3 DEF LInv, IdleFiles
<1> QED BY <1>8, <1>9, <1>10, <1>11, <1>12, <1>13 DEF LInv

\* A victim is freed: no key and no playback has it any more.
LEMMA FreeKeeps ==
    ASSUME TInv, LInv, NEW w \in Workers, FreeVictim(w) PROVE LInv'
<1> DEFINE a == job[w].victim
<1>1. /\ live' = live \ {a}
      /\ asset' = [b \in Assets |-> IF b \in {a} THEN NoAsset ELSE asset[b]]
      /\ UNCHANGED <<entry, file, closing>>
  BY DEF FreeVictim, Forget, ending
<1>2. a # None /\ a \in Assets
  BY LeaseFacts DEF FreeVictim, TInv, Shapes, JobShape
<1>3. a \in live /\ ~asset[a].cached
  BY <1>2 DEF LInv, VictimsAreDetached
<1>4. Holders(a) = {} /\ \A k \in Keys : entry[k] # a
  BY <1>2, <1>3, HeldIsCached DEF LInv, EntriesAreCached
<1>5. asset'[a].refs = 0 /\ \A b \in Assets \ {a} : asset'[b] = asset[b]
  BY <1>1, <1>2 DEF NoAsset
<1>6. job'[w].victim = None /\ \A v \in Workers \ {w} : job'[v] = job[v] /\ job[v].victim # a
  <2>1. job[w] \in Job
    BY LeaseFacts
  <2>2. job'[w].victim = None /\ \A v \in Workers \ {w} : job'[v] = job[v]
    BY <2>1, LeaseFacts DEF FreeVictim, Job
  <2> QED BY <1>2, <2>2 DEF LInv, VictimsAreDetached
<1> HIDE DEF a
<1>7. LeasesAreCached'
  BY <1>1 DEF LInv, LeasesAreCached
<1>8. RefsAreLeases'
  <2>1. \A b : Holders(b)' = Holders(b)
    BY <1>1 DEF Holders
  <2> QED BY <1>4, <1>5, <2>1, HoldersAreFinite DEF LInv, RefsAreLeases
<1>9. EntriesAreCached'
  BY <1>1, <1>4, <1>5, LeaseFacts DEF LInv, EntriesAreCached
<1>10. VictimsAreDetached'
  BY <1>1, <1>5, <1>6, LeaseFacts DEF LInv, VictimsAreDetached
<1>11. NoneLeaked'
  BY <1>1, <1>6 DEF LInv, NoneLeaked, a
<1>12. IdleFiles'
  BY <1>1 DEF LInv, IdleFiles
<1> QED BY <1>7, <1>8, <1>9, <1>10, <1>11, <1>12 DEF LInv

\* A playback takes the cached asset of its key.
LEMMA LeaseKeeps ==
    ASSUME TInv, LInv, NEW f \in Files, NEW k \in Keys, NEW r, entry[k] # None,
           Lease(entry[k]), UNCHANGED <<entry, live>>, VictimsStay,
           file' = [file EXCEPT ![f] = r], r.lease = entry[k], r.key = k,
           r.pc \notin {"none", "opened"}, file[f].lease = None, ~closing'
    PROVE  LInv'
<1>1. PICK a \in Assets : a = entry[k]
  BY LeaseFacts
<1>2. /\ asset'[a].refs = asset[a].refs + 1 /\ asset'[a].cached = asset[a].cached
      /\ \A b \in Assets \ {a} : asset'[b] = asset[b]
  <2>1. asset[a] \in AssetRecord
    BY <1>1, LeaseFacts
  <2> QED BY <1>1, <2>1, LeaseFacts DEF Lease, AssetRecord
<1>3. file'[f] = r /\ \A g \in Files \ {f} : file'[g] = file[g]
  BY LeaseFacts
<1>4. LeasesAreCached'
  BY <1>3 DEF LInv, LeasesAreCached
<1>5. RefsAreLeases'
  <2>1. Holders(a)' = Holders(a) \cup {f} /\ f \notin Holders(a)
    BY <1>1, <1>3, LeaseFacts DEF Holders
  <2>2. Cardinality(Holders(a)') = Cardinality(Holders(a)) + 1
    BY <2>1, HoldersAreFinite, FS_AddElement
  <2>3. ASSUME NEW b \in Assets \ {a} PROVE Holders(b)' = Holders(b)
    BY <1>1, <1>3, <2>3, LeaseFacts DEF Holders
  <2> QED BY <1>1, <1>2, <2>2, <2>3 DEF LInv, RefsAreLeases
<1>6. \A b \in Assets : asset'[b].cached = asset[b].cached
  BY <1>2
<1>7. EntriesAreCached'
  BY <1>6, LeaseFacts DEF LInv, EntriesAreCached
<1>8. VictimsAreDetached'
  BY <1>6, LeaseFacts DEF LInv, VictimsAreDetached, VictimsStay
<1>9. NoneLeaked'
  BY DEF LInv, NoneLeaked, VictimsStay
<1>10. IdleFiles'
  BY <1>3 DEF LInv, IdleFiles
<1> QED BY <1>4, <1>5, <1>7, <1>8, <1>9, <1>10 DEF LInv

\* A playback gives its lease back.  The asset is still cached, and stays.
LEMMA UnleaseKeeps ==
    ASSUME TInv, LInv, NEW f \in Files, NEW r, Unlease(file[f].lease), UNCHANGED entry,
           VictimsStay, file' = [file EXCEPT ![f] = r], r.lease = None, ~closing'
    PROVE  LInv'
<1>1. file'[f] = r /\ \A g \in Files \ {f} : file'[g] = file[g]
  BY LeaseFacts
<1>2. CASE file[f].lease = None
  <2>1. UNCHANGED assets
    BY <1>2 DEF Unlease, assets
  <2>2. LeasesStay
    BY <1>1, <1>2 DEF LeasesStay, LInv, IdleFiles
  <2> QED BY <2>1, <2>2, UnmovedKeeps DEF Unmoved
<1>3. CASE file[f].lease # None
  <2>0. PICK a \in Assets : a = file[f].lease
    BY <1>3, LeaseFacts
  <2>1. a \in live /\ asset[a].cached
    BY <1>3, <2>0, LeaseFacts DEF LInv, LeasesAreCached, EntriesAreCached
  <2>2. asset' = [asset EXCEPT ![a].refs = @ - 1] /\ UNCHANGED live
    BY <1>3, <2>0, <2>1 DEF Unlease
  <2>3. /\ asset'[a].refs = asset[a].refs - 1 /\ asset'[a].cached = asset[a].cached
        /\ \A b \in Assets \ {a} : asset'[b] = asset[b]
    <3>1. asset[a] \in AssetRecord
      BY LeaseFacts
    <3> QED BY <2>1, <2>2, <3>1, LeaseFacts DEF AssetRecord
  <2>4. LeasesAreCached'
    BY <1>1 DEF LInv, LeasesAreCached
  <2>5. RefsAreLeases'
    <3>1. Holders(a)' = Holders(a) \ {f} /\ f \in Holders(a)
      BY <1>1, <2>0, LeaseFacts DEF Holders
    <3>2. Cardinality(Holders(a)') = Cardinality(Holders(a)) - 1
      BY <3>1, HoldersAreFinite, FS_RemoveElement
    <3>3. ASSUME NEW b \in Assets \ {a} PROVE Holders(b)' = Holders(b)
      BY <1>1, <2>0, <3>3, LeaseFacts DEF Holders
    <3> QED BY <2>1, <2>3, <3>2, <3>3 DEF LInv, RefsAreLeases
  <2>6. \A b \in Assets : asset'[b].cached = asset[b].cached
    BY <2>3
  <2>7. EntriesAreCached'
    BY <2>2, <2>6, LeaseFacts DEF LInv, EntriesAreCached
  <2>8. VictimsAreDetached'
    BY <2>2, <2>6, LeaseFacts DEF LInv, VictimsAreDetached, VictimsStay
  <2>9. NoneLeaked'
    BY <2>2 DEF LInv, NoneLeaked, VictimsStay
  <2>10. IdleFiles'
    BY <1>1 DEF LInv, IdleFiles
  <2> QED BY <2>4, <2>5, <2>7, <2>8, <2>9, <2>10 DEF LInv
<1> QED BY <1>2, <1>3

\* When the cache has closed nothing is left: nobody read anything, and no
\* worker was freeing anything.
LEMMA CloseKeeps ==
    ASSUME TInv, LInv, CloseEnds PROVE LInv' /\ live' = {}
<1>1. \A w \in Workers : job[w].victim = None
  BY DEF CloseEnds, AllGone, LInv, VictimsAreDetached
<1>2. \A f \in Files : file[f].lease = None /\ file[f].pc = "none"
  BY DEF CloseEnds, LInv, IdleFiles
<1>3. UNCHANGED <<job, file>> /\ \A k \in Keys : entry'[k] = None
  BY DEF CloseEnds, jobs
<1> DEFINE freed == {entry[k] : k \in {j \in Keys : entry[j] # None /\ asset[entry[j]].refs = 0}}
<1>4. \A a \in Assets : Holders(a) = {} /\ Holders(a)' = {} /\ asset[a].refs = 0
  <2>1. \A a \in Assets : Holders(a) = {} /\ Holders(a)' = {}
    BY <1>2, <1>3, LeaseFacts DEF Holders
  <2> QED BY <2>1, HoldersAreFinite DEF LInv, RefsAreLeases
<1>5. live' = live \ freed
      /\ asset' = [a \in Assets |-> IF a \in freed THEN NoAsset ELSE asset[a]]
  BY DEF CloseEnds, Forget
<1>6. live \subseteq freed
  <2>1. ASSUME NEW a \in live PROVE a \in freed
    <3>1. a # None /\ asset[a].refs = 0
      BY <1>4, LeaseFacts
    <3>2. PICK k \in Keys : entry[k] = a
      BY <1>1, <3>1 DEF LInv, NoneLeaked
    <3> QED BY <3>1, <3>2
  <2> QED BY <2>1
<1>7. live' = {}
  BY <1>5, <1>6
<1>8. RefsAreLeases'
  <2>1. \A a \in Assets : asset'[a].refs = 0
    BY <1>4, <1>5 DEF NoAsset
  <2> QED BY <1>4, <2>1, HoldersAreFinite DEF RefsAreLeases
<1>9. LeasesAreCached' /\ EntriesAreCached' /\ VictimsAreDetached' /\ NoneLeaked' /\ IdleFiles'
  BY <1>1, <1>2, <1>3, <1>7
     DEF LeasesAreCached, EntriesAreCached, VictimsAreDetached, NoneLeaked, IdleFiles
<1> QED BY <1>7, <1>8, <1>9 DEF LInv

--------------------------------------------------------------------------------
\* The steps

\* A job that changes but neither takes nor frees a victim.
LEMMA JobMoves ==
    ASSUME TInv, LInv, NEW w \in Workers, job[w].pc # "freeing",
           NEW j, job' = [job EXCEPT ![w] = j], j.victim = job[w].victim
    PROVE  VictimsStay
BY LeaseFacts DEF VictimsStay

\* Where no playback moves no lease does.
LEMMA FilesRest == ASSUME LInv, UNCHANGED <<file, closing>> PROVE LeasesStay
BY DEF LInv, IdleFiles, LeasesStay

\* Of the steps of a worker Detach, FreeVictim and Finish move an asset.
LEMMA WorkerKeepsLInv ==
    ASSUME TInv, Marks, LInv, NEW w \in Workers, WorkerStep(w) PROVE LInv'
<1>0. job[w] \in Job
  BY LeaseFacts
<1>a. UNCHANGED <<file, closing>>
  BY DEF WorkerStep, TakeJob, WorkerExits, NewToken, OpenFails, Opened, LockEviction, Reserve,
         Detach, FreeVictim, Refused, GrowSucceeds, GrowFails, Decoded, DecodeFails, TooSmall,
         Release, Finish, DropToken, ending
<1>b. LeasesStay
  BY <1>a, FilesRest
<1>1. CASE Detach(w)
  BY <1>1, DetachKeeps
<1>2. CASE FreeVictim(w)
  BY <1>2, FreeKeeps
<1>3. CASE Finish(w)
  <2>1. job[w].pc # "freeing" /\ job[w].victim = None
    BY <1>3 DEF Finish, LInv, VictimsAreDetached
  <2>2. job' = [job EXCEPT ![w] = Finished(w)] /\ Finished(w).victim = None
    BY <1>3, NoJobFacts DEF Finish, Finished, Job
  <2>3. VictimsStay
    BY <2>1, <2>2, JobMoves
  <2>4. CASE UNCHANGED assets
    BY <1>b, <2>3, <2>4, UnmovedKeeps DEF Unmoved
  <2>5. CASE entry[job[w].key] = None /\ Admit(job[w].key, job[w].total)
    <3>1. job[w].key \in Keys
      BY <1>3, MarkedKeys DEF Finish, Active
    <3> QED BY <1>b, <2>3, <2>5, <3>1, AdmitKeeps
  <2> QED BY <1>3, <2>4, <2>5 DEF Finish
<1>4. CASE TakeJob(w)
  <2>1. job[w].pc # "freeing" /\ job[w].victim = None /\ UNCHANGED assets
    BY <1>4 DEF TakeJob, LInv, VictimsAreDetached
  <2> DEFINE j == [NoJob EXCEPT !.pc = "token", !.key = Head(queue)]
  <2>2. job' = [job EXCEPT ![w] = j] /\ j.victim = None
    BY <1>4, NoJobFacts DEF TakeJob, Job
  <2> HIDE DEF j
  <2>3. VictimsStay
    BY <2>1, <2>2, JobMoves
  <2> QED BY <1>b, <2>1, <2>3, UnmovedKeeps DEF Unmoved
<1>5. CASE \/ WorkerExits(w) \/ NewToken(w) \/ OpenFails(w) \/ Opened(w) \/ LockEviction(w)
           \/ Reserve(w) \/ Refused(w) \/ GrowSucceeds(w) \/ GrowFails(w) \/ Decoded(w)
           \/ DecodeFails(w) \/ TooSmall(w) \/ Release(w) \/ DropToken(w)
  <2>1. job[w].pc # "freeing" /\ UNCHANGED assets
    BY <1>5 DEF WorkerExits, NewToken, OpenFails, Opened, LockEviction, Reserve, Refused,
       GrowSucceeds, GrowFails, Decoded, DecodeFails, TooSmall, Release, DropToken
  <2>2. \A v \in Workers : job'[v].victim = job[v].victim
    <3>1. CASE WorkerExits(w) \/ NewToken(w) \/ OpenFails(w) \/ Opened(w) \/ LockEviction(w)
      BY <1>0, <3>1, LeaseFacts
         DEF WorkerExits, NewToken, OpenFails, Opened, LockEviction, Step, Job
    <3>2. CASE Reserve(w) \/ Refused(w) \/ GrowSucceeds(w) \/ GrowFails(w)
      BY <1>0, <3>2, LeaseFacts DEF Reserve, Refused, Failed, GrowSucceeds, GrowFails, Job
    <3>3. CASE Decoded(w) \/ DecodeFails(w) \/ Release(w) \/ DropToken(w)
      BY <1>0, <3>3, LeaseFacts DEF Decoded, DecodeFails, Release, DropToken, Step, Job
    <3>4. CASE TooSmall(w)
      BY <1>0, <3>4, LeaseFacts DEF TooSmall, Job
    <3> QED BY <1>5, <3>1, <3>2, <3>3, <3>4
  <2>3. \A v \in Workers \ {w} : job'[v] = job[v]
    <3>1. CASE WorkerExits(w) \/ NewToken(w) \/ OpenFails(w) \/ Opened(w) \/ LockEviction(w)
      BY <3>1, LeaseFacts DEF WorkerExits, NewToken, OpenFails, Opened, LockEviction, Step
    <3>2. CASE Reserve(w) \/ Refused(w) \/ GrowSucceeds(w) \/ GrowFails(w)
      BY <3>2, LeaseFacts DEF Reserve, Refused, Failed, GrowSucceeds, GrowFails
    <3>3. CASE Decoded(w) \/ DecodeFails(w) \/ Release(w) \/ DropToken(w)
      BY <3>3, LeaseFacts DEF Decoded, DecodeFails, Release, DropToken, Step
    <3>4. CASE TooSmall(w)
      BY <3>4, LeaseFacts DEF TooSmall
    <3> QED BY <1>5, <3>1, <3>2, <3>3, <3>4
  <2>4. VictimsStay
    BY <2>1, <2>2, <2>3 DEF VictimsStay
  <2> QED BY <1>b, <2>1, <2>4, UnmovedKeeps DEF Unmoved
<1> QED BY <1>1, <1>2, <1>3, <1>4, <1>5 DEF WorkerStep

\* A playback that changes but neither takes nor gives back a lease.
LEMMA FileMoves ==
    ASSUME TInv, LInv, NEW f \in Files, NEW r, Set(f, r), r.lease = file[f].lease,
           r.lease # None => r.key = file[f].key,
           r.pc \in {"none", "opened"} => r.lease = None, ~closing'
    PROVE  LeasesStay
<1>1. file'[f] = r /\ \A g \in Files \ {f} : file'[g] = file[g]
  BY LeaseFacts DEF Set
<1> QED BY <1>1 DEF LInv, IdleFiles, LeasesStay

\* Of a playback that goes on elsewhere, with another capture, the lease stays.
LEMMA GoesOn ==
    ASSUME TInv, NEW f \in Files, NEW pc, NEW c
    PROVE  LET r == file[f] IN
           /\ [r EXCEPT !.pc = pc].pc = pc /\ [r EXCEPT !.pc = pc].key = r.key
           /\ [r EXCEPT !.pc = pc].lease = r.lease
           /\ [r EXCEPT !.pc = pc, !.capture = c].pc = pc
           /\ [r EXCEPT !.pc = pc, !.capture = c].key = r.key
           /\ [r EXCEPT !.pc = pc, !.capture = c].lease = r.lease
           /\ [r EXCEPT !.capture = c].pc = r.pc /\ [r EXCEPT !.capture = c].key = r.key
           /\ [r EXCEPT !.capture = c].lease = r.lease
<1>1. file[f] \in Playback
  BY LeaseFacts
<1> QED BY <1>1 DEF Playback

\* A step of a playback that is open, and stays open, moves no lease.
LEMMA OpenMoves ==
    ASSUME TInv, LInv, NEW f \in Files, NEW pc, NEW c, ~closing',
           pc \notin {"none", "opened"},
           \/ Set(f, [file[f] EXCEPT !.pc = pc])
           \/ Set(f, [file[f] EXCEPT !.pc = pc, !.capture = c])
           \/ Set(f, [file[f] EXCEPT !.capture = c]) /\ file[f].pc = pc
    PROVE  LeasesStay
<1>1. PICK r : /\ Set(f, r) /\ r.pc = pc
               /\ r.lease = file[f].lease /\ r.key = file[f].key
  <2> DEFINE q == [file[f] EXCEPT !.pc = pc]
             s == [file[f] EXCEPT !.pc = pc, !.capture = c]
             t == [file[f] EXCEPT !.capture = c]
  <2>1. /\ q.pc = pc /\ q.lease = file[f].lease /\ q.key = file[f].key
        /\ s.pc = pc /\ s.lease = file[f].lease /\ s.key = file[f].key
        /\ t.pc = file[f].pc /\ t.lease = file[f].lease /\ t.key = file[f].key
    BY GoesOn
  <2>2. Set(f, q) \/ Set(f, s) \/ (Set(f, t) /\ file[f].pc = pc)
    OBVIOUS
  <2> HIDE DEF q, s, t
  <2> QED BY <2>1, <2>2
<1> QED BY <1>1, FileMoves

\* Giving up a capture moves no lease.
LEMMA AbortMoves ==
    ASSUME TInv, LInv, NEW f \in Files, NEW err, NEW pc, Abort(f, err, pc),
           pc \notin {"none", "opened"}, ~closing'
    PROVE  LeasesStay
BY OpenMoves DEF Abort

\* Of those of a playback Play and Reacquire lease one, Restart and GiveBack give
\* one back, and FinishCapture admits one.
LEMMA FileKeepsLInv ==
    ASSUME TInv, LInv, NEW f \in Files, FileStep(f) PROVE LInv'
<1>0. file[f] \in Playback
  BY LeaseFacts
<1>a. UNCHANGED <<job, closing>>
  BY DEF FileStep, Play, PlayFails, BeginCapture, Capture, CaptureGrows, CaptureShrinks,
         CaptureAborted, FinishCapture, Started, Restart, Reacquire, KeepRaw, Missed,
         CloseFile, GiveBack, jobs, ending
<1>b. VictimsStay
  BY <1>a DEF VictimsStay
<1>c. file[f].pc # "none" => ~closing'
  BY <1>a DEF LInv, IdleFiles
<1>1. ASSUME NEW k \in Keys, Play(f, k) PROVE LInv'
  <2>1. file[f].pc = "none" /\ file[f].lease = None /\ ~closing' /\ UNCHANGED <<entry, live>>
    BY <1>1, <1>a DEF Play, LInv, IdleFiles
  <2> DEFINE new == [NoFile EXCEPT !.key = k, !.lease = entry[k]]
  <2>2. CASE k \in PcmKeys /\ entry[k] # None
    <3> DEFINE r == [new EXCEPT !.pc = "cached"]
    <3>1. r.pc = "cached" /\ r.key = k /\ r.lease = entry[k]
      BY NoFileFacts DEF Playback
    <3>2. Lease(entry[k]) /\ file' = [file EXCEPT ![f] = r]
      BY <1>1, <2>2 DEF Play, Set
    <3> HIDE DEF r
    <3> QED BY <1>b, <2>1, <2>2, <3>1, <3>2, LeaseKeeps
  <2>3. CASE ~(k \in PcmKeys /\ entry[k] # None)
    <3>1. PICK loops \in BOOLEAN :
            Set(f, [new EXCEPT !.pc = IF k \in PcmKeys THEN "opened" ELSE "playing",
                               !.first = TRUE, !.loops = loops])
      BY <1>1, <2>3 DEF Play
    <3> DEFINE r == [new EXCEPT !.pc = IF k \in PcmKeys THEN "opened" ELSE "playing",
                                !.first = TRUE, !.loops = loops]
    <3>2. /\ r.pc = IF k \in PcmKeys THEN "opened" ELSE "playing"
          /\ r.key = k /\ r.lease = entry[k]
      BY NoFileFacts DEF Playback
    <3>3. Set(f, r)
      BY <3>1
    <3> HIDE DEF r
    <3>4. CASE entry[k] # None
      <4>1. Lease(entry[k])
        BY <1>1, <3>4 DEF Play
      <4> QED BY <1>b, <2>1, <2>3, <3>2, <3>3, <3>4, <4>1, LeaseKeeps DEF Set
    <3>5. CASE entry[k] = None
      <4>1. UNCHANGED assets
        BY <1>1, <2>1, <3>5 DEF Play, assets
      <4>2. LeasesStay
        BY <2>1, <3>2, <3>3, <3>5, FileMoves
      <4> QED BY <1>b, <4>1, <4>2, UnmovedKeeps DEF Unmoved
    <3> QED BY <3>4, <3>5
  <2> QED BY <2>2, <2>3
<1>2. CASE PlayFails(f)
  <2>1. LeasesStay /\ UNCHANGED assets
    BY <1>2, <1>c, NoFileFacts, FileMoves DEF PlayFails, LInv, IdleFiles
  <2> QED BY <1>b, <2>1, UnmovedKeeps DEF Unmoved
<1>3. CASE BeginCapture(f)
  <2>1. UNCHANGED assets /\ ~closing'
    BY <1>3, <1>c DEF BeginCapture
  <2>2. PICK pc, c : /\ pc \notin {"none", "opened"}
                      /\ Set(f, [file[f] EXCEPT !.pc = pc, !.capture = c])
    BY <1>3 DEF BeginCapture
  <2>3. LeasesStay
    BY <2>1, <2>2, OpenMoves
  <2> QED BY <1>b, <2>1, <2>3, UnmovedKeeps DEF Unmoved
<1>4. CASE Capture(f)
  <2>1. UNCHANGED assets /\ file[f].pc = "playing" /\ ~closing'
    BY <1>4, <1>c DEF Capture
  <2>2. CASE \E err \in {"none", "tooLarge", "budget"} : Abort(f, err, "playing")
    BY <1>b, <2>1, <2>2, AbortMoves, UnmovedKeeps DEF Unmoved
  <2>3. ASSUME NEW n, NEW m, NEW pc \in {"playing", "growing"},
               \/ Set(f, [file[f] EXCEPT !.capture.count = n])
               \/ Set(f, [file[f] EXCEPT !.pc = pc, !.capture.capacity = m])
        PROVE  LInv'
    <3>1. /\ [file[f] EXCEPT !.capture.count = n] =
                 [file[f] EXCEPT !.capture = [file[f].capture EXCEPT !.count = n]]
          /\ [file[f] EXCEPT !.pc = pc, !.capture.capacity = m] =
                 [file[f] EXCEPT !.pc = pc, !.capture = [file[f].capture EXCEPT !.capacity = m]]
      BY <1>0 DEF Playback
    <3>2. LeasesStay
      BY <2>1, <2>3, <3>1, OpenMoves
    <3> QED BY <1>b, <2>1, <3>2, UnmovedKeeps DEF Unmoved
  <2> QED BY <1>4, <2>2, <2>3 DEF Capture
<1>5. CASE CaptureGrows(f) \/ CaptureShrinks(f)
  <2>1. UNCHANGED assets /\ ~closing'
    BY <1>5, <1>c DEF CaptureGrows, CaptureShrinks
  <2> DEFINE c == file[f].capture
             grown == [c EXCEPT !.count = @ + 1]
             shrunk == [c EXCEPT !.capacity = c.count]
  <2>2. /\ [file[f] EXCEPT !.pc = "playing", !.capture.count = @ + 1] =
               [file[f] EXCEPT !.pc = "playing", !.capture = grown]
        /\ [file[f] EXCEPT !.pc = "aborting", !.capture.capacity = c.count] =
               [file[f] EXCEPT !.pc = "aborting", !.capture = shrunk]
    BY <1>0 DEF Playback
  <2>3. \/ Set(f, [file[f] EXCEPT !.pc = "playing", !.capture = grown])
        \/ Set(f, [file[f] EXCEPT !.pc = "aborting", !.capture = shrunk])
    BY <1>5, <2>2 DEF CaptureGrows, CaptureShrinks
  <2> HIDE DEF grown, shrunk, c
  <2>4. LeasesStay
    <3>1. PICK pc, d : /\ pc \notin {"none", "opened"}
                       /\ Set(f, [file[f] EXCEPT !.pc = pc, !.capture = d])
      <4>1. CASE Set(f, [file[f] EXCEPT !.pc = "playing", !.capture = grown])
        BY <4>1
      <4>2. CASE Set(f, [file[f] EXCEPT !.pc = "aborting", !.capture = shrunk])
        BY <4>2
      <4> QED BY <2>3, <4>1, <4>2
    <3> QED BY <2>1, <3>1, OpenMoves
  <2> QED BY <1>b, <2>1, <2>4, UnmovedKeeps DEF Unmoved
<1>6. CASE CaptureAborted(f)
  <2>1. LeasesStay /\ UNCHANGED assets
    BY <1>6, <1>c, AbortMoves DEF CaptureAborted
  <2> QED BY <1>b, <2>1, UnmovedKeeps DEF Unmoved
<1>7. CASE FinishCapture(f)
  <2>1. file[f].pc = "playing" /\ ~closing' /\ file[f].key \in Keys
    BY <1>7, <1>c DEF FinishCapture, TInv, Shapes, FileShape
  <2>2. LeasesStay
    BY <1>7, <2>1, OpenMoves, AbortMoves DEF FinishCapture
  <2>3. UNCHANGED assets \/ (entry[file[f].key] = None
                               /\ Admit(file[f].key, file[f].capture.count))
    BY <1>7 DEF FinishCapture
  <2> QED BY <1>b, <2>1, <2>2, <2>3, AdmitKeeps, UnmovedKeeps DEF Unmoved
<1>8. CASE Started(f)
  <2>1. UNCHANGED assets /\ ~closing'
    BY <1>8, <1>c DEF Started
  <2>2. PICK r : /\ Set(f, r) /\ r.lease = file[f].lease /\ r.key = file[f].key
                 /\ r.pc = "playing"
    BY <1>0, <1>8 DEF Started, Playback
  <2>3. LeasesStay
    BY <2>1, <2>2, FileMoves
  <2> QED BY <1>b, <2>1, <2>3, UnmovedKeeps DEF Unmoved
<1>9. CASE Restart(f)
  <2>1. file[f].pc = "playing" /\ ~closing' /\ UNCHANGED entry
    BY <1>9, <1>c DEF Restart
  <2>2. CASE file[f].key \in PcmKeys
    <3>1. PICK r : Set(f, r) /\ r.lease = None /\ Unlease(file[f].lease)
      BY <1>0, <1>9, <2>2 DEF Restart, Playback
    <3> QED BY <1>b, <2>1, <3>1, UnleaseKeeps DEF Set
  <2>3. CASE file[f].key \notin PcmKeys
    <3>1. LeasesStay /\ UNCHANGED assets
      BY <1>9, <2>1, <2>3, GoesOn, FileMoves DEF Restart, Goto, assets
    <3> QED BY <1>b, <3>1, UnmovedKeeps DEF Unmoved
  <2> QED BY <2>2, <2>3
<1>10. CASE Reacquire(f)
  <2> DEFINE k == file[f].key
             r == [file[f] EXCEPT !.pc = IF entry[k] # None THEN "playing" ELSE "missed",
                                  !.lease = entry[k]]
  <2>1. /\ file[f].pc = "restarting" /\ file[f].lease = None /\ ~closing' /\ k \in Keys
        /\ UNCHANGED <<entry, live>> /\ Set(f, r)
    BY <1>10, <1>c DEF Reacquire, TInv, Shapes, FileShape
  <2>2. r.lease = entry[k] /\ r.key = k /\ r.pc \in {"playing", "missed"}
    BY <1>0 DEF Playback
  <2>3. CASE entry[k] # None
    <3>1. Lease(entry[k])
      BY <1>10, <2>3 DEF Reacquire
    <3>2. PICK i \in Keys : i = k
      BY <2>1
    <3> HIDE DEF r, k
    <3> QED BY <1>b, <2>1, <2>2, <2>3, <3>1, <3>2, LeaseKeeps DEF Set
  <2>4. CASE entry[k] = None
    <3>1. UNCHANGED assets
      BY <1>10, <2>1, <2>4 DEF Reacquire, assets
    <3> HIDE DEF r
    <3>2. LeasesStay
      BY <2>1, <2>2, <2>4, FileMoves
    <3> QED BY <1>b, <3>1, <3>2, UnmovedKeeps DEF Unmoved
  <2> QED BY <2>3, <2>4
<1>11. CASE KeepRaw(f) \/ Missed(f)
  <2>1. LeasesStay /\ UNCHANGED assets
    BY <1>11, <1>c, GoesOn, FileMoves DEF KeepRaw, Missed, Goto
  <2> QED BY <1>b, <2>1, UnmovedKeeps DEF Unmoved
<1>12. CASE CloseFile(f)
  <2>1. LeasesStay /\ UNCHANGED assets
    BY <1>12, <1>c, GoesOn, FileMoves, AbortMoves DEF CloseFile, Goto
  <2> QED BY <1>b, <2>1, UnmovedKeeps DEF Unmoved
<1>13. CASE GiveBack(f)
  <2>1. ~closing' /\ UNCHANGED entry /\ Unlease(file[f].lease)
        /\ file' = [file EXCEPT ![f] = NoFile]
    BY <1>13, <1>c DEF GiveBack, Set
  <2> QED BY <1>b, <2>1, NoFileFacts, UnleaseKeeps
<1> QED BY <1>1, <1>2, <1>3, <1>4, <1>5, <1>6, <1>7, <1>8, <1>9, <1>10, <1>11, <1>12, <1>13
        DEF FileStep

\* Every step keeps the invariant.
LEMMA NextKeepsLInv == ASSUME TInv, Marks, LInv, [Next]_vars PROVE LInv'
<1>1. CASE \E w \in Workers : WorkerStep(w)
  BY <1>1, WorkerKeepsLInv
<1>2. CASE \E f \in Files : FileStep(f)
  BY <1>2, FileKeepsLInv
<1>3. CASE CloseEnds
  BY <1>3, CloseKeeps
<1>4. CASE Tick \/ CloseBegins \/ UNCHANGED vars
  <2>1. UNCHANGED assets /\ UNCHANGED <<job, file>>
    BY <1>4 DEF Tick, CloseBegins, vars, assets, jobs
  <2>2. closing' => \A f \in Files : file[f].pc = "none"
    BY <1>4 DEF Tick, CloseBegins, vars, ending, LInv, IdleFiles
  <2>3. VictimsStay /\ LeasesStay
    BY <2>1, <2>2 DEF VictimsStay, LeasesStay, LInv, IdleFiles
  <2> QED BY <2>1, <2>3, UnmovedKeeps DEF Unmoved
<1> QED BY <1>1, <1>2, <1>3, <1>4 DEF Next, Done

--------------------------------------------------------------------------------
\* The theorems

\* The inductive invariant of the leases, on top of that of the cache.
THEOREM LeaseInvariant == Spec => [](CInv /\ LInv)
<1>1. Init => LInv
  BY InitLInv
<1>2. CInv /\ LInv /\ [Next]_vars => LInv'
  BY NextKeepsLInv DEF CInv
<1> QED BY <1>1, <1>2, Inductive, PTL DEF Spec

\* What a playback reads from is allocated and cached as long as it reads, its
\* references are exactly its leases, and no asset is leaked: neither eviction
\* nor close frees what is in use (detachOneLocked, release, close).
THEOREM LeasesAreSafe == Spec => []LeaseSafe
<1>1. CInv /\ LInv => LeaseSafe
  BY LInvIsSafe DEF CInv
<1> QED BY <1>1, LeaseInvariant, PTL
================================================================================
