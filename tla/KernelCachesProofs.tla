------------------------- MODULE KernelCachesProofs -------------------------
(***************************************************************************)
(* Proofs about the two components that keep compiled kernels on disk and  *)
(* in memory, AotArtifacts and JitCache; their definitions do not depend   *)
(* on one another.                                                         *)
(*                                                                         *)
(* AotArtifacts: for every set of loaders, also combinations of key and    *)
(* cache that the repository does not have, and any number of builds,      *)
(* edits and clears.  The inductive invariant IInv follows a checksum      *)
(* from the manifest to the kernel: numbers on disk only grow (Grows), a   *)
(* cache never yields less than it was asked for (Cached), what a call or  *)
(* an entry holds fits the process's fingerprint (Holds), the manifest a   *)
(* lookup goes by is recent (Named), and while nobody writes nothing       *)
(* that made the disk InOrder changes (Undisturbed).                       *)
(*                                                                         *)
(* JitCache: for every set of processes, what the lock of FileLock         *)
(* protects as long as nobody calls clear(), also when processes crash and *)
(* when their linkers outlive them (IndInv).                               *)
(***************************************************************************)
EXTENDS AotArtifacts, JitCache, TLAPS

-----------------------------------------------------------------------------
(* AotArtifacts: the inductive invariant.                                  *)


\* The types of the disk, of the call, of the caches and of the history.
ShelfOK ==
    /\ kind \in Loader /\ source \in 0..MaxEdits /\ build \in Build
    /\ builds \in [1..MaxBuilds -> [source: 0..MaxEdits, ours: BOOLEAN]]
    /\ step \in {"idle", "link", "linking", "manifest"}
    /\ lib \in [Libs -> 0..Torn] /\ manifest \in Build
CallOK ==
    /\ pc \in {"idle", "stat", "read", "restat", "check", "hash", "load", "got", "served", "raised"}
    /\ turn \in 1..3 /\ stamp \in Build /\ man \in Build /\ got \in Kernels
CacheOK ==
    /\ known \in [Build -> Build] /\ bound \in [Libs -> [Build -> Build]]
    /\ fp \in 0..NoFp /\ gen \in 0..MaxClears
    /\ entry \in [stamp: Build, gen: 0..(MaxClears + 1), kernels: Kernels]
PastOK == since \in Build /\ good \in BOOLEAN /\ still \in BOOLEAN

\* No manifest or library is of a build not yet begun.
Grows ==
    /\ manifest <= build /\ since <= manifest
    /\ \A l \in Libs : lib[l] = Torn \/ lib[l] <= build
    /\ step # "idle" => build # 0

\* A manifest cached by stat is the one asked for, one cached by path the one in
\* place when it was read; a library cached under a checksum is not older.
Cached ==
    /\ kind.key = "stat" => \A s \in Build : known[s] \in {0, s}
    /\ kind.key = "path" => known[0] \in {0, since}
    /\ \A l \in Libs, b \in Build : bound[l][b] # 0 => bound[l][b] >= b

\* The kernels k are no older than the manifest they were looked up by, and of
\* the sources of the process; with a cache by path that cache is not empty.
Held(k) == \A l \in Libs :
    /\ k[l].lib # 0 => k[l].man # 0 /\ k[l].lib >= since
    /\ k[l].man # 0 => /\ k[l].man <= build /\ builds[k[l].man].source = fp
                       /\ kind.key = "path" => known[0] # 0

\* The call's kernels are such, and those of an entry of this generation.
Holds ==
    /\ Held(got) /\ (pc = "idle" => got = None)
    /\ entry.gen = gen => Held(entry.kernels)
    /\ entry.gen <= gen \/ entry.gen = MaxClears + 1

\* The call goes by a manifest: for a pair, from one lookup to the next.
HasMan == pc \in {"check", "hash", "load"} \/ (pc = "got" /\ kind.keeps = "generation" /\ turn = 1)

\* What is known of the manifest at each step of a lookup, and of the library.
Named ==
    /\ HasMan => /\ man # 0 /\ since <= man /\ man <= build
                 /\ kind.key = "path" => known[0] = man
    /\ pc \in {"read", "restat"} => stamp # 0 /\ since <= stamp /\ stamp <= manifest
    /\ pc = "read" /\ kind.key = "path" => known[0] = 0
    /\ pc = "restat" => stamp <= man /\ man <= manifest /\ kind.key = "stat"
    /\ pc \in {"hash", "load"} => builds[man].ours /\ builds[man].source = fp
    /\ pc = "load" => lib[Lib] = Torn \/ lib[Lib] >= man
    /\ pc = "load" /\ still => lib[Lib] = man

\* While nobody writes, the reasons to refuse that were absent stay absent.
Undisturbed == good /\ still =>
    /\ pc \notin {"idle", "raised"} /\ step = "idle" /\ manifest # 0
    /\ builds[manifest].ours => \A l \in Libs : lib[l] = manifest
    /\ kind.strict => builds[manifest].ours
    /\ builds[manifest].source = IF fp = NoFp THEN source ELSE fp
    /\ kind.key = "path" => since \in {0, manifest}
    /\ HasMan \/ pc = "restat" => man = manifest
    /\ pc \in {"read", "restat"} => stamp = manifest
Idle == pc = "idle" => ~good

TypesOK == ShelfOK /\ CallOK /\ CacheOK /\ PastOK
IInv == TypesOK /\ Grows /\ Cached /\ Holds /\ Named /\ Undisturbed /\ Idle

LEMMA Bounds == MaxBuilds \in Nat /\ MaxEdits \in Nat /\ MaxClears \in Nat
  BY BoundsAssumption

\* What needs no state: None holds nothing, NoEntry is of no generation.
LEMMA Constants ==
    /\ None \in Kernels
    /\ \A l \in Libs : None[l].man = 0 /\ None[l].lib = 0
    /\ NoEntry \in [stamp: Build, gen: 0..(MaxClears + 1), kernels: Kernels]
    /\ NoEntry.gen = MaxClears + 1
    /\ Lib \in Libs /\ Target \in Libs
  BY Bounds DEF None, Kernels, Build, Libs, NoEntry, Lib, Target

LEMMA Initially == ASSUME Init PROVE IInv
<1>1. ShelfOK
  BY Bounds, KindsAssumption DEF Init, ShelfOK, Build, Torn
<1>2. CallOK
  BY Bounds, Constants DEF Init, CallOK, Build
<1>3. CacheOK
  BY Bounds, Constants DEF Init, CacheOK, Build, NoFp
<1>4. PastOK
  <2>1. since \in Build
    BY Bounds DEF Init, Build
  <2>2. good \in BOOLEAN /\ still \in BOOLEAN
    BY Zenon DEF Init
  <2> QED BY <2>1, <2>2 DEF PastOK
<1>5. Grows
  BY Bounds DEF Init, Grows
<1>6. Cached
  BY Bounds DEF Init, Cached, Build
<1>7. Holds
  BY Bounds, Constants DEF Init, Holds, Held
<1>8. Named /\ Undisturbed /\ Idle
  BY DEF Init, Named, Undisturbed, Idle, HasMan
<1> QED BY <1>1, <1>2, <1>3, <1>4, <1>5, <1>6, <1>7, <1>8 DEF IInv, TypesOK

\* Whoever writes to the disk leaves a call's state alone, and ends the call's peace.
LEMMA WritingKeeps ==
  ASSUME IInv, ShelfOK', Disturb, kind' = kind, build <= build', manifest <= manifest',
         manifest' <= build', \A b \in 1..build : builds'[b] = builds[b],
         \A l \in Libs : lib'[l] = lib[l] \/ lib'[l] = Torn \/ (lib'[l] = build /\ build = build'),
         step' # "idle" => build' # 0
  PROVE  IInv'
<1>1. CallOK' /\ CacheOK' /\ PastOK'
  BY DEF IInv, TypesOK, CallOK, CacheOK, PastOK, Disturb, call, cache
<1>2. Grows'
  <2>1. ASSUME NEW l \in Libs PROVE lib'[l] = Torn \/ lib'[l] <= build'
    <3>1. build \in Nat /\ build' \in Nat /\ lib[l] \in Nat
      BY Bounds DEF IInv, TypesOK, ShelfOK, Build, Torn
    <3>2. lib[l] = Torn \/ lib[l] <= build
      BY DEF IInv, TypesOK, Grows
    <3>3. lib'[l] = lib[l] \/ lib'[l] = Torn \/ (lib'[l] = build /\ build = build')
      OBVIOUS
    <3> QED BY <3>1, <3>2, <3>3
  <2>2. since' <= manifest'
    BY Bounds DEF IInv, TypesOK, Grows, ShelfOK, PastOK, Disturb, Build
  <2> QED BY <2>1, <2>2 DEF Grows
<1>3. Cached'
  BY DEF IInv, TypesOK, Cached, Disturb, cache
<1>4. \A k \in Kernels : Held(k) => Held(k)'
  <2>1. since' = since /\ fp' = fp /\ known' = known /\ kind' = kind /\ build <= build'
    BY DEF Disturb, cache
  <2>2. build \in Nat /\ build' \in Nat
    BY Bounds DEF IInv, TypesOK, ShelfOK, Build
  <2> SUFFICES ASSUME NEW k \in Kernels, Held(k), NEW l \in Libs, k[l].man # 0
               PROVE  k[l].man <= build' /\ builds'[k[l].man].source = fp
    BY <2>1 DEF Held
  <2> DEFINE m == k[l].man
  <2>3. m \in Nat /\ m # 0 /\ m <= build /\ builds[m].source = fp
    BY Bounds DEF Held, Kernels, Build
  <2> HIDE DEF m
  <2>4. m \in 1..build /\ m <= build'
    BY <2>1, <2>2, <2>3
  <2>5. builds'[m] = builds[m]
    BY <2>4
  <2> QED BY <2>3, <2>4, <2>5 DEF m
<1>5. Holds'
  BY <1>4 DEF IInv, TypesOK, Holds, Disturb, call, cache, CallOK, CacheOK
<1>6. Named'
  <2>1. HasMan' = HasMan /\ Lib' = Lib
    BY DEF Disturb, call, HasMan, Lib
  <2>2. man \in 1..build => builds'[man] = builds[man]
    OBVIOUS
  <2>3. HasMan => /\ man' # 0 /\ since' <= man' /\ man' <= build'
                  /\ kind'.key = "path" => known'[0] = man'
    BY Bounds DEF IInv, TypesOK, Named, ShelfOK, CallOK, Disturb, call, cache, Build
  <2>4. /\ pc \in {"read", "restat"} => stamp' # 0 /\ since' <= stamp' /\ stamp' <= manifest'
        /\ pc = "restat" => stamp' <= man' /\ man' <= manifest' /\ kind'.key = "stat"
    BY Bounds DEF IInv, TypesOK, Named, ShelfOK, CallOK, Disturb, call, cache, Build
  <2>5. pc \in {"hash", "load"} => builds'[man'] = builds[man]
    BY <2>2, Bounds DEF IInv, TypesOK, Named, HasMan, CallOK, ShelfOK, Disturb, call, Build
  <2>6. pc = "load" => lib'[Lib] = Torn \/ lib'[Lib] >= man'
    BY Bounds, Constants DEF IInv, TypesOK, Named, HasMan, ShelfOK, CallOK, Disturb, call, Build
  <2>7. pc' = pc /\ still' = FALSE /\ fp' = fp /\ known' = known
    BY DEF Disturb, call, cache
  <2> QED
    BY <2>1, <2>3, <2>4, <2>5, <2>6, <2>7 DEF IInv, TypesOK, Named
<1>7. Undisturbed' /\ Idle'
  BY DEF IInv, TypesOK, Undisturbed, Idle, Disturb, call
<1> QED BY <1>1, <1>2, <1>3, <1>5, <1>6, <1>7 DEF IInv, TypesOK

LEMMA EditKeeps == ASSUME IInv, Edit PROVE IInv'
<1>1. ShelfOK'
  BY Bounds DEF IInv, TypesOK, ShelfOK, Edit
<1> QED BY <1>1, WritingKeeps DEF IInv, TypesOK, Grows, ShelfOK, Edit, Build

LEMMA StartKeeps == ASSUME IInv, NEW ours \in BOOLEAN, StartBuild(ours) PROVE IInv'
<1>1. build' \in 1..MaxBuilds /\ build' = build + 1
  BY Bounds DEF IInv, TypesOK, ShelfOK, StartBuild, Build
<1>2. [source |-> source, ours |-> ours] \in [source: 0..MaxEdits, ours: BOOLEAN]
  BY DEF IInv, TypesOK, ShelfOK
<1>3. ShelfOK'
  BY <1>1, <1>2, Bounds DEF IInv, TypesOK, ShelfOK, StartBuild, Build
<1>4. \A b \in 1..build : builds'[b] = builds[b]
  BY <1>1, Bounds DEF IInv, TypesOK, ShelfOK, StartBuild, Build
<1>5. manifest' <= build' /\ build <= build' /\ manifest <= manifest'
  BY <1>1, Bounds DEF IInv, TypesOK, ShelfOK, Grows, StartBuild, Build
<1>6. build' # 0
  BY <1>1
<1> QED BY <1>3, <1>4, <1>5, <1>6, WritingKeeps DEF StartBuild

LEMMA LinkKeeps == ASSUME IInv, BeginLink \/ EndLink PROVE IInv'
<1>1. ShelfOK'
  <2>1. ShelfOK /\ build \in 0..Torn /\ Torn \in 0..Torn
    BY Bounds DEF IInv, TypesOK, ShelfOK, Build, Torn
  <2>2. lib' \in [Libs -> 0..Torn]
    BY <2>1, Constants DEF ShelfOK, BeginLink, EndLink
  <2>3. step' \in {"idle", "link", "linking", "manifest"}
    BY DEF BeginLink, EndLink
  <2> QED BY <2>1, <2>2, <2>3 DEF ShelfOK, BeginLink, EndLink
<1>2. \A l \in Libs : lib'[l] = lib[l] \/ lib'[l] = Torn \/ (lib'[l] = build /\ build = build')
  BY Constants DEF IInv, TypesOK, ShelfOK, BeginLink, EndLink
<1>3. manifest <= manifest' /\ build <= build' /\ manifest' <= build' /\ build' # 0
  BY DEF IInv, TypesOK, Grows, ShelfOK, BeginLink, EndLink, Build
<1> QED BY <1>1, <1>2, <1>3, WritingKeeps DEF BeginLink, EndLink

LEMMA WriteKeeps == ASSUME IInv, WriteManifest \/ BuilderDies PROVE IInv'
<1>1. ShelfOK'
  BY DEF IInv, TypesOK, ShelfOK, WriteManifest, BuilderDies
<1>2. manifest <= manifest' /\ build <= build' /\ manifest' <= build' /\ step' = "idle"
  BY DEF IInv, TypesOK, Grows, ShelfOK, WriteManifest, BuilderDies, Build
<1> QED BY <1>1, <1>2, WritingKeeps DEF WriteManifest, BuilderDies

-----------------------------------------------------------------------------

\* Only a fresh manifest, a clear or another fingerprint ends what Held says.
LEMMA HeldStays ==
  ASSUME IInv, UNCHANGED shelf, since' = since, fp' = fp \/ fp = NoFp,
         known[0] # 0 => known'[0] # 0
  PROVE  \A k \in Kernels : Held(k) => Held(k)'
<1> SUFFICES ASSUME NEW k \in Kernels, Held(k), NEW l \in Libs
             PROVE  /\ k[l].lib # 0 => k[l].man # 0 /\ k[l].lib >= since'
                    /\ k[l].man # 0 => /\ k[l].man <= build' /\ builds'[k[l].man].source = fp'
                                       /\ kind'.key = "path" => known'[0] # 0
  BY DEF Held
<1>1. k[l].lib # 0 => k[l].man # 0 /\ k[l].lib >= since
  BY DEF Held
<1>2. k[l].man # 0 => /\ k[l].man <= build /\ builds[k[l].man].source = fp
                      /\ kind.key = "path" => known[0] # 0
  BY DEF Held
<1>3. k[l].man # 0 => fp # NoFp
  <2> SUFFICES ASSUME k[l].man # 0 PROVE fp # NoFp
    OBVIOUS
  <2>1. k[l].man \in 1..MaxBuilds
    BY Bounds DEF Kernels, Build
  <2>2. builds[k[l].man].source \in 0..MaxEdits
    BY <2>1 DEF IInv, TypesOK, ShelfOK
  <2> QED BY <1>2, <2>2, Bounds DEF NoFp
<1> QED BY <1>1, <1>2, <1>3 DEF shelf

\* A lookup that ends without a kernel.
LEMMA Refused ==
  ASSUME IInv, UNCHANGED <<shelf, known, bound, gen, entry, past>>, stamp' \in Build, man' \in Build,
         fp' = fp \/ (fp = NoFp /\ fp' = source), Raise \/ Miss,
         pc' = "raised" => ~(good /\ still)
  PROVE  IInv'
<1>1. pc' \in {"raised", "got"} /\ ~HasMan'
  BY DEF Raise, Miss, HasMan, Last, shelf
<1>2. ShelfOK' /\ PastOK' /\ Grows' /\ Idle'
  BY <1>1 DEF IInv, TypesOK, ShelfOK, PastOK, Grows, Idle, shelf, past
<1>3. CacheOK'
  BY Bounds DEF IInv, TypesOK, ShelfOK, CacheOK, NoFp
<1>4. Cached'
  BY DEF IInv, TypesOK, Cached, shelf, past
<1>5. CallOK' /\ (Held(got) => Held(got)')
  <2>1. CASE got' = got /\ turn' = turn
    BY <1>1, <2>1, HeldStays DEF IInv, TypesOK, CallOK, past
  <2>2. CASE turn' \in 1..3 /\ got' = None
    BY <1>1, <2>2, Constants DEF IInv, TypesOK, CallOK, Held
  <2>3. CASE turn' = turn /\ got' = [got EXCEPT ![Lib] = [man |-> 0, lib |-> 0]]
    <3>1. [man |-> 0, lib |-> 0] \in [man: Build, lib: Build]
      BY Bounds DEF Build
    <3>2. got' \in Kernels
      BY <2>3, <3>1, Constants DEF IInv, TypesOK, CallOK, Kernels
    <3>3. \A l \in Libs : got'[l] = got[l] \/ (got'[l].man = 0 /\ got'[l].lib = 0)
      BY <2>3, Constants DEF IInv, TypesOK, CallOK, Kernels
    <3>4. Held(got) => Held(got')
      BY <3>3 DEF Held
    <3>5. Held(got) => Held(got)'
      BY <3>2, <3>4, HeldStays DEF past
    <3> QED BY <1>1, <2>3, <3>2, <3>5 DEF IInv, TypesOK, CallOK
  <2> QED BY <2>1, <2>2, <2>3 DEF Raise, Miss, Last
<1>6. Holds'
  BY <1>1, <1>5, HeldStays DEF IInv, TypesOK, Holds, CacheOK, past
<1>7. Named'
  BY <1>1 DEF Named, HasMan
<1>8. Undisturbed'
  BY <1>1, Bounds DEF IInv, TypesOK, Undisturbed, shelf, past, ShelfOK, NoFp
<1> QED BY <1>2, <1>3, <1>4, <1>5, <1>6, <1>7, <1>8 DEF IInv, TypesOK

\* A lookup that ends with a kernel at least as new as the manifest that named it.
LEMMA Obtained ==
  ASSUME IInv, UNCHANGED <<shelf, stamp, man, known, gen, entry, past>>, CacheOK', Cached',
         fp' = fp \/ (fp = NoFp /\ fp' = source), pc \in {"check", "hash", "load"},
         NEW b \in Build, Obtain(b), b >= man, builds[man].source = fp'
  PROVE  IInv'
<1>1. pc' = "got" /\ HasMan
  BY DEF Obtain, HasMan
<1>2. ShelfOK' /\ PastOK' /\ Grows' /\ Idle'
  BY <1>1 DEF IInv, TypesOK, ShelfOK, PastOK, Grows, Idle, shelf, past
<1>3. /\ man \in Build /\ man # 0 /\ since \in Build /\ since <= man /\ man <= build
      /\ kind.key = "path" => known[0] = man
  BY <1>1 DEF IInv, TypesOK, Named, CallOK, PastOK
<1>4. CallOK'
  BY <1>1, <1>3, Constants DEF IInv, TypesOK, CallOK, Obtain, Kernels
<1>5. Held(got)'
  <2> SUFFICES ASSUME NEW l \in Libs
               PROVE /\ got'[l].lib # 0 => got'[l].man # 0 /\ got'[l].lib >= since'
                     /\ got'[l].man # 0 => /\ got'[l].man <= build' /\ builds'[got'[l].man].source = fp'
                                           /\ kind'.key = "path" => known'[0] # 0
    BY DEF Held
  <2>1. CASE l = Lib
    <3>1. got'[l] = [man |-> man, lib |-> b]
      BY <2>1 DEF Obtain, IInv, TypesOK, CallOK, Kernels
    <3>2. b >= since
      BY <1>3, Bounds DEF Build
    <3> QED BY <1>3, <3>1, <3>2 DEF shelf, past
  <2>2. CASE l # Lib
    <3>1. got'[l] = got[l]
      BY <2>2 DEF Obtain, IInv, TypesOK, CallOK, Kernels
    <3>2. got \in Kernels /\ Held(got)
      BY DEF IInv, TypesOK, CallOK, Holds
    <3>3. \A k \in Kernels : Held(k) =>
             /\ k[l].lib # 0 => k[l].man # 0 /\ k[l].lib >= since'
             /\ k[l].man # 0 => /\ k[l].man <= build' /\ builds'[k[l].man].source = fp'
                                /\ kind'.key = "path" => known'[0] # 0
      BY HeldStays DEF past, Held
    <3>4. /\ got[l].lib # 0 => got[l].man # 0 /\ got[l].lib >= since'
          /\ got[l].man # 0 => /\ got[l].man <= build' /\ builds'[got[l].man].source = fp'
                               /\ kind'.key = "path" => known'[0] # 0
      BY <3>2, <3>3
    <3> QED BY <3>1, <3>4
  <2> QED BY <2>1, <2>2
<1>6. Holds'
  BY <1>1, <1>5, HeldStays DEF IInv, TypesOK, Holds, CacheOK, past
<1>7. Named'
  BY <1>1, <1>3 DEF Named, HasMan, shelf, past
<1>8. Undisturbed'
  <2>1. builds[manifest].source = (IF fp = NoFp THEN source ELSE fp)
        => builds[manifest].source = IF fp' = NoFp THEN source ELSE fp'
    <3>1. source # NoFp
      BY Bounds DEF IInv, TypesOK, ShelfOK, NoFp
    <3> QED BY <3>1
  <2> QED BY <1>1, <2>1 DEF IInv, TypesOK, Undisturbed, shelf, past
<1> QED BY <1>2, <1>4, <1>5, <1>6, <1>7, <1>8 DEF IInv, TypesOK

-----------------------------------------------------------------------------

LEMMA CallKeeps == ASSUME IInv, Call PROVE IInv'
<1>1. pc = "idle" /\ got = None /\ ~good /\ UNCHANGED <<shelf, turn, stamp, man, known, bound, fp, gen>>
  BY DEF IInv, TypesOK, Holds, Idle, Call
<1>2. ShelfOK'
  BY <1>1 DEF IInv, TypesOK, ShelfOK, shelf
<1>3. CASE Valid /\ pc' = "served" /\ got' = entry.kernels /\ UNCHANGED <<entry, past>>
  <2>1. Held(entry.kernels) /\ entry.kernels \in Kernels
    BY <1>3 DEF Valid, IInv, TypesOK, Holds, CacheOK
  <2>2. Held(got)'
    BY <1>1, <1>3, <2>1, HeldStays DEF past
  <2>3. Holds'
    BY <1>1, <1>3, <2>2, HeldStays DEF IInv, TypesOK, Holds, CacheOK, past
  <2>4. CallOK' /\ CacheOK' /\ PastOK'
    BY <1>1, <1>3, <2>1 DEF IInv, TypesOK, CallOK, CacheOK, PastOK, past
  <2>5. Grows' /\ Cached' /\ Idle'
    BY <1>1, <1>3 DEF IInv, TypesOK, Grows, Cached, Idle, shelf, past
  <2>6. Named' /\ Undisturbed'
    BY <1>1, <1>3 DEF Named, HasMan, Undisturbed, past
  <2> QED BY <1>2, <2>3, <2>4, <2>5, <2>6 DEF IInv, TypesOK
<1>4. CASE /\ pc' = "stat" /\ entry' = NoEntry /\ good' = InOrder /\ still' = TRUE
           /\ since' = IF kind.key = "stat" THEN manifest ELSE since
           /\ UNCHANGED got
  <2>1. CallOK' /\ CacheOK'
    BY <1>1, <1>4, Constants DEF IInv, TypesOK, CallOK, CacheOK
  <2>2. PastOK'
    <3>1. since' \in Build
      BY <1>4 DEF IInv, TypesOK, PastOK, ShelfOK
    <3>2. good' \in BOOLEAN /\ still' \in BOOLEAN
      BY <1>4, Zenon DEF InOrder
    <3> QED BY <3>1, <3>2 DEF PastOK
  <2>3. Grows'
    BY <1>1, <1>4 DEF IInv, TypesOK, Grows, ShelfOK, Build, shelf
  <2>4. Cached'
    BY <1>1, <1>4 DEF IInv, TypesOK, Cached, shelf, ShelfOK, Loader
  <2>5. Holds'
    BY <1>1, <1>4, Constants, Bounds DEF IInv, TypesOK, Holds, Held, CacheOK
  <2>6. Named' /\ Idle'
    BY <1>4 DEF Named, HasMan, Idle
  <2>7. Undisturbed'
    BY <1>1, <1>4 DEF Undisturbed, InOrder, HasMan, shelf
  <2> QED BY <1>2, <2>1, <2>2, <2>3, <2>4, <2>5, <2>6, <2>7 DEF IInv, TypesOK
<1> QED BY <1>3, <1>4 DEF Call

LEMMA ReturnKeeps == ASSUME IInv, Return PROVE IInv'
<1>1. ShelfOK' /\ CacheOK' /\ Grows' /\ Cached'
  BY DEF IInv, TypesOK, ShelfOK, CacheOK, Grows, Cached, Return, shelf, cache
<1>5. CallOK'
  BY Constants, Bounds DEF CallOK, Return, Build
<1>2. PastOK'
  BY Zenon DEF IInv, TypesOK, PastOK, Return
<1>3. Holds'
  BY Constants, HeldStays DEF IInv, TypesOK, Holds, Held, CacheOK, Return, cache
<1>4. Named' /\ Undisturbed' /\ Idle'
  BY DEF Return, Named, HasMan, Undisturbed, Idle
<1> QED BY <1>1, <1>2, <1>3, <1>4, <1>5 DEF IInv, TypesOK

LEMMA StatKeeps == ASSUME IInv, Stat PROVE IInv'
<1>1. pc = "stat" /\ UNCHANGED <<shelf, cache, past>>
  BY DEF Stat
<1>2. CASE manifest = 0 /\ Miss /\ UNCHANGED <<stamp, man>>
  <2>1. ~(good /\ still)
    BY <1>2 DEF IInv, TypesOK, Undisturbed
  <2> QED BY <1>1, <1>2, <2>1, Refused DEF IInv, TypesOK, CallOK, cache
<1>3. CASE /\ manifest # 0 /\ stamp' = manifest /\ UNCHANGED <<turn, got>>
           /\ \/ known[Key(manifest)] # 0 /\ man' = known[Key(manifest)] /\ pc' = "check"
              \/ known[Key(manifest)] = 0 /\ pc' = "read" /\ UNCHANGED man
  <2>1. Key(manifest) \in Build /\ manifest \in Build
    BY Bounds DEF Key, IInv, TypesOK, ShelfOK, Build
  <2>2. ShelfOK' /\ CacheOK' /\ PastOK' /\ Grows' /\ Cached' /\ Idle'
    BY <1>1, <1>3 DEF IInv, TypesOK, ShelfOK, CacheOK, PastOK, Grows, Cached, Idle, shelf, cache, past
  <2>3. CallOK'
    BY <1>3, <2>1 DEF IInv, TypesOK, CallOK, CacheOK
  <2>4. Holds'
    BY <1>1, <1>3, HeldStays DEF IInv, TypesOK, Holds, CallOK, CacheOK, cache, past
  <2>5. kind.key \in {"stat", "path"}
    BY DEF IInv, TypesOK, ShelfOK, Loader
  <2>6. pc' = "check" => /\ man' \in Build /\ man' # 0 /\ since <= man' /\ man' <= manifest /\ manifest <= build
                         /\ kind.key = "stat" => man' = manifest
                         /\ kind.key = "path" => man' = known[0] /\ known[0] = since
    BY <1>3, <2>1, <2>3, <2>5, Bounds DEF IInv, TypesOK, Cached, Grows, Key, PastOK, ShelfOK, CallOK, Build
  <2>7. Named'
    BY <1>1, <1>3, <2>1, <2>5, <2>6, Bounds DEF IInv, TypesOK, Named, HasMan, Grows, Key, ShelfOK, Build, shelf, cache, past
  <2>8. Undisturbed'
    BY <1>1, <1>3, <2>5, <2>6 DEF IInv, TypesOK, Undisturbed, HasMan, shelf, cache, past
  <2> QED BY <2>2, <2>3, <2>4, <2>7, <2>8 DEF IInv, TypesOK
<1> QED BY <1>2, <1>3 DEF Stat

LEMMA ReadKeeps == ASSUME IInv, Read PROVE IInv'
<1>1. /\ pc = "read" /\ man' = manifest
      /\ UNCHANGED <<shelf, turn, stamp, got, bound, fp, gen, entry, good, still>>
  BY DEF Read
<1>2. ShelfOK' /\ Idle'
  BY <1>1 DEF IInv, TypesOK, ShelfOK, Idle, shelf, Read
<1>3. CallOK'
  BY <1>1 DEF IInv, TypesOK, CallOK, ShelfOK, Read
<1>4. /\ manifest \in Nat /\ manifest # 0 /\ build \in Nat /\ stamp \in Nat /\ since \in Nat
      /\ manifest <= build /\ since <= manifest /\ stamp # 0 /\ since <= stamp /\ stamp <= manifest
  BY <1>1, Bounds DEF IInv, TypesOK, Grows, Named, CallOK, ShelfOK, PastOK, Build
<1>5. CASE kind.key = "stat" /\ pc' = "restat" /\ UNCHANGED <<known, since>>
  <2>1. CacheOK' /\ PastOK' /\ Grows' /\ Cached'
    BY <1>1, <1>5 DEF IInv, TypesOK, CacheOK, PastOK, Grows, Cached, shelf
  <2>2. Holds'
    BY <1>1, <1>5, HeldStays DEF IInv, TypesOK, Holds, CallOK, CacheOK
  <2>3. Named'
    BY <1>1, <1>4, <1>5 DEF Named, HasMan, shelf
  <2>4. Undisturbed'
    BY <1>1, <1>5 DEF IInv, TypesOK, Undisturbed, HasMan, shelf
  <2> QED BY <1>2, <1>3, <2>1, <2>2, <2>3, <2>4 DEF IInv, TypesOK
<1>6. CASE /\ kind.key = "path" /\ pc' = "check"
           /\ known' = [known EXCEPT ![Key(stamp)] = manifest] /\ since' = manifest
  <2>1. /\ known \in [Build -> Build] /\ 0 \in Build /\ manifest \in Build /\ Key(stamp) = 0
        /\ known[0] = 0 /\ known' \in [Build -> Build] /\ known'[0] = manifest
    <3>1. known \in [Build -> Build] /\ 0 \in Build /\ manifest \in Build
      BY Bounds DEF IInv, TypesOK, CacheOK, ShelfOK, Build
    <3>2. Key(stamp) = 0 /\ known[0] = 0
      BY <1>1, <1>6 DEF IInv, TypesOK, Named, Key
    <3> QED BY <1>6, <3>1, <3>2
  <2>2. CacheOK' /\ PastOK'
    BY <1>1, <1>6, <2>1 DEF IInv, TypesOK, CacheOK, PastOK
  <2>3. Grows' /\ Cached'
    BY <1>1, <1>4, <1>6, <2>1 DEF IInv, TypesOK, Grows, Cached, shelf
  <2>4. \A k \in Kernels : Held(k) => Held(k)'
    BY <1>6, <2>1 DEF Held
  <2>5. Holds'
    BY <1>1, <1>6, <2>4 DEF IInv, TypesOK, Holds, CallOK, CacheOK
  <2>6. Named'
    BY <1>1, <1>4, <1>6, <2>1 DEF Named, HasMan, shelf
  <2>7. Undisturbed'
    BY <1>1, <1>6 DEF IInv, TypesOK, Undisturbed, HasMan, shelf
  <2> QED BY <1>2, <1>3, <2>2, <2>3, <2>5, <2>6, <2>7 DEF IInv, TypesOK
<1> QED BY <1>5, <1>6, <1>1 DEF Read

LEMMA RestatKeeps == ASSUME IInv, Restat PROVE IInv'
<1>1. pc = "restat" /\ UNCHANGED <<shelf, stamp, man, bound, fp, gen, entry, past>>
  BY DEF Restat
<1>2. /\ manifest \in Nat /\ stamp \in Nat /\ man \in Nat /\ since \in Nat /\ build \in Nat
      /\ stamp # 0 /\ since <= stamp /\ stamp <= man /\ man <= manifest /\ manifest <= build
      /\ kind.key = "stat"
  BY <1>1, Bounds DEF IInv, TypesOK, Grows, Named, CallOK, ShelfOK, PastOK, Build
<1>3. CASE manifest # stamp /\ Raise /\ UNCHANGED known
  <2>1. ~(good /\ still)
    BY <1>1, <1>3 DEF IInv, TypesOK, Undisturbed
  <2> QED BY <1>1, <1>3, <2>1, Refused DEF IInv, TypesOK, CallOK
<1>4. CASE /\ manifest = stamp /\ pc' = "check"
           /\ known' = [known EXCEPT ![Key(stamp)] = man] /\ UNCHANGED <<turn, got>>
  <2>1. /\ man = stamp /\ Key(stamp) = stamp /\ stamp \in Build /\ kind.key # "path"
        /\ known' = [known EXCEPT ![stamp] = stamp]
    <3>1. man = stamp
      BY <1>2, <1>4
    <3>2. Key(stamp) = stamp /\ kind.key # "path"
      BY <1>2 DEF Key
    <3> QED BY <1>4, <3>1, <3>2 DEF IInv, TypesOK, CallOK
  <2>2. ShelfOK' /\ CallOK' /\ CacheOK' /\ PastOK' /\ Grows' /\ Idle'
    BY <1>1, <1>4, <2>1 DEF IInv, TypesOK, ShelfOK, CallOK, CacheOK, PastOK, Grows, Idle, shelf, past
  <2>3. Cached'
    BY <1>1, <2>1 DEF IInv, TypesOK, Cached, CacheOK, shelf, past
  <2>4. \A k \in Kernels : Held(k) => Held(k)'
    BY <1>1, <2>1 DEF Held, shelf, past
  <2>5. Holds'
    BY <1>1, <1>4, <2>4 DEF IInv, TypesOK, Holds, CallOK, CacheOK
  <2>6. Named'
    BY <1>1, <1>2, <1>4, <2>1 DEF Named, HasMan, shelf, past
  <2>7. Undisturbed'
    BY <1>1, <1>4 DEF IInv, TypesOK, Undisturbed, HasMan, shelf, past
  <2> QED BY <2>2, <2>3, <2>5, <2>6, <2>7 DEF IInv, TypesOK
<1> QED BY <1>3, <1>4 DEF Restat

LEMMA CheckKeeps == ASSUME IInv, Check PROVE IInv'
<1>1. pc = "check" /\ UNCHANGED <<shelf, stamp, man, known, bound, gen, entry, past>>
  BY DEF Check
<1>2. fp' = fp \/ (fp = NoFp /\ fp' = source)
  BY DEF Check
<1>3. stamp' \in Build /\ man' \in Build /\ man \in Build
  BY <1>1 DEF IInv, TypesOK, CallOK
<1>4. CacheOK' /\ Cached'
  BY <1>1, <1>2, Bounds DEF IInv, TypesOK, ShelfOK, CacheOK, Cached, NoFp, shelf, past
<1>5. good /\ still =>
        /\ man = manifest /\ builds[man].source = fp' /\ lib \in [Libs -> 0..Torn]
        /\ builds[man].ours => lib[Lib] = man /\ man # 0 /\ man # Torn
        /\ kind.strict => builds[man].ours
  <2>1. builds[manifest].source = (IF fp = NoFp THEN source ELSE fp) => builds[manifest].source = fp'
    BY DEF Check
  <2> QED BY <1>1, <2>1, Constants, Bounds DEF IInv, TypesOK, Undisturbed, HasMan, ShelfOK, Build, Torn
<1>6. CASE Raise \/ Miss
  <2>1. pc' = "raised" => ~(good /\ still)
    BY <1>1, <1>5, <1>6 DEF Check, Miss, Raise, Obtain
  <2> QED BY <1>1, <1>2, <1>3, <1>6, <2>1, Refused
<1>7. CASE builds[man].source = fp' /\ bound[Lib][man] # 0 /\ Obtain(bound[Lib][man])
  <2>1. bound[Lib][man] \in Build /\ bound[Lib][man] >= man
    BY <1>3, <1>7, Constants DEF IInv, TypesOK, CacheOK, Cached
  <2> QED BY <1>1, <1>2, <1>4, <1>7, <2>1, Obtained
<1>8. CASE builds[man].source = fp' /\ builds[man].ours /\ pc' = "hash" /\ UNCHANGED <<turn, got>>
  <2>1. ShelfOK' /\ CallOK' /\ PastOK' /\ Grows' /\ Idle'
    BY <1>1, <1>8 DEF IInv, TypesOK, ShelfOK, CallOK, PastOK, Grows, Idle, shelf, past
  <2>2. Holds'
    BY <1>1, <1>2, <1>8, HeldStays DEF IInv, TypesOK, Holds, CallOK, CacheOK, past
  <2>3. Named'
    BY <1>1, <1>8 DEF IInv, TypesOK, Named, HasMan, shelf, past
  <2>4. Undisturbed'
    <3>1. source # NoFp
      BY Bounds DEF IInv, TypesOK, ShelfOK, NoFp
    <3> QED BY <1>1, <1>2, <1>8, <3>1 DEF IInv, TypesOK, Undisturbed, HasMan, shelf, past
  <2> QED BY <1>4, <2>1, <2>2, <2>3, <2>4 DEF IInv, TypesOK
<1> QED BY <1>6, <1>7, <1>8 DEF Check

LEMMA HashKeeps == ASSUME IInv, Hash PROVE IInv'
<1>1. pc = "hash" /\ UNCHANGED <<shelf, stamp, man, cache, past>>
  BY DEF Hash
<1>2. CASE lib[Lib] # man /\ Raise
  <2>1. ~(good /\ still)
    <3> SUFFICES ASSUME good, still PROVE FALSE
      OBVIOUS
    <3>1. man = manifest /\ ~builds[manifest].ours
      BY <1>1, <1>2, Constants DEF IInv, TypesOK, Undisturbed, HasMan
    <3> QED BY <1>1, <3>1 DEF IInv, TypesOK, Named
  <2> QED BY <1>1, <1>2, <2>1, Refused DEF IInv, TypesOK, CallOK, cache
<1>3. CASE lib[Lib] = man /\ pc' = "load" /\ UNCHANGED <<turn, got>>
  <2>1. ShelfOK' /\ CallOK' /\ CacheOK' /\ PastOK' /\ Grows' /\ Cached' /\ Idle'
    BY <1>1, <1>3 DEF IInv, TypesOK, ShelfOK, CallOK, CacheOK, PastOK, Grows, Cached, Idle, shelf, cache, past
  <2>2. Holds'
    BY <1>1, <1>3, HeldStays DEF IInv, TypesOK, Holds, CallOK, CacheOK, cache, past
  <2>3. Lib' = Lib /\ man \in Nat
    BY <1>3, Bounds DEF Lib, IInv, TypesOK, CallOK, Build
  <2>4. Named'
    BY <1>1, <1>3, <2>3 DEF IInv, TypesOK, Named, HasMan, shelf, cache, past
  <2>5. Undisturbed'
    BY <1>1, <1>3 DEF IInv, TypesOK, Undisturbed, HasMan, shelf, cache, past
  <2> QED BY <2>1, <2>2, <2>4, <2>5 DEF IInv, TypesOK
<1> QED BY <1>2, <1>3 DEF Hash

LEMMA LoadKeeps == ASSUME IInv, Load PROVE IInv'
<1>1. pc = "load" /\ UNCHANGED <<shelf, stamp, man, known, fp, gen, entry, past>>
  BY DEF Load
<1>2. man \in Build /\ Lib \in Libs /\ man \in 0..MaxBuilds /\ Torn = MaxBuilds + 1
  BY Constants DEF IInv, TypesOK, CallOK, Build, Torn
<1>3. CASE lib[Lib] = Torn /\ Raise /\ UNCHANGED bound
  <2>1. ~(good /\ still)
    BY <1>1, <1>2, <1>3, Bounds DEF IInv, TypesOK, Named
  <2> QED BY <1>1, <1>3, <2>1, Refused DEF IInv, TypesOK, CallOK
<1>4. CASE lib[Lib] # Torn /\ Obtain(lib[Lib]) /\ bound' = [bound EXCEPT ![Lib][man] = lib[Lib]]
  <2>1. lib[Lib] \in Build /\ lib[Lib] >= man
    <3>1. lib[Lib] \in 0..Torn
      BY <1>2 DEF IInv, TypesOK, ShelfOK
    <3> QED BY <1>1, <1>2, <1>4, <3>1, Bounds DEF IInv, TypesOK, Named, Build
  <2>2. CacheOK'
    BY <1>1, <1>2, <1>4, <2>1 DEF IInv, TypesOK, CacheOK
  <2>3. \A l \in Libs, b \in Build : bound'[l][b] = bound[l][b] \/ (b = man /\ bound'[l][b] = lib[Lib])
    BY <1>2, <1>4 DEF IInv, TypesOK, CacheOK
  <2>4. Cached'
    BY <1>1, <2>1, <2>3 DEF IInv, TypesOK, Cached, shelf, past
  <2>5. builds[man].source = fp'
    BY <1>1 DEF IInv, TypesOK, Named
  <2> QED BY <1>1, <1>4, <2>1, <2>2, <2>4, <2>5, Obtained
<1> QED BY <1>3, <1>4 DEF Load

LEMMA NextTurnKeeps == ASSUME IInv, NextTurn PROVE IInv'
<1>1. /\ pc = "got" /\ UNCHANGED <<shelf, stamp, man, got, cache, past>>
      /\ pc' = IF kind.keeps = "generation" THEN "check" ELSE "stat"
  BY DEF NextTurn
<1>2. turn \in 1..3 /\ turn' = turn + 1 /\ turn < Last /\ Last \in {2, 3}
      /\ (kind.keeps = "generation" => Last = 2)
  BY DEF NextTurn, Last, IInv, TypesOK, CallOK
<1>3. HasMan' => HasMan
  BY <1>1, <1>2 DEF HasMan, shelf
<1>4. ShelfOK' /\ CallOK' /\ CacheOK' /\ PastOK' /\ Grows' /\ Cached' /\ Idle'
  BY <1>1, <1>2 DEF IInv, TypesOK, ShelfOK, CallOK, CacheOK, PastOK, Grows, Cached, Idle, shelf, cache, past
<1>5. Holds'
  BY <1>1, HeldStays DEF IInv, TypesOK, Holds, CallOK, CacheOK, cache, past
<1>6. Named'
  BY <1>1, <1>3 DEF IInv, TypesOK, Named, shelf, cache, past
<1>7. Undisturbed'
  BY <1>1, <1>3 DEF IInv, TypesOK, Undisturbed, shelf, cache, past
<1> QED BY <1>4, <1>5, <1>6, <1>7 DEF IInv, TypesOK

LEMMA FinishKeeps == ASSUME IInv, Finish PROVE IInv'
<1>1. pc = "got" /\ pc' = "served" /\ UNCHANGED <<shelf, turn, stamp, man, got, known, bound, fp, gen, past>>
  BY DEF Finish
<1>2. entry' = entry \/ (entry'.gen = gen /\ entry'.kernels = got
                         /\ entry' \in [stamp: Build, gen: 0..(MaxClears + 1), kernels: Kernels])
  BY Bounds DEF Finish, IInv, TypesOK, ShelfOK, CallOK, CacheOK, Build
<1>3. ShelfOK' /\ CallOK' /\ PastOK' /\ Grows' /\ Cached' /\ Idle'
  BY <1>1 DEF IInv, TypesOK, ShelfOK, CallOK, PastOK, Grows, Cached, Idle, shelf, past
<1>4. CacheOK'
  BY <1>1, <1>2 DEF IInv, TypesOK, CacheOK
<1>5. \A k \in Kernels : Held(k) => Held(k)'
  BY <1>1, HeldStays DEF past
<1>6. Holds'
  <2>1. Held(got)'
    BY <1>1, <1>5 DEF IInv, TypesOK, Holds, CallOK
  <2>2. CASE entry' = entry
    BY <1>1, <1>5, <2>1, <2>2 DEF IInv, TypesOK, Holds, CacheOK
  <2>3. CASE entry'.gen = gen /\ entry'.kernels = got
    BY <1>1, <2>1, <2>3, Bounds DEF Holds, IInv, TypesOK, CacheOK, CallOK
  <2> QED BY <1>2, <2>2, <2>3
<1>7. Named' /\ Undisturbed'
  BY <1>1 DEF IInv, TypesOK, Named, Undisturbed, HasMan, shelf, past
<1> QED BY <1>3, <1>4, <1>6, <1>7 DEF IInv, TypesOK

LEMMA ClearKeeps == ASSUME IInv, Clear PROVE IInv'
<1>1. /\ pc = "idle" /\ gen < MaxClears /\ gen' = gen + 1 /\ fp' = NoFp
      /\ known' = [s \in Build |-> 0] /\ bound' = [l \in Libs |-> [b \in Build |-> 0]]
      /\ since' \in {since, manifest} /\ UNCHANGED <<shelf, call, entry, good, still>>
  BY DEF Clear, Forget
<1>2. ShelfOK' /\ CallOK' /\ Idle' /\ ~good
  BY <1>1 DEF IInv, TypesOK, ShelfOK, CallOK, Idle, shelf, call
<1>3. CacheOK'
  BY <1>1, Bounds DEF IInv, TypesOK, CacheOK, Build, NoFp
<1>4. PastOK' /\ Grows'
  BY <1>1, Bounds DEF IInv, TypesOK, PastOK, ShelfOK, Grows, Build, shelf
<1>5. Cached'
  BY <1>1, Bounds DEF Cached, Build
<1>6. Holds'
  BY <1>1, Constants, Bounds DEF IInv, TypesOK, Holds, Held, CacheOK, call
<1>7. Named' /\ Undisturbed'
  BY <1>1, <1>2 DEF Named, HasMan, Undisturbed, call
<1> QED BY <1>2, <1>3, <1>4, <1>5, <1>6, <1>7 DEF IInv, TypesOK

-----------------------------------------------------------------------------

LEMMA StepKeeps == ASSUME IInv, [Next]_vars PROVE IInv'
<1>1. CASE UNCHANGED vars
  BY <1>1 DEF vars, shelf, call, cache, past, IInv, TypesOK, ShelfOK, CallOK, CacheOK, PastOK, Grows, Cached,
              Held, Holds, HasMan, Named, Lib, Undisturbed, Idle
<1>2. CASE Next
  BY <1>2, EditKeeps, StartKeeps, LinkKeeps, WriteKeeps, CallKeeps, ReturnKeeps, StatKeeps,
     ReadKeeps, RestatKeeps, CheckKeeps, HashKeeps, LoadKeeps, NextTurnKeeps, FinishKeeps, ClearKeeps
     DEF Next, Builder, Loading
<1> QED BY <1>1, <1>2

\* IInv is an invariant: a process that serves calls never confuses two builds,
\* whatever builders, edits, crashes and clears do between its steps.
THEOREM Caching == Spec => []IInv
<1> QED BY Initially, StepKeeps, PTL DEF Spec

\* NeverOlder holds: no call runs a kernel of a build older than the manifest that
\* was in place when it last had to look.
THEOREM KernelsAreRecent == Spec => []NeverOlder
<1>1. IInv => NeverOlder
  BY DEF IInv, TypesOK, Holds, Held, NeverOlder
<1> QED BY <1>1, Caching, PTL

\* FingerprintHolds holds: what is served, from an entry or from a lookup, comes
\* from the sources whose fingerprint the process has.
THEOREM KernelsFitTheSources == Spec => []FingerprintHolds
<1>1. IInv => FingerprintHolds
  BY DEF IInv, TypesOK, Holds, Held, FingerprintHolds
<1> QED BY <1>1, Caching, PTL

\* ErrorsAreReal holds: a call that begins with the disk in order, and during which
\* nobody writes, does not raise, whatever the caches were left with before.
THEOREM RefusalsHaveReasons == Spec => []ErrorsAreReal
<1>1. IInv => ErrorsAreReal
  BY DEF IInv, TypesOK, Undisturbed, ErrorsAreReal
<1> QED BY <1>1, Caching, PTL

\* LoadsWhatIsNamed holds: without a writer a library is cached only under the
\* checksum it has, because nothing changes between the hash and the load.
THEOREM LoadedAsNamed == Spec => LoadsWhatIsNamed
<1> DEFINE Ok == still => \A l \in Libs, b \in Build : bound'[l][b] \in {bound[l][b], b, 0}
<1>1. ASSUME IInv, Load PROVE Ok
  <2>1. pc = "load" /\ man \in Build /\ bound \in [Libs -> [Build -> Build]] /\ Lib \in Libs
    BY <1>1, Constants DEF Load, IInv, TypesOK, CallOK, CacheOK
  <2>2. still => lib[Lib] = man
    BY <1>1, <2>1 DEF IInv, TypesOK, Named
  <2> QED BY <1>1, <2>1, <2>2 DEF Load
<1>2. ASSUME IInv, Clear PROVE Ok
  BY <1>2 DEF Clear, Forget
<1>3. ASSUME IInv, UNCHANGED bound PROVE Ok
  BY <1>3
<1>4. ASSUME Next PROVE Load \/ Clear \/ UNCHANGED bound
  BY <1>4 DEF Next, Builder, Loading, Edit, StartBuild, BeginLink, EndLink, WriteManifest, BuilderDies,
     Disturb, Call, Return, Stat, Read, Restat, Check, Hash, NextTurn, Finish, cache
<1>5. ASSUME IInv, [Next]_vars PROVE [Ok]_vars
  BY <1>1, <1>2, <1>3, <1>4, <1>5 DEF vars, cache
<1> QED BY <1>5, Caching, PTL DEF Spec, LoadsWhatIsNamed

-----------------------------------------------------------------------------
(* JitCache: the inductive invariant.                                      *)

\* Where a process has no lock file open.
NoFile == {"idle", "open", "compile", "run", "clear"}

\* What a process holds follows from where it is.
Holding ==
    \A p \in Procs :
        /\ fd[p] = 0 <=> at[p] \in NoFile
        /\ flock[p] = "none" <=> at[p] \in NoFile \cup {"try", "sleep"}
        /\ at[p] = "locked" => flock[p] = want[p]
        /\ at[p] = "load" => flock[p] = "shared"
        /\ Writing(p) => flock[p] = "exclusive"

\* The open lock files are one inode, and so its exclusive lock excludes.
OneLock ==
    /\ \A p \in Procs : at[p] # "clear"
    /\ \A p \in Procs : fd[p] \in {0, path}
    /\ \A p, q \in Procs : p # q /\ flock[p] = "exclusive" => flock[q] = "none"

\* A library being linked has its linker: a process's, or, if one was left behind,
\* one without a process; and a torn one had a linker that was killed.
Linkers ==
    /\ \A p \in Procs : so = p => at[p] = "linking"
    /\ so = "orphan" \/ orphans.starting > 0 \/ orphans.linking > 0 => "left" \in lost
    /\ so = "torn" => "killed" \in lost

\* A library that was found stays in place while it is loaded.
Found == \A p \in Procs : at[p] = "load" => so # "none"

\* Unless a linker was left behind only the lock's holder makes a library appear.
OneWriter ==
    /\ \A p \in Procs : at[p] \in {"export", "link"} => so = "none"
    /\ \A p \in Procs : at[p] = "linking" => so = p

IndInv ==
    /\ TypeOK /\ Holding /\ Linkers
    /\ clears = 0 => OneLock /\ Found
    /\ clears = 0 /\ "left" \notin lost => OneWriter
-----------------------------------------------------------------------------
(* One lemma for each part, with a step for each action.                   *)

\* Every step keeps the state well-typed.
LEMMA TypeStep ==
    ASSUME TypeOK, Holding, [CacheNext]_cacheVars
    PROVE  TypeOK'
  <1> USE BoundAssumption DEF TypeOK, NoFile, linkers
  <1>1. ASSUME NEW p \in Procs, Open(p) PROVE TypeOK'
    BY <1>1 DEF Open, Goto
  <1>2. ASSUME NEW p \in Procs, Try(p) PROVE TypeOK'
    <2>1. CASE Granted(p)
      <3>1. flock' = [flock EXCEPT ![p] = want[p]] /\ at' = [at EXCEPT ![p] = "locked"]
        BY <1>2, <2>1 DEF Try, Goto
      <3>2. at[p] = "try" /\ UNCHANGED <<mem, want, fd, so, obj, path, inodes, doomed, clears, orphans, lost>>
        BY <1>2 DEF Try, disk
      <3>3. flock' \in [Procs -> {"none", "shared", "exclusive"}]
        BY <3>1
      <3>4. fd[p] # 0
        BY <3>2 DEF Holding
      <3> QED BY <3>1, <3>2, <3>3, <3>4
    <2>2. CASE ~Granted(p)
      BY <1>2, <2>2 DEF Try, Goto, disk
    <2> QED BY <2>1, <2>2
  <1>3. ASSUME NEW p \in Procs, Retry(p) PROVE TypeOK'
    BY <1>3 DEF Retry, Goto, disk
  <1>4. ASSUME NEW p \in Procs, Lookup(p) PROVE TypeOK'
    BY <1>4 DEF Lookup, Release, Goto, disk
  <1>5. ASSUME NEW p \in Procs, LoadModule(p) PROVE TypeOK'
    <2>1. mem' \in [Procs -> BOOLEAN]
      BY <1>5, Zenon DEF LoadModule
    <2>2. at' \in {[at EXCEPT ![p] = "run"], [at EXCEPT ![p] = "idle"]}
      BY <1>5, Zenon DEF LoadModule, Goto
    <2>3. /\ fd' = [fd EXCEPT ![p] = 0] /\ flock' = [flock EXCEPT ![p] = "none"]
          /\ UNCHANGED <<want, so, obj, path, inodes, doomed, clears, orphans, lost>>
      BY <1>5, Zenon DEF LoadModule, Release, disk
    <2> QED BY <2>1, <2>2, <2>3
  <1>6. ASSUME NEW p \in Procs, Compile(p) PROVE TypeOK'
    BY <1>6 DEF Compile, Lock, Goto, disk
  <1>7. ASSUME NEW p \in Procs, Recheck(p) PROVE TypeOK'
    BY <1>7 DEF Recheck, Release, Goto, disk
  <1>8. ASSUME NEW p \in Procs, Export(p) PROVE TypeOK'
    BY <1>8 DEF Export, Goto
  <1>9. ASSUME NEW p \in Procs, LinkBegins(p) PROVE TypeOK'
    BY <1>9 DEF LinkBegins, Release, Goto
  <1>10. ASSUME NEW p \in Procs, LinkEnds(p) PROVE TypeOK'
    BY <1>10 DEF LinkEnds, Goto
  <1>11. ASSUME NEW p \in Procs, RemoveObj(p) PROVE TypeOK'
    <2>1. at' \in {[at EXCEPT ![p] = "run"], [at EXCEPT ![p] = "idle"]}
      BY <1>11, Zenon DEF RemoveObj, Goto
    <2>2. /\ fd' = [fd EXCEPT ![p] = 0] /\ flock' = [flock EXCEPT ![p] = "none"]
          /\ UNCHANGED <<mem, want, so, path, inodes, doomed, clears, orphans, lost>>
      BY <1>11, Zenon DEF RemoveObj, Release
    <2>3. obj' \in BOOLEAN
      BY <1>11, Zenon DEF RemoveObj
    <2> QED BY <2>1, <2>2, <2>3
  <1>12. ASSUME NEW p \in Procs, Run(p) PROVE TypeOK'
    BY <1>12 DEF Run, Goto, disk
  <1>13. ASSUME NEW p \in Procs, EndClear(p) PROVE TypeOK'
    BY <1>13 DEF EndClear, Goto, disk
  <1>14. ASSUME NEW p \in Procs, Ask(p) PROVE TypeOK'
    BY <1>14 DEF Ask, Lock, Goto, disk
  <1>15. ASSUME NEW p \in Procs, Timeout(p) PROVE TypeOK'
    BY <1>15 DEF Timeout, Release, Goto, disk
  <1>16. ASSUME NEW p \in Procs, BeginClear(p) PROVE TypeOK'
    <2>1. Present \in SUBSET Files
      BY DEF Present
    <2>2. doomed' \in [Procs -> SUBSET Files]
      BY <1>16, <2>1 DEF BeginClear
    <2>3. clears' \in 0..MaxClearCalls
      BY <1>16 DEF BeginClear
    <2>4. mem' \in [Procs -> BOOLEAN]
      BY <1>16 DEF BeginClear
    <2> QED BY <1>16, <2>2, <2>3, <2>4 DEF BeginClear, Goto, disk
  <1>17. ASSUME NEW p \in Procs, Crash(p) PROVE TypeOK'
    BY <1>17 DEF Crash, Dies, Release, Goto
  <1>18. ASSUME NEW p \in Procs, CrashLeavesLinker(p) PROVE TypeOK'
    BY <1>18 DEF CrashLeavesLinker, Dies, Release, Goto
  <1>19. ASSUME OrphanBegins PROVE TypeOK'
    BY <1>19 DEF OrphanBegins
  <1>20. ASSUME OrphanEnds PROVE TypeOK'
    BY <1>20 DEF OrphanEnds
  <1>21. ASSUME NEW p \in Procs, NEW f \in Files, UnlinkDoomed(p, f) PROVE TypeOK'
    <2>1. doomed' \in [Procs -> SUBSET Files]
      BY <1>21 DEF UnlinkDoomed
    <2>2. obj' \in BOOLEAN
      BY <1>21, Zenon DEF UnlinkDoomed
    <2>3. path' \in 0..inodes /\ so' \in Procs \cup {"none", "whole", "torn", "orphan"}
      BY <1>21 DEF UnlinkDoomed
    <2>4. at' \in [Procs -> {"idle", "open", "try", "sleep", "locked", "load", "compile",
                            "export", "link", "linking", "unlink", "run", "clear"}]
      BY <1>21 DEF UnlinkDoomed, Goto
    <2>5. UNCHANGED <<mem, want, fd, flock, inodes, clears, orphans, lost>>
      BY <1>21 DEF UnlinkDoomed
    <2> QED BY <2>1, <2>2, <2>3, <2>4, <2>5
  <1>22. CASE UNCHANGED cacheVars
    BY <1>22 DEF cacheVars
  <1> QED BY <1>1, <1>2, <1>3, <1>4, <1>5, <1>6, <1>7, <1>8, <1>9, <1>10, <1>11, <1>12, <1>13, <1>14, <1>15, <1>16, <1>17, <1>18, <1>19, <1>20, <1>21, <1>22
         DEF CacheNext, CacheStep

\* Every step keeps what a process holds in line with where it is.
LEMMA HoldingStep ==
    ASSUME TypeOK, Holding, [CacheNext]_cacheVars
    PROVE  Holding'
  <1> USE DEF TypeOK, Holding, Writing, NoFile, linkers
  <1>1. ASSUME NEW p \in Procs, Open(p) PROVE Holding'
    BY <1>1 DEF Open, Goto
  <1>2. ASSUME NEW p \in Procs, Try(p) PROVE Holding'
    BY <1>2 DEF Try, Goto, disk
  <1>3. ASSUME NEW p \in Procs, Retry(p) PROVE Holding'
    BY <1>3 DEF Retry, Goto, disk
  <1>4. ASSUME NEW p \in Procs, Lookup(p) PROVE Holding'
    BY <1>4 DEF Lookup, Release, Goto, disk
  <1>5. ASSUME NEW p \in Procs, LoadModule(p) PROVE Holding'
    BY <1>5 DEF LoadModule, Release, Goto, disk
  <1>6. ASSUME NEW p \in Procs, Compile(p) PROVE Holding'
    BY <1>6 DEF Compile, Lock, Goto, disk
  <1>7. ASSUME NEW p \in Procs, Recheck(p) PROVE Holding'
    BY <1>7 DEF Recheck, Release, Goto, disk
  <1>8. ASSUME NEW p \in Procs, Export(p) PROVE Holding'
    BY <1>8 DEF Export, Goto
  <1>9. ASSUME NEW p \in Procs, LinkBegins(p) PROVE Holding'
    BY <1>9 DEF LinkBegins, Release, Goto
  <1>10. ASSUME NEW p \in Procs, LinkEnds(p) PROVE Holding'
    BY <1>10 DEF LinkEnds, Goto
  <1>11. ASSUME NEW p \in Procs, RemoveObj(p) PROVE Holding'
    BY <1>11 DEF RemoveObj, Release, Goto
  <1>12. ASSUME NEW p \in Procs, Run(p) PROVE Holding'
    BY <1>12 DEF Run, Goto, disk
  <1>13. ASSUME NEW p \in Procs, EndClear(p) PROVE Holding'
    BY <1>13 DEF EndClear, Goto, disk
  <1>14. ASSUME NEW p \in Procs, Ask(p) PROVE Holding'
    BY <1>14 DEF Ask, Lock, Goto, disk
  <1>15. ASSUME NEW p \in Procs, Timeout(p) PROVE Holding'
    BY <1>15 DEF Timeout, Release, Goto, disk
  <1>16. ASSUME NEW p \in Procs, BeginClear(p) PROVE Holding'
    BY <1>16 DEF BeginClear, Goto, disk
  <1>17. ASSUME NEW p \in Procs, Crash(p) PROVE Holding'
    BY <1>17 DEF Crash, Dies, Release, Goto
  <1>18. ASSUME NEW p \in Procs, CrashLeavesLinker(p) PROVE Holding'
    BY <1>18 DEF CrashLeavesLinker, Dies, Release, Goto
  <1>19. ASSUME NEW p \in Procs, NEW f \in Files, UnlinkDoomed(p, f) PROVE Holding'
    BY <1>19 DEF UnlinkDoomed, Goto, Files, Present
  <1>20. ASSUME OrphanBegins PROVE Holding'
    BY <1>20 DEF OrphanBegins
  <1>21. ASSUME OrphanEnds PROVE Holding'
    BY <1>21 DEF OrphanEnds
  <1>22. CASE UNCHANGED cacheVars
    BY <1>22 DEF cacheVars
  <1> QED BY <1>1, <1>2, <1>3, <1>4, <1>5, <1>6, <1>7, <1>8, <1>9, <1>10, <1>11, <1>12, <1>13, <1>14, <1>15, <1>16, <1>17, <1>18, <1>19, <1>20, <1>21, <1>22
         DEF CacheNext, CacheStep

\* The number of calls of clear() never goes back to 0, and what crashes did to
\* linkers is not forgotten.
LEMMA History ==
    ASSUME TypeOK, [CacheNext]_cacheVars
    PROVE  (clears' = 0 => clears = 0) /\ lost \subseteq lost'
  <1>1. CASE \E p \in Procs : BeginClear(p)
    BY <1>1, BoundAssumption DEF BeginClear, TypeOK, linkers
  <1>2. CASE ~\E p \in Procs : BeginClear(p)
    BY <1>2 DEF CacheNext, CacheStep, cacheVars, disk, linkers, Open, Try, Retry, Lookup, LoadModule, Compile, Recheck, Export,
         LinkBegins, LinkEnds, RemoveObj, Run, EndClear, UnlinkDoomed, Ask, Timeout, Dies, Crash,
         CrashLeavesLinker, OrphanBegins, OrphanEnds
  <1> QED BY <1>1, <1>2

\* Every step accounts for whoever writes, or wrote, the library.
LEMMA LinkersStep ==
    ASSUME TypeOK, Linkers, [CacheNext]_cacheVars
    PROVE  Linkers'
  <1> USE ProcsAssumption DEF TypeOK, Linkers, linkers
  <1>1. ASSUME NEW p \in Procs, Open(p) PROVE Linkers'
    BY <1>1 DEF Open, Goto
  <1>2. ASSUME NEW p \in Procs, Try(p) PROVE Linkers'
    BY <1>2 DEF Try, Goto, disk
  <1>3. ASSUME NEW p \in Procs, Retry(p) PROVE Linkers'
    BY <1>3 DEF Retry, Goto, disk
  <1>4. ASSUME NEW p \in Procs, Lookup(p) PROVE Linkers'
    BY <1>4 DEF Lookup, Release, Goto, disk
  <1>5. ASSUME NEW p \in Procs, LoadModule(p) PROVE Linkers'
    BY <1>5 DEF LoadModule, Release, Goto, disk
  <1>6. ASSUME NEW p \in Procs, Compile(p) PROVE Linkers'
    BY <1>6 DEF Compile, Lock, Goto, disk
  <1>7. ASSUME NEW p \in Procs, Recheck(p) PROVE Linkers'
    BY <1>7 DEF Recheck, Release, Goto, disk
  <1>8. ASSUME NEW p \in Procs, Export(p) PROVE Linkers'
    BY <1>8 DEF Export, Goto
  <1>9. ASSUME NEW p \in Procs, LinkBegins(p) PROVE Linkers'
    BY <1>9 DEF LinkBegins, Release, Goto
  <1>10. ASSUME NEW p \in Procs, LinkEnds(p) PROVE Linkers'
    BY <1>10 DEF LinkEnds, Goto
  <1>11. ASSUME NEW p \in Procs, RemoveObj(p) PROVE Linkers'
    BY <1>11 DEF RemoveObj, Release, Goto
  <1>12. ASSUME NEW p \in Procs, Run(p) PROVE Linkers'
    BY <1>12 DEF Run, Goto, disk
  <1>13. ASSUME NEW p \in Procs, EndClear(p) PROVE Linkers'
    BY <1>13 DEF EndClear, Goto, disk
  <1>14. ASSUME NEW p \in Procs, Ask(p) PROVE Linkers'
    BY <1>14 DEF Ask, Lock, Goto, disk
  <1>15. ASSUME NEW p \in Procs, Timeout(p) PROVE Linkers'
    BY <1>15 DEF Timeout, Release, Goto, disk
  <1>16. ASSUME NEW p \in Procs, BeginClear(p) PROVE Linkers'
    BY <1>16 DEF BeginClear, Goto, disk
  <1>17. ASSUME NEW p \in Procs, Crash(p) PROVE Linkers'
    BY <1>17 DEF Crash, Dies, Release, Goto
  <1>18. ASSUME NEW p \in Procs, CrashLeavesLinker(p) PROVE Linkers'
    BY <1>18 DEF CrashLeavesLinker, Dies, Release, Goto
  <1>19. ASSUME NEW p \in Procs, NEW f \in Files, UnlinkDoomed(p, f) PROVE Linkers'
    BY <1>19 DEF UnlinkDoomed, Goto
  <1>20. ASSUME OrphanBegins PROVE Linkers'
    BY <1>20 DEF OrphanBegins
  <1>21. ASSUME OrphanEnds PROVE Linkers'
    BY <1>21 DEF OrphanEnds
  <1>22. CASE UNCHANGED cacheVars
    BY <1>22 DEF cacheVars
  <1> QED BY <1>1, <1>2, <1>3, <1>4, <1>5, <1>6, <1>7, <1>8, <1>9, <1>10, <1>11, <1>12, <1>13, <1>14, <1>15, <1>16, <1>17, <1>18, <1>19, <1>20, <1>21, <1>22
         DEF CacheNext, CacheStep

\* Until a clear() every step keeps the lock exclusive.
LEMMA OneLockStep ==
    ASSUME IndInv, [CacheNext]_cacheVars, clears' = 0
    PROVE  OneLock'
  <1>1. clears = 0
    BY History DEF IndInv
  <1>2. OneLock
    BY <1>1 DEF IndInv
  <1> USE <1>1, <1>2 DEF IndInv, TypeOK, Holding, OneLock, Writing, NoFile, linkers
  <1>3. ASSUME NEW p \in Procs, Open(p) PROVE OneLock'
    BY <1>3 DEF Open, Goto
  <1>4. ASSUME NEW p \in Procs, Try(p) PROVE OneLock'
    BY <1>4 DEF Try, Granted, Goto, disk
  <1>5. ASSUME NEW p \in Procs, Retry(p) PROVE OneLock'
    BY <1>5 DEF Retry, Goto, disk
  <1>6. ASSUME NEW p \in Procs, Lookup(p) PROVE OneLock'
    BY <1>6 DEF Lookup, Release, Goto, disk
  <1>7. ASSUME NEW p \in Procs, LoadModule(p) PROVE OneLock'
    BY <1>7 DEF LoadModule, Release, Goto, disk
  <1>8. ASSUME NEW p \in Procs, Compile(p) PROVE OneLock'
    BY <1>8 DEF Compile, Lock, Goto, disk
  <1>9. ASSUME NEW p \in Procs, Recheck(p) PROVE OneLock'
    BY <1>9 DEF Recheck, Release, Goto, disk
  <1>10. ASSUME NEW p \in Procs, Export(p) PROVE OneLock'
    BY <1>10 DEF Export, Goto
  <1>11. ASSUME NEW p \in Procs, LinkBegins(p) PROVE OneLock'
    BY <1>11 DEF LinkBegins, Release, Goto
  <1>12. ASSUME NEW p \in Procs, LinkEnds(p) PROVE OneLock'
    BY <1>12 DEF LinkEnds, Goto
  <1>13. ASSUME NEW p \in Procs, RemoveObj(p) PROVE OneLock'
    BY <1>13 DEF RemoveObj, Release, Goto
  <1>14. ASSUME NEW p \in Procs, Run(p) PROVE OneLock'
    BY <1>14 DEF Run, Goto, disk
  <1>15. ASSUME NEW p \in Procs, EndClear(p) PROVE OneLock'
    BY <1>15 DEF EndClear, Goto, disk
  <1>16. ASSUME NEW p \in Procs, Ask(p) PROVE OneLock'
    BY <1>16 DEF Ask, Lock, Goto, disk
  <1>17. ASSUME NEW p \in Procs, Timeout(p) PROVE OneLock'
    BY <1>17 DEF Timeout, Release, Goto, disk
  <1>18. ASSUME NEW p \in Procs, BeginClear(p) PROVE OneLock'
    BY <1>18 DEF BeginClear
  <1>19. ASSUME NEW p \in Procs, Crash(p) PROVE OneLock'
    BY <1>19 DEF Crash, Dies, Release, Goto
  <1>20. ASSUME NEW p \in Procs, CrashLeavesLinker(p) PROVE OneLock'
    BY <1>20 DEF CrashLeavesLinker, Dies, Release, Goto
  <1>21. ASSUME NEW p \in Procs, NEW f \in Files, UnlinkDoomed(p, f) PROVE OneLock'
    BY <1>21 DEF UnlinkDoomed, Goto
  <1>22. ASSUME OrphanBegins PROVE OneLock'
    BY <1>22 DEF OrphanBegins
  <1>23. ASSUME OrphanEnds PROVE OneLock'
    BY <1>23 DEF OrphanEnds
  <1>24. CASE UNCHANGED cacheVars
    BY <1>24 DEF cacheVars
  <1> QED BY <1>3, <1>4, <1>5, <1>6, <1>7, <1>8, <1>9, <1>10, <1>11, <1>12, <1>13, <1>14, <1>15, <1>16, <1>17, <1>18, <1>19, <1>20, <1>21, <1>22, <1>23, <1>24
         DEF CacheNext, CacheStep

\* Until a clear() every step keeps what is found on disk in line with the holders.
LEMMA FoundStep ==
    ASSUME IndInv, [CacheNext]_cacheVars, clears' = 0
    PROVE  Found'
  <1>1. clears = 0
    BY History DEF IndInv
  <1>2. OneLock /\ Found /\ Linkers
    BY <1>1 DEF IndInv
  <1> USE <1>1, <1>2, ProcsAssumption DEF IndInv, TypeOK, Holding, OneLock, Found, Linkers, Writing, NoFile, linkers
  <1>3. ASSUME NEW p \in Procs, Open(p) PROVE Found'
    BY <1>3 DEF Open, Goto
  <1>4. ASSUME NEW p \in Procs, Try(p) PROVE Found'
    BY <1>4 DEF Try, Goto, disk
  <1>5. ASSUME NEW p \in Procs, Retry(p) PROVE Found'
    BY <1>5 DEF Retry, Goto, disk
  <1>6. ASSUME NEW p \in Procs, Lookup(p) PROVE Found'
    BY <1>6 DEF Lookup, Release, Goto, disk
  <1>7. ASSUME NEW p \in Procs, LoadModule(p) PROVE Found'
    BY <1>7 DEF LoadModule, Release, Goto, disk
  <1>8. ASSUME NEW p \in Procs, Compile(p) PROVE Found'
    BY <1>8 DEF Compile, Lock, Goto, disk
  <1>9. ASSUME NEW p \in Procs, Recheck(p) PROVE Found'
    BY <1>9 DEF Recheck, Release, Goto, disk
  <1>10. ASSUME NEW p \in Procs, Export(p) PROVE Found'
    BY <1>10 DEF Export, Goto
  <1>11. ASSUME NEW p \in Procs, LinkBegins(p) PROVE Found'
    BY <1>11 DEF LinkBegins, Release, Goto
  <1>12. ASSUME NEW p \in Procs, LinkEnds(p) PROVE Found'
    BY <1>12 DEF LinkEnds, Goto
  <1>13. ASSUME NEW p \in Procs, RemoveObj(p) PROVE Found'
    BY <1>13 DEF RemoveObj, Release, Goto
  <1>14. ASSUME NEW p \in Procs, Run(p) PROVE Found'
    BY <1>14 DEF Run, Goto, disk
  <1>15. ASSUME NEW p \in Procs, EndClear(p) PROVE Found'
    BY <1>15 DEF EndClear, Goto, disk
  <1>16. ASSUME NEW p \in Procs, Ask(p) PROVE Found'
    BY <1>16 DEF Ask, Lock, Goto, disk
  <1>17. ASSUME NEW p \in Procs, Timeout(p) PROVE Found'
    BY <1>17 DEF Timeout, Release, Goto, disk
  <1>18. ASSUME NEW p \in Procs, BeginClear(p) PROVE Found'
    BY <1>18 DEF BeginClear
  <1>19. ASSUME NEW p \in Procs, Crash(p) PROVE Found'
    BY <1>19 DEF Crash, Dies, Release, Goto
  <1>20. ASSUME NEW p \in Procs, CrashLeavesLinker(p) PROVE Found'
    BY <1>20 DEF CrashLeavesLinker, Dies, Release, Goto
  <1>21. ASSUME NEW p \in Procs, NEW f \in Files, UnlinkDoomed(p, f) PROVE Found'
    BY <1>21 DEF UnlinkDoomed, Goto
  <1>22. ASSUME OrphanBegins PROVE Found'
    BY <1>22 DEF OrphanBegins
  <1>23. ASSUME OrphanEnds PROVE Found'
    BY <1>23 DEF OrphanEnds
  <1>24. CASE UNCHANGED cacheVars
    BY <1>24 DEF cacheVars
  <1> QED BY <1>3, <1>4, <1>5, <1>6, <1>7, <1>8, <1>9, <1>10, <1>11, <1>12, <1>13, <1>14, <1>15, <1>16, <1>17, <1>18, <1>19, <1>20, <1>21, <1>22, <1>23, <1>24
         DEF CacheNext, CacheStep

\* Until a clear() or a linker without a process every step keeps the disk in line
\* with the lock's holder.
LEMMA OneWriterStep ==
    ASSUME IndInv, [CacheNext]_cacheVars, clears' = 0, "left" \notin lost'
    PROVE  OneWriter'
  <1>1. clears = 0 /\ "left" \notin lost
    BY History DEF IndInv
  <1>2. OneLock /\ Found /\ OneWriter /\ Linkers
    BY <1>1 DEF IndInv
  <1> USE <1>1, <1>2, ProcsAssumption
      DEF IndInv, TypeOK, Holding, OneLock, Found, OneWriter, Linkers, Writing, NoFile, linkers
  <1>3. ASSUME NEW p \in Procs, Open(p) PROVE OneWriter'
    BY <1>3 DEF Open, Goto
  <1>4. ASSUME NEW p \in Procs, Try(p) PROVE OneWriter'
    BY <1>4 DEF Try, Goto, disk
  <1>5. ASSUME NEW p \in Procs, Retry(p) PROVE OneWriter'
    BY <1>5 DEF Retry, Goto, disk
  <1>6. ASSUME NEW p \in Procs, Lookup(p) PROVE OneWriter'
    BY <1>6 DEF Lookup, Release, Goto, disk
  <1>7. ASSUME NEW p \in Procs, LoadModule(p) PROVE OneWriter'
    BY <1>7 DEF LoadModule, Release, Goto, disk
  <1>8. ASSUME NEW p \in Procs, Compile(p) PROVE OneWriter'
    BY <1>8 DEF Compile, Lock, Goto, disk
  <1>9. ASSUME NEW p \in Procs, Recheck(p) PROVE OneWriter'
    BY <1>9 DEF Recheck, Release, Goto, disk
  <1>10. ASSUME NEW p \in Procs, Export(p) PROVE OneWriter'
    BY <1>10 DEF Export, Goto
  <1>11. ASSUME NEW p \in Procs, LinkBegins(p) PROVE OneWriter'
    BY <1>11 DEF LinkBegins, Release, Goto
  <1>12. ASSUME NEW p \in Procs, LinkEnds(p) PROVE OneWriter'
    BY <1>12 DEF LinkEnds, Goto
  <1>13. ASSUME NEW p \in Procs, RemoveObj(p) PROVE OneWriter'
    BY <1>13 DEF RemoveObj, Release, Goto
  <1>14. ASSUME NEW p \in Procs, Run(p) PROVE OneWriter'
    BY <1>14 DEF Run, Goto, disk
  <1>15. ASSUME NEW p \in Procs, EndClear(p) PROVE OneWriter'
    BY <1>15 DEF EndClear, Goto, disk
  <1>16. ASSUME NEW p \in Procs, Ask(p) PROVE OneWriter'
    BY <1>16 DEF Ask, Lock, Goto, disk
  <1>17. ASSUME NEW p \in Procs, Timeout(p) PROVE OneWriter'
    BY <1>17 DEF Timeout, Release, Goto, disk
  <1>18. ASSUME NEW p \in Procs, BeginClear(p) PROVE OneWriter'
    BY <1>18 DEF BeginClear
  <1>19. ASSUME NEW p \in Procs, Crash(p) PROVE OneWriter'
    BY <1>19 DEF Crash, Dies, Release, Goto
  <1>20. ASSUME NEW p \in Procs, CrashLeavesLinker(p) PROVE OneWriter'
    BY <1>20 DEF CrashLeavesLinker, Dies, Release, Goto
  <1>21. ASSUME NEW p \in Procs, NEW f \in Files, UnlinkDoomed(p, f) PROVE OneWriter'
    BY <1>21 DEF UnlinkDoomed, Goto
  <1>22. ASSUME OrphanBegins PROVE OneWriter'
    BY <1>22 DEF OrphanBegins
  <1>23. ASSUME OrphanEnds PROVE OneWriter'
    BY <1>23 DEF OrphanEnds
  <1>24. CASE UNCHANGED cacheVars
    BY <1>24 DEF cacheVars
  <1> QED BY <1>3, <1>4, <1>5, <1>6, <1>7, <1>8, <1>9, <1>10, <1>11, <1>12, <1>13, <1>14, <1>15, <1>16, <1>17, <1>18, <1>19, <1>20, <1>21, <1>22, <1>23, <1>24
         DEF CacheNext, CacheStep

\* The cache starts empty, with no file open.
LEMMA InitIndInv == InitCache => IndInv
  <1> SUFFICES ASSUME InitCache PROVE IndInv
    OBVIOUS
  <1>1. obj \in BOOLEAN /\ mem \in [Procs -> BOOLEAN]
    BY Zenon DEF InitCache
  <1>2. /\ at = [p \in Procs |-> "idle"] /\ want = [p \in Procs |-> "shared"]
        /\ fd = [p \in Procs |-> 0] /\ flock = [p \in Procs |-> "none"]
        /\ so = "none" /\ path = 0 /\ inodes = 0
        /\ doomed = [p \in Procs |-> {}] /\ clears = 0
        /\ orphans = [starting |-> 0, linking |-> 0] /\ lost = {}
    BY Zenon DEF InitCache
  <1>3. TypeOK
    BY <1>1, <1>2, BoundAssumption DEF TypeOK
  <1>4. Holding
    BY <1>2 DEF Holding, Writing, NoFile
  <1>5. OneLock
    BY <1>2 DEF OneLock
  <1>6. Found /\ OneWriter
    BY <1>2, ProcsAssumption DEF Found, OneWriter
  <1>7. Linkers
    BY <1>2, ProcsAssumption DEF Linkers
  <1> QED BY <1>3, <1>4, <1>5, <1>6, <1>7 DEF IndInv

\* Every step keeps the invariant.
LEMMA NextIndInv == IndInv /\ [CacheNext]_cacheVars => IndInv'
  <1> SUFFICES ASSUME IndInv, [CacheNext]_cacheVars PROVE IndInv'
    OBVIOUS
  <1>1. TypeOK' /\ Holding'
    BY TypeStep, HoldingStep DEF IndInv
  <1>2. clears' = 0 => OneLock' /\ Found'
    BY OneLockStep, FoundStep
  <1>3. clears' = 0 /\ "left" \notin lost' => OneWriter'
    BY OneWriterStep
  <1>4. Linkers'
    BY LinkersStep DEF IndInv
  <1> QED BY <1>1, <1>2, <1>3, <1>4 DEF IndInv

-----------------------------------------------------------------------------
(* Theorems.                                                               *)

\* What a process holds, and until a clear() who may write the directory, is as
\* the invariant says in every reachable state.
THEOREM Invariance == CacheSpec => []IndInv
  BY InitIndInv, NextIndInv, PTL DEF CacheSpec

(* Until a clear() no process exports or links a library while another one   *)
(* exports, links or loads it, whoever crashes, with or without its linker,  *)
(* and however the polling of the lock interleaves.                          *)
THEOREM Exclusion == CacheSpec => []LockedUntilCleared
  <1>1. IndInv => LockedUntilCleared
    BY DEF IndInv, TypeOK, Holding, OneLock, LockedUntilCleared, LoadsLocked, Writing, NoFile
  <1> QED BY <1>1, Invariance, PTL

(* Until a clear() a library about to be loaded is whole, unless a crash hit  *)
(* a link: then it may be what a killed linker left, or what one that was     *)
(* left behind still writes, but is never missing or in a process's hands.   *)
THEOREM SettledLibrary == CacheSpec => []LoadsSettledLibrary
  <1>1. IndInv => LoadsSettledLibrary
    BY DEF IndInv, TypeOK, Holding, OneLock, Found, Linkers, LoadsSettledLibrary, Writing, NoFile
  <1> QED BY <1>1, Invariance, PTL

(* Nobody asks for a lock while it holds one, clear() or not: FileLock never *)
(* makes two processes wait for each other.                                  *)
THEOREM NeverHoldsAndWaits == CacheSpec => []NoHoldAndWait
  <1>1. IndInv => NoHoldAndWait
    BY DEF IndInv, TypeOK, Holding, NoHoldAndWait, NoFile
  <1> QED BY <1>1, Invariance, PTL

(* Until a clear(), or a crash that leaves a linker behind, a finished        *)
(* library is not written again.                                             *)
THEOREM LibraryIsFinal == CacheSpec => NeverRewritten
  <1>1. ASSUME IndInv, [CacheNext]_cacheVars, so = "whole", clears = 0, "left" \notin lost
        PROVE  so' = "whole"
    <2> USE <1>1, ProcsAssumption DEF IndInv, TypeOK, OneLock, Linkers, OneWriter
    <2>1. ASSUME NEW p \in Procs, LinkBegins(p) PROVE so' = "whole"
      BY <2>1 DEF LinkBegins
    <2>2. ASSUME NEW p \in Procs, LinkEnds(p) PROVE so' = "whole"
      BY <2>2 DEF LinkEnds
    <2>3. ASSUME NEW p \in Procs, NEW f \in Files, UnlinkDoomed(p, f) PROVE so' = "whole"
      BY <2>3 DEF UnlinkDoomed
    <2>4. ASSUME NEW p \in Procs, Crash(p) PROVE so' = "whole"
      BY <2>4 DEF Crash
    <2>5. ASSUME NEW p \in Procs, CrashLeavesLinker(p) PROVE so' = "whole"
      BY <2>5 DEF CrashLeavesLinker
    <2>6. ASSUME OrphanBegins \/ OrphanEnds PROVE so' = "whole"
      BY <2>6 DEF OrphanBegins, OrphanEnds
    <2>7. ASSUME UNCHANGED so PROVE so' = "whole"
      BY <2>7
    <2> QED
      BY <2>1, <2>2, <2>3, <2>4, <2>5, <2>6, <2>7
      DEF CacheNext, CacheStep, cacheVars, disk, Open, Try, Retry, Lookup, LoadModule, Compile, Recheck,
          Export, RemoveObj, Run, EndClear, Ask, Timeout, BeginClear
  <1>2. IndInv /\ [CacheNext]_cacheVars
        => [so = "whole" /\ clears = 0 /\ "left" \notin lost => so' = "whole"]_cacheVars
    BY <1>1
  <1> QED BY <1>2, Invariance, PTL DEF CacheSpec, NeverRewritten
=============================================================================
