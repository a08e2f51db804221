----------------------------- MODULE AotArtifacts -----------------------------
(***************************************************************************)
(* csrc/fwd/*/aot_*.py and their use in bsa_attn_interface.py: kernels     *)
(* compiled ahead of time.  A builder writes the libraries of a split call *)
(* (the producer "fwd" and the "combine" kernel) in place, one by one, and *)
(* then replaces the manifest, which names their checksums and the         *)
(* fingerprint of the sources.  A process that serves calls reads manifest *)
(* and libraries at any time, from caches of its own where it can.         *)
(* Loaders write nothing to disk, so one is enough.  A library and a       *)
(* manifest are known by the build that wrote them: its checksums match    *)
(* exactly its own libraries, its manifest's stat exactly itself.          *)
(***************************************************************************)
EXTENDS Naturals

CONSTANTS Kinds,      \* loaders to choose from, see Loader
          MaxBuilds,  \* bound: builds started
          MaxEdits,   \* bound: edits of the sources
          MaxClears   \* bound: calls of clear_*_aot_runtime_cache()

\* How a loader caches: manifests by stat or by path only, and what it keeps of
\* a finished call: nothing, the kernels under a token of the manifest (FP8
\* blk64), or the pair under the generation alone (FP8 blk128).  A strict one is
\* in AOT-only mode.
Loader == [key: {"stat", "path"}, keeps: {"nothing", "token", "generation"}, strict: BOOLEAN]

ASSUME BoundsAssumption == {MaxBuilds, MaxEdits, MaxClears} \subseteq Nat
ASSUME KindsAssumption  == Kinds \subseteq Loader

VARIABLES kind,      \* the loader of this behaviour
          source,    \* version of the sources on disk
          build,     \* builds started so far
          builds,    \* of each build: its sources, and if it has our variant
          step,      \* what the builder does next
          lib,       \* build that linked each library, 0 for none, or Torn
          manifest,  \* build whose manifest is in place, 0 for none
          pc,        \* where the call is
          turn,      \* which of its lookups it is at
          stamp,     \* stat of the manifest
          man,       \* manifest it goes by
          got,       \* kernels it has: manifest that named them, build loaded
          known,     \* cache of manifests, by Key
          bound,     \* cache of loaded libraries, by name and checksum
          fp,        \* cached fingerprint of the sources, or NoFp
          gen,       \* _SM100_AOT_CACHE_GENERATION
          entry,     \* the kernels kept of an earlier call, or NoEntry
          since,     \* history: manifest in place when it last had to look
          good,      \* history: the disk was in order when the call began
          still      \* history: and nobody has written since

shelf == <<kind, source, build, builds, step, lib, manifest>>
call  == <<pc, turn, stamp, man, got>>
cache == <<known, bound, fp, gen, entry>>
past  == <<since, good, still>>
vars  == <<shelf, call, cache, past>>

Libs    == {"fwd", "combine"}
Torn    == MaxBuilds + 1   \* a library being linked, or whose linker died
NoFp    == MaxEdits + 1
Build   == 0..MaxBuilds
Kernels == [Libs -> [man: Build, lib: Build]]
None    == [l \in Libs |-> [man |-> 0, lib |-> 0]]   \* JIT compiles instead
NoEntry == [stamp |-> 0, gen |-> MaxClears + 1, kernels |-> None]

Init ==
    /\ kind \in Kinds /\ source = 0
    /\ build = 0 /\ builds = [b \in 1..MaxBuilds |-> [source |-> 0, ours |-> FALSE]]
    /\ step = "idle" /\ lib = [l \in Libs |-> 0] /\ manifest = 0
    /\ pc = "idle" /\ turn = 1 /\ stamp = 0 /\ man = 0 /\ got = None
    /\ known = [s \in Build |-> 0] /\ bound = [l \in Libs |-> [b \in Build |-> 0]]
    /\ fp = NoFp /\ gen = 0 /\ entry = NoEntry
    /\ since = 0 /\ good = FALSE /\ still = FALSE

(***************************************************************************)
(* The builder: build_sm100_aot_artifacts and its siblings                 *)
(***************************************************************************)

Disturb == still' = FALSE /\ UNCHANGED <<call, cache, since, good>>

\* An edit or an upgrade of the package.  Not during a build: which version of
\* a file the compiler then reads is not determined.
Edit ==
    /\ source < MaxEdits /\ source' = source + 1 /\ step = "idle" /\ Disturb
    /\ UNCHANGED <<kind, build, builds, step, lib, manifest>>

\* A build of the whole matrix, or of a subset without the variant.
StartBuild(ours) ==
    /\ step = "idle" /\ build < MaxBuilds /\ build' = build + 1
    /\ builds' = [builds EXCEPT ![build'] = [source |-> source, ours |-> ours]]
    /\ step' = IF ours THEN "link" ELSE "manifest"
    /\ Disturb /\ UNCHANGED <<kind, source, lib, manifest>>

\* The producers come before the combine kernels.
Target == IF lib["fwd"] # build THEN "fwd" ELSE "combine"

\* _export_compiled_variant: the linker creates its output, then completes it.
BeginLink ==
    /\ step = "link" /\ step' = "linking" /\ lib' = [lib EXCEPT ![Target] = Torn]
    /\ Disturb /\ UNCHANGED <<kind, source, build, builds, manifest>>

EndLink ==
    /\ step = "linking" /\ lib' = [lib EXCEPT ![Target] = build]
    /\ step' = IF Target = "fwd" THEN "link" ELSE "manifest"
    /\ Disturb /\ UNCHANGED <<kind, source, build, builds, manifest>>

\* write_sm100_aot_manifest: os.replace of a file of its own.
WriteManifest ==
    /\ step = "manifest" /\ step' = "idle" /\ manifest' = build
    /\ Disturb /\ UNCHANGED <<kind, source, build, builds, lib>>

BuilderDies ==
    /\ step # "idle" /\ step' = "idle"
    /\ Disturb /\ UNCHANGED <<kind, source, build, builds, lib, manifest>>

(***************************************************************************)
(* A call                                                                  *)
(***************************************************************************)

\* _get_sm100_fp8_aot_fast_entry, and the lookup in the dispatch cache of blk128.
Valid == entry.gen = gen /\ (kind.keeps = "token" => entry.stamp = manifest)

\* Nothing on disk is a reason to refuse: the manifest fits its libraries, its
\* sources are the process's, and a loader that does not look at the manifest
\* again has been cleared since it was replaced.
InOrder ==
    /\ step = "idle" /\ manifest # 0
    /\ builds[manifest].ours => \A l \in Libs : lib[l] = manifest
    /\ kind.strict => builds[manifest].ours
    /\ builds[manifest].source = IF fp = NoFp THEN source ELSE fp
    /\ kind.key = "path" => since \in {0, manifest}

\* Served from an earlier call, or from the start; a stale entry is dropped.
Call ==
    /\ pc = "idle"
    /\ \/ /\ Valid /\ pc' = "served" /\ got' = entry.kernels
          /\ UNCHANGED <<entry, past>>
       \/ /\ ~Valid /\ pc' = "stat" /\ entry' = NoEntry
          /\ good' = InOrder /\ still' = TRUE
          /\ since' = IF kind.key = "stat" THEN manifest ELSE since
          /\ UNCHANGED got
    /\ UNCHANGED <<shelf, turn, stamp, man, known, bound, fp, gen>>

\* The locals of the call end with it, and so does its history.
Return ==
    /\ pc \in {"served", "raised"} /\ pc' = "idle"
    /\ turn' = 1 /\ stamp' = 0 /\ man' = 0 /\ got' = None
    /\ good' = FALSE /\ still' = FALSE
    /\ UNCHANGED <<shelf, cache, since>>

Lib == IF turn = 1 THEN "fwd" ELSE "combine"

\* Producer, combine, and for a token the combine kernel once more.
Last == IF kind.keeps = "token" /\ got["fwd"].man # 0 THEN 3 ELSE 2

Raise == pc' = "raised" /\ UNCHANGED <<turn, got>>

\* No kernel: AOT-only mode raises, else JIT compiles; blk128 wants both or none.
Miss ==
    \/ kind.strict /\ Raise
    \/ /\ ~kind.strict /\ pc' = "got"
       /\ IF kind.keeps = "generation"
          THEN turn' = Last /\ got' = None
          ELSE turn' = turn /\ got' = [got EXCEPT ![Lib] = [man |-> 0, lib |-> 0]]

Obtain(b) ==
    pc' = "got" /\ got' = [got EXCEPT ![Lib] = [man |-> man, lib |-> b]] /\ UNCHANGED turn

\* A bug for the runs to find: the manifest is cached by its path everywhere.
KeyByPath(s) == 0

\* The key of _load_manifest_cached.
Key(s) == IF kind.key = "stat" THEN s ELSE 0

\* is_file and stat of the manifest, then its cache.
Stat ==
    /\ pc = "stat"
    /\ \/ manifest = 0 /\ Miss /\ UNCHANGED <<stamp, man>>
       \/ /\ manifest # 0 /\ stamp' = manifest
          /\ \/ known[Key(manifest)] # 0 /\ man' = known[Key(manifest)] /\ pc' = "check"
             \/ known[Key(manifest)] = 0 /\ pc' = "read" /\ UNCHANGED man
          /\ UNCHANGED <<turn, got>>
    /\ UNCHANGED <<shelf, cache, past>>

\* The file opened now may be a newer one.
Read ==
    /\ pc = "read" /\ man' = manifest
    /\ \/ kind.key = "stat" /\ pc' = "restat" /\ UNCHANGED <<known, since>>
       \/ /\ kind.key = "path" /\ pc' = "check"
          /\ known' = [known EXCEPT ![Key(stamp)] = manifest] /\ since' = manifest
    /\ UNCHANGED <<shelf, turn, stamp, got, bound, fp, gen, entry, good, still>>

\* _load_manifest_cached: "manifest changed while loading".
Restat ==
    /\ pc = "restat"
    /\ \/ /\ manifest = stamp /\ pc' = "check"
          /\ known' = [known EXCEPT ![Key(stamp)] = man] /\ UNCHANGED <<turn, got>>
       \/ manifest # stamp /\ Raise /\ UNCHANGED known
    /\ UNCHANGED <<shelf, stamp, man, bound, fp, gen, entry, past>>

\* _validate_manifest_compatibility, the entry, the library's presence (one being
\* linked may be missing), then _bind_kernel_cached.  (blk128 validates when it
\* reads the manifest, with the fingerprint that stays as long.)
Check ==
    /\ pc = "check" /\ fp' = IF fp = NoFp THEN source ELSE fp
    /\ \/ builds[man].source # fp' /\ Raise
       \/ /\ builds[man].source = fp'
          /\ \/ ~builds[man].ours /\ Miss
             \/ /\ builds[man].ours
                /\ \/ lib[Lib] \in {0, Torn} /\ Raise
                   \/ lib[Lib] # 0 /\ bound[Lib][man] # 0 /\ Obtain(bound[Lib][man])
                   \/ lib[Lib] # 0 /\ bound[Lib][man] = 0 /\ pc' = "hash" /\ UNCHANGED <<turn, got>>
    /\ UNCHANGED <<shelf, stamp, man, known, bound, gen, entry, past>>

\* A bug for the runs to find: whatever is there gets loaded.
HashNothing ==
    /\ pc = "hash" /\ pc' = "load"
    /\ UNCHANGED <<shelf, turn, stamp, man, got, cache, past>>

\* _load_kernel_cached: the checksum of the file as it is now.
Hash ==
    /\ pc = "hash"
    /\ \/ lib[Lib] = man /\ pc' = "load" /\ UNCHANGED <<turn, got>>
       \/ lib[Lib] # man /\ Raise
    /\ UNCHANGED <<shelf, stamp, man, cache, past>>

\* load_module of the file as it is then.
Load ==
    /\ pc = "load"
    /\ \/ lib[Lib] = Torn /\ Raise /\ UNCHANGED bound
       \/ /\ lib[Lib] # Torn /\ Obtain(lib[Lib])
          /\ bound' = [bound EXCEPT ![Lib][man] = lib[Lib]]
    /\ UNCHANGED <<shelf, stamp, man, known, fp, gen, entry, past>>

\* The kernel is launched; blk128 has one manifest for both of its kernels.
NextTurn ==
    /\ pc = "got" /\ turn < Last /\ turn' = turn + 1
    /\ pc' = IF kind.keeps = "generation" THEN "check" ELSE "stat"
    /\ UNCHANGED <<shelf, stamp, man, got, cache, past>>

\* The end of the call: what it keeps, a pair under a token read only now.
Finish ==
    /\ pc = "got" /\ turn >= Last /\ pc' = "served"
    /\ entry' = CASE kind.keeps = "generation" -> [stamp |-> 0, gen |-> gen, kernels |-> got]
                  [] kind.keeps = "token" /\ (\A l \in Libs : got[l].man # 0)
                                            -> [stamp |-> manifest, gen |-> gen, kernels |-> got]
                  [] OTHER                  -> entry
    /\ UNCHANGED <<shelf, turn, stamp, man, got, known, bound, fp, gen, past>>

Forget ==
    /\ known' = [s \in Build |-> 0] /\ bound' = [l \in Libs |-> [b \in Build |-> 0]]
    /\ fp' = NoFp

\* Bugs for the runs to find: the generation stays; the manifests stay.
ClearKeepsEntry ==
    /\ pc = "idle" /\ Forget
    /\ since' = IF kind.key = "path" THEN manifest ELSE since
    /\ UNCHANGED <<shelf, call, gen, entry, good, still>>
ClearKeepsManifests ==
    /\ pc = "idle" /\ gen < MaxClears /\ gen' = gen + 1
    /\ bound' = [l \in Libs |-> [b \in Build |-> 0]] /\ fp' = NoFp /\ UNCHANGED known
    /\ since' = IF kind.key = "path" THEN manifest ELSE since
    /\ UNCHANGED <<shelf, call, entry, good, still>>

\* clear_sm100_aot_runtime_cache, between two calls.
Clear ==
    /\ pc = "idle" /\ gen < MaxClears /\ gen' = gen + 1 /\ Forget
    /\ since' = IF kind.key = "path" THEN manifest ELSE since
    /\ UNCHANGED <<shelf, call, entry, good, still>>

Builder == BeginLink \/ EndLink \/ WriteManifest
Loading == Return \/ Stat \/ Read \/ Restat \/ Check \/ Hash \/ Load \/ NextTurn \/ Finish

Next ==
    \/ Edit \/ (\E ours \in BOOLEAN : StartBuild(ours)) \/ Builder \/ BuilderDies
    \/ Call \/ Loading \/ Clear

Spec == Init /\ [][Next]_vars

(***************************************************************************)
(* Properties                                                              *)
(***************************************************************************)

\* A call runs no kernel older than the manifest in place when it last had to
\* look: when the call began, or, for loaders that cache by path, when they read
\* it or were cleared; a hit counts from the call that stored the entry.
NeverOlder == \A l \in Libs : got[l].lib # 0 => got[l].lib >= since

\* Whatever is served, from a cache or not, was named by a manifest built from
\* the sources whose fingerprint the process has, and has not forgotten.
FingerprintHolds == \A l \in Libs : got[l].man # 0 => builds[got[l].man].source = fp

\* A call refuses only for a reason on disk: no torn read, interrupted build or
\* rebuild leaves anything in the caches that fails a later call.
ErrorsAreReal == pc = "raised" => ~(good /\ still)

\* While nobody writes, a library is loaded only under its own checksum: what an
\* interrupted build has left is not served under the manifest before it.
LoadsWhatIsNamed ==
    [][still => \A l \in Libs, b \in Build : bound'[l][b] \in {bound[l][b], b, 0}]_vars

\* The kept pair is dropped when the manifest changes: README.md:170-171.
FastEntryIsCurrent ==
    kind.keeps = "token" /\ Valid => \A l \in Libs : entry.kernels[l].man = manifest
=============================================================================
