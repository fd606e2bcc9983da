----------------------- MODULE DriverInstaller_proofs -----------------------
(***************************************************************************)
(* Theorems about the driver installer, for all kernels and drivers and    *)
(* any number of kills, boots and updates.                                 *)
(***************************************************************************)
EXTENDS DriverInstaller, TLAPS

\* The type invariant but for the one variable that is a truth value.
Types ==
  /\ kernel \in Kernels /\ wanted \in Drivers
  /\ pc \in Labels
  /\ cache \in Build \cup {Absent, Truncated}
  /\ tree \in [Parts -> Build \cup {Absent}]
  /\ left \subseteq Parts
  /\ loaded \in [Modules -> Build \cup {Absent}]
  /\ kills \in Nat /\ boots \in Nat /\ updates \in Nat

LEMMA TypeSplit == TypeOK <=> Types /\ headers \in BOOLEAN
BY Zenon DEF TypeOK, Types

LEMMA TypeInit == Init => TypeOK
<1> SUFFICES ASSUME Init PROVE Types /\ headers \in BOOLEAN
  BY TypeSplit
<1>1. Types
  BY DEF Init, Types, Labels
<1>2. headers \in BOOLEAN
  BY Zenon DEF Init
<1> QED
  BY <1>1, <1>2

LEMMA HeadersStep == headers \in BOOLEAN /\ [Next]_vars => headers' \in BOOLEAN
BY Zenon DEF Next, Main, vars, containerVars, CheckCachedVersion, DownloadKernelSrc,
   ConfigureDirs, DownloadInstaller, RunInstaller, OpenCacheFile, WriteCacheFile,
   ConfigureCached, VerifyInstallation, UpdateHostLdCache, StartAgain, Kill, Boot,
   UpdateDaemonSet, NewContainer

LEMMA TypesStep == Types /\ [Next]_vars => Types'
<1> SUFFICES ASSUME Types, [Next]_vars PROVE Types'
  OBVIOUS
<1> USE DEF Types, Labels
<1>1. Requested \in Build
  BY DEF Requested, Build
<1>2. CASE CheckCachedVersion
  BY <1>2 DEF CheckCachedVersion, Goto, nodeVars, containerVars
<1>3. CASE DownloadKernelSrc
  BY <1>3, InstallerAssumption DEF DownloadKernelSrc, Goto, Fails, nodeVars
<1>4. CASE ConfigureDirs
  BY <1>4, InstallerAssumption DEF ConfigureDirs, Goto, Fails, nodeVars, containerVars
<1>5. CASE DownloadInstaller
  BY <1>5, InstallerAssumption DEF DownloadInstaller, Goto, Fails, nodeVars
<1>6. CASE RunInstaller
  <2> SUFFICES ASSUME RunInstaller PROVE Types'
    BY <1>6
  <2>1. /\ kernel' \in Kernels /\ wanted' \in Drivers /\ pc' \in Labels
        /\ cache' \in Build \cup {Absent, Truncated}
        /\ kills' \in Nat /\ boots' \in Nat /\ updates' \in Nat
    BY InstallerAssumption DEF RunInstaller, Goto, Fails, nodeVars
  <2>2. tree' \in [Parts -> Build \cup {Absent}]
    BY <1>1 DEF RunInstaller
  <2>3. left' \subseteq Parts
    BY DEF RunInstaller
  <2>4. loaded' \in [Modules -> Build \cup {Absent}]
    BY DEF RunInstaller, Parts
  <2> QED
    BY <2>1, <2>2, <2>3, <2>4
<1>7. CASE OpenCacheFile
  BY <1>7 DEF OpenCacheFile, Goto, nodeVars, containerVars
<1>8. CASE WriteCacheFile
  BY <1>1, <1>8 DEF WriteCacheFile, Goto, nodeVars, containerVars
<1>9. CASE ConfigureCached
  BY <1>9, InstallerAssumption
  DEF ConfigureCached, Insmod, Goto, Fails, nodeVars, containerVars, Parts, Modules
<1>10. CASE VerifyInstallation
  BY <1>10, InstallerAssumption DEF VerifyInstallation, Goto, Fails, nodeVars, containerVars
<1>11. CASE UpdateHostLdCache
  BY <1>11, InstallerAssumption DEF UpdateHostLdCache, Goto, Fails, nodeVars, containerVars
<1>12. CASE StartAgain
  BY <1>12 DEF StartAgain, NewContainer, nodeVars
<1>13. CASE Kill
  BY <1>13 DEF Kill, NewContainer, nodeVars
<1>14. CASE Boot
  BY <1>14 DEF Boot, NewContainer
<1>15. CASE UpdateDaemonSet
  BY <1>15 DEF UpdateDaemonSet, NewContainer
<1>16. CASE UNCHANGED vars
  BY <1>16 DEF vars
<1> QED
  BY <1>2, <1>3, <1>4, <1>5, <1>6, <1>7, <1>8, <1>9, <1>10, <1>11, <1>12, <1>13,
     <1>14, <1>15, <1>16 DEF Next, Main

LEMMA TypeStep == TypeOK /\ [Next]_vars => TypeOK'
<1>1. TypeOK' <=> Types' /\ headers' \in BOOLEAN
  BY Zenon DEF TypeOK, Types
<1> QED
  BY <1>1, TypeSplit, TypesStep, HeadersStep

\* The type invariant of the installer: in particular the cache file is absent,
\* empty, or names a kernel and a driver.
THEOREM TypeCorrect == Spec => []TypeOK
BY TypeInit, TypeStep, PTL DEF Spec

-----------------------------------------------------------------------------
(* The inductive invariant.  Without rollbacks the pairs of kernel and     *)
(* driver that are asked for only grow, so that a directory that has been  *)
(* overwritten is never asked for again what its cache file says.          *)

Installing == {"download_kernel_src", "configure_nvidia_installation_dirs",
               "download_nvidia_installer", "run_nvidia_installer", "open_cache_file"}
Believing  == {"configure_cached_installation", "insmod_uvm",
               "verify_nvidia_installation", "update_host_ld_cache", "done"}
Verifying  == {"verify_nvidia_installation", "update_host_ld_cache", "done"}

\* The cache file is not ahead of what is asked for.
CacheIsPast ==
  cache \in Build => cache.kernel <= kernel /\ cache.driver <= wanted

\* A cache file that agrees with what is asked for tells the truth about the
\* directory, and nothing else is loaded.
CacheTells ==
  cache = Requested =>
    /\ \A p \in Parts : tree[p] = Requested
    /\ \A m \in Modules : loaded[m] \in {Absent, Requested}

\* What the place in the script says of the cache file, the directory and the
\* loaded modules.
PlaceTells ==
  /\ pc \in Installing => cache # Requested
  /\ pc \in Believing => cache = Requested
  /\ pc = "run_nvidia_installer" => \A p \in Parts \ left : tree[p] = Requested
  /\ pc \in {"open_cache_file", "write_cache_file"} =>
       /\ \A p \in Parts : tree[p] = Requested
       /\ \A m \in Modules : loaded[m] = Requested
  /\ pc = "insmod_uvm" => loaded["nvidia"] # Absent
  /\ pc \in Verifying => \A m \in Modules : loaded[m] # Absent

IInv == TypeOK /\ CacheIsPast /\ CacheTells /\ PlaceTells

LEMMA InvInit == Init => IInv
<1> SUFFICES ASSUME Init PROVE IInv
  OBVIOUS
<1>1. TypeOK
  BY TypeInit
<1>2. cache = Absent /\ cache # Requested
  BY InstallerAssumption DEF Init, Requested, Build
<1>3. CacheIsPast
  BY <1>2, InstallerAssumption DEF CacheIsPast
<1>4. CacheTells
  BY <1>2 DEF CacheTells
<1>5. PlaceTells
  BY DEF Init, PlaceTells, Installing, Believing, Verifying
<1> QED
  BY <1>1, <1>3, <1>4, <1>5 DEF IInv

\* Facts about the pair of kernel and driver that is asked for.
LEMMA RequestedType == TypeOK => Requested \in Build /\ Requested # Absent
                                  /\ Requested # Truncated
BY InstallerAssumption DEF TypeOK, Requested, Build, Truncated

\* The steps of the script that only go on to another place.
Moves == UNCHANGED <<kernel, wanted, cache, tree, loaded>>

LEMMA MovesCache == IInv /\ Moves => CacheIsPast' /\ CacheTells'
BY DEF IInv, Moves, CacheIsPast, CacheTells, Requested

LEMMA CheckStep == IInv /\ CheckCachedVersion => PlaceTells'
<1> SUFFICES ASSUME IInv, CheckCachedVersion PROVE PlaceTells'
  OBVIOUS
<1> USE DEF CheckCachedVersion, Goto, nodeVars
<1>1. Requested' = Requested /\ cache' = cache
  BY DEF Requested
<1>2. Requested # Absent
  BY RequestedType DEF IInv
<1>3. CASE cache = Absent /\ pc' = "download_kernel_src"
  BY <1>1, <1>2, <1>3 DEF PlaceTells, Installing, Believing, Verifying
<1>4. CASE pc' = "failed"
  BY <1>4 DEF PlaceTells, Installing, Believing, Verifying
<1>5. CASE cache \in Build /\ pc' = IF Found(cache) THEN "configure_cached_installation"
                                    ELSE "download_kernel_src"
  <2>1. Found(cache) <=> cache = Requested
    BY <1>5 DEF Found, Requested, Build
  <2> QED
    BY <1>1, <1>5, <2>1 DEF PlaceTells, Installing, Believing, Verifying
<1> QED
  BY <1>3, <1>4, <1>5

LEMMA RunStep == IInv /\ RunInstaller => CacheIsPast' /\ CacheTells' /\ PlaceTells'
<1> SUFFICES ASSUME IInv, RunInstaller PROVE CacheIsPast' /\ CacheTells' /\ PlaceTells'
  OBVIOUS
<1> USE DEF RunInstaller, Goto, Fails, nodeVars
<1>1. Requested' = Requested /\ cache' = cache /\ kernel' = kernel /\ wanted' = wanted
  BY DEF Requested
<1>2. cache # Requested
  BY DEF IInv, PlaceTells, Installing
<1>3. CacheIsPast' /\ CacheTells'
  BY <1>1, <1>2 DEF IInv, CacheIsPast, CacheTells
<1>4. tree \in [Parts -> Build \cup {Absent}]
  BY DEF IInv, TypeOK
<1>5. \A p \in Parts \ left : tree[p] = Requested
  BY DEF IInv, PlaceTells
<1>6. \A p \in Parts \ left' : tree'[p] = Requested
  BY <1>4, <1>5
<1>7. CASE pc' \in {"failed", "run_nvidia_installer"}
  BY <1>1, <1>2, <1>3, <1>6, <1>7 DEF PlaceTells, Installing, Believing, Verifying
<1>8. CASE left = {} /\ loaded' = [m \in Modules |-> tree[m]] /\ tree' = tree
           /\ pc' = "open_cache_file"
  <2>1. \A m \in Modules : loaded'[m] = Requested
    BY <1>5, <1>8 DEF Parts
  <2> QED
    BY <1>1, <1>2, <1>3, <1>5, <1>8, <2>1 DEF PlaceTells, Installing, Believing, Verifying
<1> QED
  BY <1>3, <1>7, <1>8

LEMMA CacheFileStep ==
  IInv /\ (OpenCacheFile \/ WriteCacheFile) => CacheIsPast' /\ CacheTells' /\ PlaceTells'
<1> SUFFICES ASSUME IInv, OpenCacheFile \/ WriteCacheFile
             PROVE  CacheIsPast' /\ CacheTells' /\ PlaceTells'
  OBVIOUS
<1> USE DEF Goto, nodeVars
<1>1. Requested' = Requested /\ kernel' = kernel /\ wanted' = wanted
      /\ tree' = tree /\ loaded' = loaded
  BY DEF OpenCacheFile, WriteCacheFile, Requested
<1>2. Requested # Truncated /\ Truncated \notin Build /\ Requested \in Build
      /\ Requested # Absent
  BY RequestedType, InstallerAssumption DEF IInv, Truncated, Build
<1>3. /\ \A p \in Parts : tree[p] = Requested
      /\ \A m \in Modules : loaded[m] = Requested
  BY DEF IInv, PlaceTells, OpenCacheFile, WriteCacheFile
<1>4. CASE OpenCacheFile
  <2>1. cache' = Truncated /\ pc' = "write_cache_file"
    BY <1>4 DEF OpenCacheFile
  <2>2. CacheIsPast'
    BY <1>1, <1>2, <2>1 DEF CacheIsPast
  <2>3. CacheTells'
    BY <1>1, <1>2, <2>1 DEF CacheTells
  <2>4. PlaceTells'
    BY <1>1, <1>3, <2>1 DEF PlaceTells, Installing, Believing, Verifying
  <2> QED
    BY <2>2, <2>3, <2>4
<1>5. CASE WriteCacheFile
  <2>1. cache' = Requested /\ pc' = "verify_nvidia_installation"
    BY <1>5 DEF WriteCacheFile
  <2>2. Requested.kernel <= kernel /\ Requested.driver <= wanted
    BY InstallerAssumption DEF Requested, IInv, TypeOK
  <2>3. CacheIsPast'
    BY <1>1, <2>1, <2>2 DEF CacheIsPast
  <2>4. CacheTells'
    BY <1>1, <1>3, <2>1 DEF CacheTells
  <2>5. PlaceTells'
    BY <1>1, <1>2, <1>3, <2>1 DEF PlaceTells, Installing, Believing, Verifying
  <2> QED
    BY <2>3, <2>4, <2>5
<1> QED
  BY <1>4, <1>5

LEMMA ConfigureStep ==
  IInv /\ ConfigureCached => CacheIsPast' /\ CacheTells' /\ PlaceTells'
<1> SUFFICES ASSUME IInv, ConfigureCached
             PROVE  CacheIsPast' /\ CacheTells' /\ PlaceTells'
  OBVIOUS
<1> USE DEF Goto, Fails, nodeVars
<1>1. Requested' = Requested /\ kernel' = kernel /\ wanted' = wanted
      /\ tree' = tree /\ cache' = cache
  BY DEF ConfigureCached, Insmod, Requested
<1>2. /\ cache = Requested
      /\ \A p \in Parts : tree[p] = Requested
      /\ \A m \in Modules : loaded[m] \in {Absent, Requested}
      /\ loaded \in [Modules -> Build \cup {Absent}]
  BY DEF IInv, CacheTells, PlaceTells, Believing, ConfigureCached, TypeOK
<1>3. \A m \in Modules : loaded'[m] \in {Absent, Requested}
  BY <1>2 DEF ConfigureCached, Insmod, Modules, Parts
<1>4. CacheIsPast' /\ CacheTells'
  BY <1>1, <1>2, <1>3 DEF CacheIsPast, CacheTells, IInv
<1>5. pc' = "failed" \/ /\ pc = "configure_cached_installation" /\ pc' = "insmod_uvm"
                         /\ loaded'["nvidia"] # Absent
                     \/ /\ pc = "insmod_uvm" /\ pc' = "verify_nvidia_installation"
                         /\ loaded'["uvm"] # Absent /\ loaded'["nvidia"] = loaded["nvidia"]
  BY <1>2 DEF ConfigureCached, Insmod, CanLoad, Modules
<1>6. pc = "insmod_uvm" => loaded["nvidia"] # Absent
  BY DEF IInv, PlaceTells
<1> QED
  BY <1>1, <1>2, <1>4, <1>5, <1>6
  DEF PlaceTells, Installing, Believing, Verifying, Modules

LEMMA OnwardStep ==
  ASSUME IInv,
         DownloadKernelSrc \/ ConfigureDirs \/ DownloadInstaller
           \/ VerifyInstallation \/ UpdateHostLdCache
  PROVE  Moves /\ PlaceTells'
<1> USE DEF DownloadKernelSrc, ConfigureDirs, DownloadInstaller, VerifyInstallation,
            UpdateHostLdCache, Goto, Fails, nodeVars, containerVars
<1>1. Moves
  BY DEF Moves
<1>2. Requested' = Requested
  BY <1>1 DEF Moves, Requested
<1>3. \/ pc' = "failed"
      \/ /\ pc \in Installing
         /\ pc' \in {"configure_nvidia_installation_dirs", "download_nvidia_installer"}
      \/ pc \in Installing /\ pc' = "run_nvidia_installer" /\ left' = Parts
      \/ pc \in Verifying /\ pc' \in Verifying \ {"verify_nvidia_installation"}
  BY DEF Installing, Verifying
<1> QED
  BY <1>1, <1>2, <1>3 DEF IInv, Moves, PlaceTells, Installing, Believing, Verifying

LEMMA RestartStep ==
  ASSUME IInv, ~ Rollbacks, StartAgain \/ Kill \/ Boot \/ UpdateDaemonSet
  PROVE  CacheIsPast' /\ CacheTells' /\ PlaceTells'
<1>1. PlaceTells'
  BY DEF StartAgain, Kill, Boot, UpdateDaemonSet, NewContainer, PlaceTells,
     Installing, Believing, Verifying
<1>2. CASE StartAgain \/ Kill
  BY <1>1, <1>2, MovesCache DEF StartAgain, Kill, nodeVars, Moves
<1>3. TypeOK /\ CacheIsPast /\ CacheTells
  BY DEF IInv
<1>0. /\ kernel \in Nat /\ wanted \in Nat
      /\ cache \in Build => cache.kernel \in Nat /\ cache.driver \in Nat
  BY <1>3, InstallerAssumption DEF TypeOK, Build
<1>4. CASE Boot
  <2>1. kernel' \in Kernels /\ kernel' >= kernel /\ wanted' = wanted /\ cache' = cache
        /\ tree' = tree /\ \A m \in Modules : loaded'[m] = Absent
    BY <1>4 DEF Boot
  <2>2. CacheIsPast'
    <3>1. kernel' \in Nat /\ wanted' \in Nat
      BY <1>0, <2>1, InstallerAssumption
    <3> QED
      BY <1>0, <1>3, <2>1, <3>1 DEF CacheIsPast
  <2>3. cache = Requested' => kernel' = kernel
    BY <1>3, <2>1, InstallerAssumption DEF CacheIsPast, TypeOK, Build, Requested
  <2>4. CacheTells'
    BY <1>3, <2>1, <2>3 DEF CacheTells, Requested
  <2> QED
    BY <1>1, <2>2, <2>4
<1>5. CASE UpdateDaemonSet
  <2>1. wanted' \in Drivers /\ wanted' > wanted /\ kernel' = kernel /\ cache' = cache
    BY <1>5 DEF UpdateDaemonSet
  <2>2. CacheIsPast'
    <3>1. kernel' \in Nat /\ wanted' \in Nat
      BY <1>0, <2>1, InstallerAssumption
    <3> QED
      BY <1>0, <1>3, <2>1, <3>1 DEF CacheIsPast
  <2>3. cache # Requested'
    BY <1>3, <2>1, InstallerAssumption DEF CacheIsPast, TypeOK, Build, Requested
  <2>4. CacheTells'
    BY <2>1, <2>3 DEF CacheTells
  <2> QED
    BY <1>1, <2>2, <2>4
<1> QED
  BY <1>2, <1>4, <1>5

LEMMA InvStep == IInv /\ ~ Rollbacks /\ [Next]_vars => IInv'
<1> SUFFICES ASSUME IInv, ~ Rollbacks, [Next]_vars PROVE IInv'
  OBVIOUS
<1>1. TypeOK'
  BY TypeStep DEF IInv
<1>2. CASE UNCHANGED vars
  BY <1>1, <1>2 DEF IInv, vars, CacheIsPast, CacheTells, PlaceTells, Requested
<1>3. CASE CheckCachedVersion
  <2>1. Moves
    BY <1>3 DEF CheckCachedVersion, Goto, nodeVars, Moves
  <2> QED
    BY <1>1, <1>3, <2>1, CheckStep, MovesCache DEF IInv
<1>4. CASE DownloadKernelSrc \/ ConfigureDirs \/ DownloadInstaller
             \/ VerifyInstallation \/ UpdateHostLdCache
  BY <1>1, <1>4, OnwardStep, MovesCache DEF IInv
<1>5. CASE RunInstaller
  BY <1>1, <1>5, RunStep DEF IInv
<1>6. CASE OpenCacheFile \/ WriteCacheFile
  BY <1>1, <1>6, CacheFileStep DEF IInv
<1>7. CASE ConfigureCached
  BY <1>1, <1>7, ConfigureStep DEF IInv
<1>8. CASE StartAgain \/ Kill \/ Boot \/ UpdateDaemonSet
  BY <1>1, <1>8, RestartStep DEF IInv
<1> QED
  BY <1>2, <1>3, <1>4, <1>5, <1>6, <1>7, <1>8 DEF Next, Main

\* The cache file, the directory and the loaded modules agree at every step of
\* the script, whatever has been killed before, as long as neither kernel nor
\* driver go back to an older version.
THEOREM Invariance == ASSUME ~ Rollbacks PROVE Spec => []IInv
<1>1. IInv /\ [Next]_vars => IInv'
  BY InvStep
<1> QED
  BY <1>1, InvInit, PTL DEF Spec

\* When the script has succeeded, the node runs the driver asked for, built for
\* its kernel, whatever was killed in the middle of installing it or another.
THEOREM InstalledAsRequested == ASSUME ~ Rollbacks PROVE Spec => []RequestedDriverRuns
<1>1. IInv => RequestedDriverRuns
  <2> SUFFICES ASSUME IInv, pc = "done"
               PROVE  /\ \A m \in Modules : loaded[m] = Requested
                      /\ tree["libs"].driver = wanted
    BY DEF RequestedDriverRuns
  <2>1. cache = Requested /\ \A m \in Modules : loaded[m] # Absent
    BY DEF IInv, PlaceTells, Believing, Verifying
  <2> QED
    BY <2>1 DEF IInv, CacheTells, Parts, Requested
<1> QED
  BY <1>1, Invariance, PTL
=============================================================================
