-------------------------- MODULE DriverInstaller --------------------------
(***************************************************************************)
(* entrypoint.sh, the container that installs the NVIDIA driver on a node. *)
(* It runs before the pod of a DaemonSet starts, and again whenever it     *)
(* fails, is killed, the node boots or the DaemonSet asks for another      *)
(* driver.  What it has installed and a cache file, which says for which   *)
(* kernel and driver, are in a directory of the host and outlive it; the   *)
(* modules it loads live until the next boot.  "set -o errexit" and        *)
(* "set -u" end the script at the first command that fails.                *)
(***************************************************************************)
EXTENDS Naturals

CONSTANTS
  Kernels,    \* versions of the kernel, numbered as they come out
  Drivers,    \* versions of the driver, numbered as they come out
  Rollbacks,  \* whether older kernels and drivers may come back
  MaxKills,   \* bound: commands that fail, and kills of the container
  MaxBoots,   \* bound: boots after the first
  MaxUpdates, \* bound: changes of the driver that the DaemonSet asks for
  Absent      \* no file, or no module

Build  == [kernel : Kernels, driver : Drivers]
Truncated == [kernel |-> Absent, driver |-> Absent]

ASSUME InstallerAssumption ==
  /\ Kernels \subseteq Nat /\ Kernels # {} /\ Drivers \subseteq Nat /\ Drivers # {}
  /\ Rollbacks \in BOOLEAN
  /\ MaxKills \in Nat /\ MaxBoots \in Nat /\ MaxUpdates \in Nat
  /\ Absent \notin Kernels \cup Drivers \cup Build

\* What the installer puts into the directory: the two kernel modules, and the
\* libraries with the tools.
Modules == {"nvidia", "uvm"}
Parts   == Modules \cup {"libs"}

VARIABLES
  kernel,  \* the running kernel
  wanted,  \* NVIDIA_DRIVER_VERSION in the DaemonSet
  pc,      \* the function of main() that comes next
  cache,   \* the cache file; Truncated when it is there and empty
  tree,    \* for each part, the build it is of
  headers, \* whether the container has the headers of the running kernel
  left,    \* the parts that the running installer has still to write
  loaded,  \* the kernel modules that are loaded
  kills, boots, updates

vars == <<kernel, wanted, pc, cache, tree, headers, left, loaded, kills, boots, updates>>
nodeVars == <<kernel, wanted, boots, updates>>
containerVars == <<headers, left>>

Labels == {"check_cached_version", "download_kernel_src",
           "configure_nvidia_installation_dirs", "download_nvidia_installer",
           "run_nvidia_installer", "open_cache_file", "write_cache_file",
           "configure_cached_installation", "insmod_uvm",
           "verify_nvidia_installation", "update_host_ld_cache", "failed", "done"}

TypeOK ==
  /\ kernel \in Kernels /\ wanted \in Drivers
  /\ pc \in Labels
  /\ cache \in Build \cup {Absent, Truncated}
  /\ tree \in [Parts -> Build \cup {Absent}]
  /\ headers \in BOOLEAN /\ left \subseteq Parts
  /\ loaded \in [Modules -> Build \cup {Absent}]
  /\ kills \in Nat /\ boots \in Nat /\ updates \in Nat

Init ==
  /\ kernel \in Kernels /\ wanted \in Drivers
  /\ pc = "check_cached_version"
  /\ cache = Absent /\ tree = [p \in Parts |-> Absent]
  /\ headers = FALSE /\ left = {}
  /\ loaded = [m \in Modules |-> Absent]
  /\ kills = 0 /\ boots = 0 /\ updates = 0

\* KERNEL_VERSION and NVIDIA_DRIVER_VERSION: a container lives neither through a
\* boot nor through an update of the DaemonSet.
Requested == [kernel |-> kernel, driver |-> wanted]
-----------------------------------------------------------------------------
(* The steps of main() *)

Goto(to) == pc' = to /\ UNCHANGED <<nodeVars, kills>>

\* A command fails for a reason of its own, and with it the script.
Fails == /\ kills < MaxKills /\ kills' = kills + 1
         /\ pc' = "failed" /\ UNCHANGED nodeVars

\* Mutants of Found: one of the versions is not compared.
FoundDriver(c) == c.driver = wanted
FoundKernel(c) == c.kernel = kernel

Found(c) == c.kernel = kernel /\ c.driver = wanted

\* The variables that an empty file does not set are unbound.
CheckCachedVersion ==
  /\ pc = "check_cached_version"
  /\ \/ cache = Absent /\ Goto("download_kernel_src")
     \/ cache = Truncated /\ Goto("failed")
     \/ /\ cache \in Build
        /\ Goto(IF Found(cache) THEN "configure_cached_installation"
                ELSE "download_kernel_src")
  /\ UNCHANGED <<cache, tree, containerVars, loaded>>

\* A failing "apt-get update" is not the last command of its && list, and does
\* not end the script: it goes on without headers.
DownloadKernelSrc ==
  /\ pc = "download_kernel_src"
  /\ \/ headers' = TRUE /\ Goto("configure_nvidia_installation_dirs")
     \/ headers' = FALSE /\ kills < MaxKills /\ kills' = kills + 1
        /\ pc' = "configure_nvidia_installation_dirs" /\ UNCHANGED nodeVars
     \/ headers' = FALSE /\ Fails
  /\ UNCHANGED <<cache, tree, left, loaded>>

\* Overlays over directories of the container, whose upper layers are in the
\* directory of the host.
ConfigureDirs ==
  /\ pc = "configure_nvidia_installation_dirs"
  /\ Goto("download_nvidia_installer") \/ Fails
  /\ UNCHANGED <<cache, tree, containerVars, loaded>>

DownloadInstaller ==
  /\ pc = "download_nvidia_installer"
  /\ \/ left' = Parts /\ Goto("run_nvidia_installer")
     \/ left' = left /\ Fails
  /\ UNCHANGED <<cache, tree, headers, loaded>>

\* Without headers there is nothing to build the modules with.  With them, the
\* parts are written one after the other, and the modules are loaded in the end.
RunInstaller ==
  /\ pc = "run_nvidia_installer"
  /\ \/ /\ headers
        /\ \E p \in left :
             /\ tree' = [tree EXCEPT ![p] = Requested]
             /\ left' = left \ {p}
        /\ Goto("run_nvidia_installer") /\ UNCHANGED loaded
     \/ /\ left = {}
        /\ loaded' = [m \in Modules |-> tree[m]]
        /\ Goto("open_cache_file") /\ UNCHANGED <<tree, left>>
     \/ ~ headers /\ Goto("failed") /\ UNCHANGED <<tree, left, loaded>>
     \/ Fails /\ UNCHANGED <<tree, left, loaded>>
  /\ UNCHANGED <<cache, headers>>

\* update_cached_version: the shell opens the file, which empties it, and then
\* runs the command that writes it.
OpenCacheFile ==
  /\ pc = "open_cache_file"
  /\ cache' = Truncated
  /\ Goto("write_cache_file")
  /\ UNCHANGED <<tree, containerVars, loaded>>

\* Mutant of WriteCacheFile: the kernel is left out.
WriteDriverOnly ==
  /\ pc = "write_cache_file"
  /\ cache' = [driver |-> wanted]
  /\ Goto("verify_nvidia_installation")
  /\ UNCHANGED <<tree, containerVars, loaded>>

WriteCacheFile ==
  /\ pc = "write_cache_file"
  /\ cache' = Requested
  /\ Goto("verify_nvidia_installation")
  /\ UNCHANGED <<tree, containerVars, loaded>>

\* insmod takes a module that was built for the running kernel and, as for uvm,
\* for the module it builds on.
CanLoad(m) ==
  /\ tree[m] # Absent /\ tree[m].kernel = kernel
  /\ m = "uvm" => /\ loaded["nvidia"] # Absent
                  /\ loaded["nvidia"].driver = tree[m].driver

\* A module is loaded only if none of its name is.
Insmod(m, next) ==
  \/ loaded[m] # Absent /\ Goto(next) /\ UNCHANGED loaded
  \/ /\ loaded[m] = Absent /\ CanLoad(m)
     /\ loaded' = [loaded EXCEPT ![m] = tree[m]]
     /\ Goto(next)
  \/ loaded[m] = Absent /\ ~ CanLoad(m) /\ Goto("failed") /\ UNCHANGED loaded
  \/ Fails /\ UNCHANGED loaded

ConfigureCached ==
  /\ \/ pc = "configure_cached_installation" /\ Insmod("nvidia", "insmod_uvm")
     \/ pc = "insmod_uvm" /\ Insmod("uvm", "verify_nvidia_installation")
  /\ UNCHANGED <<cache, tree, containerVars>>

\* nvidia-smi fails when there are no libraries, no module, or when their
\* versions differ; nvidia-modprobe when uvm is not there.
Verifies ==
  /\ loaded["nvidia"] # Absent /\ loaded["uvm"] # Absent /\ tree["libs"] # Absent
  /\ loaded["nvidia"].driver = tree["libs"].driver

VerifyInstallation ==
  /\ pc = "verify_nvidia_installation"
  /\ \/ Goto(IF Verifies THEN "update_host_ld_cache" ELSE "failed")
     \/ Fails
  /\ UNCHANGED <<cache, tree, containerVars, loaded>>

UpdateHostLdCache ==
  /\ pc = "update_host_ld_cache"
  /\ Goto("done") \/ Fails
  /\ UNCHANGED <<cache, tree, containerVars, loaded>>

-----------------------------------------------------------------------------
(* The kubelet, the node and the administrators *)

\* A new container starts with nothing of its own.
NewContainer == pc' = "check_cached_version" /\ headers' = FALSE /\ left' = {}

\* The kubelet starts an init container that failed again.
StartAgain ==
  /\ pc = "failed" /\ NewContainer
  /\ UNCHANGED <<nodeVars, kills, cache, tree, loaded>>

Kill ==
  /\ pc \notin {"failed", "done"}
  /\ kills < MaxKills /\ kills' = kills + 1
  /\ NewContainer
  /\ UNCHANGED <<nodeVars, cache, tree, loaded>>

\* The node boots, perhaps with a new kernel; pods are set up again.
Boot ==
  /\ boots < MaxBoots /\ boots' = boots + 1
  /\ kernel' \in {k \in Kernels : Rollbacks \/ k >= kernel}
  /\ loaded' = [m \in Modules |-> Absent]
  /\ NewContainer
  /\ UNCHANGED <<wanted, cache, tree, kills, updates>>

\* The DaemonSet gets another NVIDIA_DRIVER_VERSION, and its pod is replaced.
UpdateDaemonSet ==
  /\ updates < MaxUpdates /\ updates' = updates + 1
  /\ wanted' \in {d \in Drivers : Rollbacks \/ d > wanted}
  /\ NewContainer
  /\ UNCHANGED <<kernel, cache, tree, loaded, kills, boots>>

-----------------------------------------------------------------------------
Main ==
  \/ CheckCachedVersion \/ DownloadKernelSrc \/ ConfigureDirs
  \/ DownloadInstaller \/ RunInstaller \/ OpenCacheFile \/ WriteCacheFile
  \/ ConfigureCached \/ VerifyInstallation \/ UpdateHostLdCache

Next == Main \/ StartAgain \/ Kill \/ Boot \/ UpdateDaemonSet

Spec == Init /\ [][Next]_vars

\* The script goes on, and the kubelet starts it again, as its pods' restart
\* policy says.
FairSpec == Spec /\ WF_vars(Main) /\ WF_vars(StartAgain)

-----------------------------------------------------------------------------
(* Properties *)

\* When the script has succeeded, the node runs the driver that was asked for,
\* built for its kernel, with the libraries of the same version: whatever was
\* killed in the middle of installing it or another one before, and although a
\* cached installation is believed unseen and a loaded module by its name.
RequestedDriverRuns ==
  pc = "done" =>
    /\ \A m \in Modules : loaded[m] = Requested
    /\ tree["libs"].driver = wanted

\* Unless a kill leaves the cache file empty, the driver gets installed in the
\* end, from whatever state failures and kills have left the directory in.
GetsInstalled == ([](pc = "check_cached_version" => cache # Truncated)) => <>[](pc = "done")
=============================================================================
