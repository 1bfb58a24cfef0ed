------------------------------ MODULE Registry ------------------------------
(***************************************************************************)
(* The registry of components (src/src/ibusregistry.c, ibusobservedpath.c  *)
(* and the registry's part of src/bus/ibusimpl.c): the component files in  *)
(* one directory, what a daemon or "ibus write-cache" reads of them while  *)
(* they change, the caches that outlive them, and the test whether a cache *)
(* is outdated.                                                            *)
(*                                                                         *)
(* The version of a file is the time it was written, 0 without one.  No    *)
(* two changes are made within the second that mtime resolves.  On a       *)
(* frozen file system (ibusobservedpath.c:244) every mtime is the same.    *)
(***************************************************************************)
EXTENDS Naturals

CONSTANTS
  Files,     \* the *.xml files there may be in the component directory
  MaxClock   \* bound: the changes of files

ASSUME RegistryAssumption ==
  /\ MaxClock \in Nat \ {0}
  /\ Files \cap {"idle", "listed", "reading", "saved"} = {}

Times == 0..MaxClock
Readers == {"daemon", "tool"}

VARIABLES
  frozen,    \* mtimes do not change
  disk,      \* the version of each file
  changed,   \* mtime of the directory
  clock,     \* the time of the last change
  reader,    \* the registry each reader is loading
  cache,     \* the cache files: "system" and "user"
  service,   \* the daemon: "off", "start", "system", "load", "loadonly", "ready", "running"
  monitor,   \* of a running daemon: "on", "event", "timer", "fired"
  since      \* when the monitors started

diskVars == <<frozen, disk, changed, clock>>
daemonVars_ == <<service, monitor, since>>
registryVars == <<diskVars, reader, cache, daemonVars_>>

Versions == [Files -> Times]

(* A registry: its components by file, the mtimes of their files, and the  *)
(* observed directory with its mtime and file_hash_list.  For the          *)
(* properties: unread, the files written between parsing and stat; moved,  *)
(* files came or went meanwhile.                                           *)
Nothing ==
  [at |-> "idle", names |-> {}, dir |-> 0, open |-> {}, todo |-> {},
   component |-> [f \in Files |-> 0], mtime |-> [f \in Files |-> 0],
   unread |-> {}, moved |-> FALSE]

RegistryTypeOK ==
  /\ frozen \in BOOLEAN /\ disk \in Versions
  /\ changed \in Times /\ clock \in Times
  /\ \A x \in {reader[r] : r \in Readers} \cup {cache[k] : k \in DOMAIN cache} :
       /\ x.at \in {"idle", "listed", "reading", "saved"} \cup Files
       /\ x.names \subseteq Files /\ x.open \subseteq Files /\ x.todo \subseteq Files
       /\ x.component \in Versions /\ x.mtime \in Versions
  /\ service \in {"off", "start", "system", "load", "loadonly", "ready", "running"}
  /\ monitor \in {"off", "on", "event", "timer", "fired"}
  /\ since \in Times

RegistryInit ==
  /\ frozen \in BOOLEAN
  /\ disk \in [Files -> {0, 1}]
  /\ changed = 1 /\ clock = 1
  /\ reader = [r \in Readers |-> Nothing]
  /\ cache = [k \in {"system", "user"} |-> Nothing]
  /\ service = "off" /\ monitor = "off" /\ since = 0

-----------------------------------------------------------------------------
(* The file system. *)

Names == {f \in Files : disk[f] # 0}

Mtime(f) == IF frozen /\ disk[f] # 0 THEN 1 ELSE disk[f]

\* What the readers would have to notice.
Noticed(f, moves) ==
  [r \in Readers |->
     [reader[r] EXCEPT !.unread = IF reader[r].at = f THEN @ \cup {f} ELSE @,
                       !.moved = @ \/ (moves /\ reader[r].at # "idle")]]

\* A file is installed or replaced, removed, or written in place.
FileChanges(f) ==
  /\ clock < MaxClock
  /\ clock' = clock + 1
  /\ \E moves \in BOOLEAN, v \in {0, clock + 1} :
       /\ disk[f] = 0 => v # 0
       /\ disk[f] = 0 \/ v = 0 => moves
       /\ disk' = [disk EXCEPT ![f] = v]
       /\ changed' = IF moves /\ ~frozen THEN clock + 1 ELSE changed
       /\ reader' = Noticed(f, moves)
  /\ monitor' = IF monitor = "on" THEN "event" ELSE monitor
  /\ UNCHANGED <<frozen, cache, service, since>>

-----------------------------------------------------------------------------
(* ibus_registry_load by reader r. *)

\* Bound: one reader loads at a time, and the tool before a daemon has saved its
\* own cache: readers share nothing but the directory, and a daemon reads the
\* caches when it starts, each by itself.
\* g_dir_open, and the names of ibus_observed_path_new.
ListDirectory(r) ==
  /\ \A x \in Readers : reader[x].at = "idle"
  /\ IF r = "daemon" THEN service \in {"load", "loadonly"}
                     ELSE service = "off" /\ cache["user"] = Nothing
  /\ reader' = [reader EXCEPT ![r] = [Nothing EXCEPT !.at = "listed", !.names = Names,
                                                     !.open = Names]]
  /\ UNCHANGED <<diskVars, cache, daemonVars_>>

\* ... its ibus_observed_path_fill_stat comes last.
StatDirectory(r) ==
  /\ reader[r].at = "listed"
  /\ reader' = [reader EXCEPT ![r].at = "reading", ![r].dir = changed, ![r].todo = Files]
  /\ UNCHANGED <<diskVars, cache, daemonVars_>>

\* g_dir_read_name: a file that came after g_dir_open may be returned or not.
SkipFile(r, f) ==
  /\ reader[r].at = "reading" /\ f \in reader[r].todo
  /\ disk[f] = 0 \/ f \notin reader[r].open
  /\ reader' = [reader EXCEPT ![r].todo = @ \ {f}]
  /\ UNCHANGED <<diskVars, cache, daemonVars_>>

\* ibus_component_new_from_file parses the file first ...
ParseFile(r, f) ==
  /\ reader[r].at = "reading" /\ f \in reader[r].todo
  /\ disk[f] # 0
  /\ reader' = [reader EXCEPT ![r] = [reader[r] EXCEPT !.at = f, !.todo = @ \ {f},
                                                       !.component[f] = disk[f]]]
  /\ UNCHANGED <<diskVars, cache, daemonVars_>>

\* ... and makes its observed path then.
StatFile(r) ==
  /\ reader[r].at \in Files
  /\ LET f == reader[r].at
     IN reader' = [reader EXCEPT ![r] = [reader[r] EXCEPT !.at = "reading",
                                                          !.mtime[f] = Mtime(f)]]
  /\ UNCHANGED <<diskVars, cache, daemonVars_>>

\* ibus_registry_save_cache replaces the file.
Saved(k, x) == [cache EXCEPT ![k] = [x EXCEPT !.at = "saved", !.open = {}]]

Loaded(r) == reader[r].at = "reading" /\ reader[r].todo = {}

\* "ibus write-cache", with --system or without.
WriteCache ==
  /\ Loaded("tool")
  /\ \E k \in DOMAIN cache : cache' = Saved(k, reader["tool"])
  /\ reader' = [reader EXCEPT !["tool"] = Nothing]
  /\ UNCHANGED <<diskVars, daemonVars_>>

-----------------------------------------------------------------------------
(* The daemon. *)

\* MUTANT: the directory is judged by its mtime alone.
DirectoryByMtime(x) == x.dir = changed

\* ibus_observed_path_check_modification: the mtime and, if there were files, their
\* names.
DirectoryUnmodified(x) ==
  /\ x.dir = changed
  /\ x.names = {} \/ x.names = Names

\* ibus_registry_check_modification: the directory, and the file of each component.
Unmodified(x) ==
  /\ DirectoryUnmodified(x)
  /\ \A f \in Files : x.component[f] # 0 => x.mtime[f] = Mtime(f)

Usable(k) == cache[k].at = "saved" /\ Unmodified(cache[k])

\* g_cache: "auto", "refresh" or "none"
DaemonStart ==
  /\ service = "off"
  /\ service' \in {"start", "load", "loadonly"}
  /\ UNCHANGED <<diskVars, reader, cache, monitor, since>>

\* The system's cache, then the user's; each is read and tested at once.
TryCache ==
  /\ \/ service = "start" /\ service' = IF Usable("system") THEN "ready" ELSE "system"
     \/ service = "system" /\ service' = IF Usable("user") THEN "ready" ELSE "load"
  /\ UNCHANGED <<diskVars, reader, cache, monitor, since>>

DaemonLoaded ==
  /\ service \in {"load", "loadonly"} /\ Loaded("daemon")
  /\ service' = "ready"
  /\ cache' = IF service = "load" THEN Saved("user", reader["daemon"]) ELSE cache
  /\ reader' = [reader EXCEPT !["daemon"] = Nothing]
  /\ UNCHANGED <<diskVars, monitor, since>>

\* ibus_registry_start_monitor_changes
StartMonitorChanges ==
  /\ service = "ready"
  /\ service' = "running" /\ monitor' = "on" /\ since' = clock
  /\ UNCHANGED <<diskVars, reader, cache>>

\* MUTANT: the monitors are removed with the first change.
MonitorRemoved == monitor' = "off"

\* _monitor_changed_cb: successive changes share a timer.
TimerStarted == monitor' = "timer"

MonitorChanged ==
  /\ monitor = "event"
  /\ TimerStarted
  /\ UNCHANGED <<diskVars, reader, cache, service, since>>

\* _monitor_timeout_cb, RegistryChanged: the monitors are removed.
MonitorTimeout ==
  /\ monitor = "timer"
  /\ monitor' = "fired"
  /\ UNCHANGED <<diskVars, reader, cache, service, since>>

\* At any moment, also in the middle of loading.
DaemonEnds ==
  /\ service # "off"
  /\ service' = "off" /\ monitor' = "off" /\ since' = 0
  /\ reader' = [reader EXCEPT !["daemon"] = Nothing]
  /\ UNCHANGED <<diskVars, cache>>

RegistryNext ==
  \/ \E f \in Files : FileChanges(f)
  \/ \E r \in Readers : \/ ListDirectory(r) \/ StatDirectory(r) \/ StatFile(r)
                        \/ \E f \in Files : SkipFile(r, f) \/ ParseFile(r, f)
  \/ WriteCache
  \/ DaemonStart \/ TryCache \/ DaemonLoaded \/ StartMonitorChanges
  \/ MonitorChanged \/ MonitorTimeout \/ DaemonEnds

RegistrySpec == RegistryInit /\ [][RegistryNext]_registryVars

RegistryFairness == WF_registryVars(MonitorChanged) /\ WF_registryVars(MonitorTimeout)

-----------------------------------------------------------------------------
(***************************************************************************)
(* A cache that passes for up to date is: its components are the files     *)
(* there are, but for a file that was written after it was parsed and      *)
(* before its mtime was taken.  Where mtimes are frozen, files that came   *)
(* or went are noticed still, unless they did while the cache was made.    *)
(* A directory without files leaves no file_hash_list, so that what comes  *)
(* while it is read, or later where mtimes are frozen, is not noticed.     *)
(***************************************************************************)
CacheIsFresh ==
  \A k \in DOMAIN cache : Usable(k) =>
    LET x == cache[k]
    IN IF frozen
       THEN x.moved \/ x.names = {} \/ {f \in Files : x.component[f] # 0} = Names
       ELSE \/ x.moved /\ x.names = {}
            \/ \A f \in Files \ x.unread : x.component[f] = disk[f]

(***************************************************************************)
(* A running daemon announces that files have changed since it began to    *)
(* watch them.                                                             *)
(***************************************************************************)
ChangeAnnounced ==
  service = "running" /\ clock > since ~> monitor = "fired" \/ service # "running"

(***************************************************************************)
(* What leads to the announcement can happen: a change that a monitor has  *)
(* noticed is handled, and its timer fires.                                *)
(***************************************************************************)
MonitorsEnabled ==
  /\ monitor = "event" => ENABLED <<MonitorChanged>>_registryVars
  /\ monitor = "timer" => ENABLED <<MonitorTimeout>>_registryVars
=============================================================================
