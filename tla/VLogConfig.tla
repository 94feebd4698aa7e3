----------------------------- MODULE VLogConfig -----------------------------
(***************************************************************************)
(* The levels of VKLOG sites (turbo/log/internal/vlog_config.cc).  A site  *)
(* that is used for the first time puts itself on a list and takes its     *)
(* level from the configuration; whoever changes the configuration then    *)
(* stores the new level in every site of the list.  The list and the       *)
(* levels are atomics without a lock, the configuration is under `mutex`,  *)
(* updates of the sites are under the mutex of GetUpdateSitesMutex().      *)
(*                                                                         *)
(* A module pattern is a file or "*".  Every atomic access is a step.      *)
(***************************************************************************)
EXTENDS Integers, SequencesExt

CONSTANTS
  Loggers,       \* threads that use sites and change the configuration
  Sites, Files,
  FileOf,        \* the file of each site
  Levels,        \* levels that are configured
  None,          \* nullptr, and no thread
  MaxUpdates     \* bound: changes of the configuration

VARIABLES
  global_v, vmodule_info,     \* the configuration
  mutex, update_sites,        \* the threads that hold the two locks
  site_list_head, next, v,    \* the list and, per site, next_ and v_
  at,                         \* per thread: its place
  site,                       \* per thread: v in RegisterAndInitialize, n in UpdateVLogSites
  h,                          \* per thread: h in RegisterAndInitialize
  level,                      \* per thread: new_v
  snapshot,                   \* per thread: infos and current_global_v in UpdateVLogSites
  updates,                    \* changes made
  crowded                     \* history: sites that two threads registered at a time

vars == <<global_v, vmodule_info, mutex, update_sites, site_list_head, next, v, at, site, h,
          level, snapshot, updates, crowded>>

kUninitialized == 99
kUseFlag == -99

\* A program of one file, as FileOf.
OneFile == [s \in Sites |-> "file"]

Patterns == Files \cup {"*"}
FNMatch(pattern, string) == pattern \in {"*", string}

\* VLogLevel with the configuration c: the first pattern that matches decides.
VLogLevel(file, c) ==
  LET first == SelectInSeq(c.infos, LAMBDA info : FNMatch(info.pattern, file))
  IN  IF first = 0 \/ c.infos[first].level = kUseFlag THEN c.global_v
      ELSE c.infos[first].level

Config == [infos |-> vmodule_info, global_v |-> global_v]

Init ==
  /\ global_v = 0 /\ vmodule_info = <<>>
  /\ mutex = None /\ update_sites = None
  /\ site_list_head = None /\ next = [s \in Sites |-> None]
  /\ v = [s \in Sites |-> kUninitialized]
  /\ at = [t \in Loggers |-> "idle"] /\ site = [t \in Loggers |-> None]
  /\ h = [t \in Loggers |-> None] /\ level = [t \in Loggers |-> 0]
  /\ snapshot = [t \in Loggers |-> None]
  /\ updates = 0 /\ crowded = {}

Goto(t, place) == at' = [at EXCEPT ![t] = place]
Registering(t) == at[t] \in {"head", "link", "install", "relink", "level", "set"}

config_ == <<global_v, vmodule_info, mutex, update_sites, snapshot, updates>>

-----------------------------------------------------------------------------
(* IsEnabled, and RegisterAndInitialize when the site is not initialized yet *)

\* An initialized site answers at once and changes nothing.
IsEnabled(t, s) ==
  /\ at[t] = "idle" /\ v[s] = kUninitialized
  /\ site' = [site EXCEPT ![t] = s]
  /\ Goto(t, "head")
  /\ crowded' = crowded \cup {s : u \in {u \in Loggers \ {t} : Registering(u) /\ site[u] = s}}
  /\ UNCHANGED <<config_, site_list_head, next, v, h, level>>

LoadHead(t) ==
  /\ at[t] = "head"
  /\ h' = [h EXCEPT ![t] = site_list_head]
  /\ Goto(t, "link")
  /\ UNCHANGED <<config_, site_list_head, next, v, site, level, crowded>>

\* Whoever sets next_ installs the site.
Link(t) ==
  /\ at[t] = "link"
  /\ IF next[site[t]] = None
     THEN next' = [next EXCEPT ![site[t]] = h[t]] /\ Goto(t, "install")
     ELSE UNCHANGED next /\ Goto(t, "level")
  /\ UNCHANGED <<config_, site_list_head, v, site, h, level, crowded>>

\* A spurious failure of the weak compare-exchange only stores next_ once more.
Install(t) ==
  /\ at[t] = "install"
  /\ IF site_list_head = h[t]
     THEN site_list_head' = site[t] /\ UNCHANGED h /\ Goto(t, "level")
     ELSE h' = [h EXCEPT ![t] = site_list_head] /\ UNCHANGED site_list_head /\ Goto(t, "relink")
  /\ UNCHANGED <<config_, next, v, site, level, crowded>>

Relink(t) ==
  /\ at[t] = "relink"
  /\ next' = [next EXCEPT ![site[t]] = h[t]]
  /\ Goto(t, "install")
  /\ UNCHANGED <<config_, site_list_head, v, site, h, level, crowded>>

\* VLogLevel(v->file_), under mutex.
GetLevel(t) ==
  /\ at[t] = "level" /\ mutex = None
  /\ level' = [level EXCEPT ![t] = VLogLevel(FileOf[site[t]], Config)]
  /\ Goto(t, "set")
  /\ UNCHANGED <<config_, site_list_head, next, v, site, h, crowded>>

\* What an update has stored in the meantime stays.
SetLevel(t) ==
  /\ at[t] = "set"
  /\ v' = IF v[site[t]] = kUninitialized THEN [v EXCEPT ![site[t]] = level[t]] ELSE v
  /\ site' = [site EXCEPT ![t] = None] /\ h' = [h EXCEPT ![t] = None]
  /\ level' = [level EXCEPT ![t] = 0]
  /\ Goto(t, "idle")
  /\ UNCHANGED <<config_, site_list_head, next, crowded>>

-----------------------------------------------------------------------------
(* Changes of the configuration; mutex is held until UpdateVLogSites lets go of it *)

\* AppendVModuleLocked: a pattern that an earlier one covers is not stored.
AppendVModuleLocked(infos, info) ==
  IF \E i \in DOMAIN infos : FNMatch(infos[i].pattern, info.pattern) THEN infos
  ELSE Append(infos, info)

\* PrependVModuleLocked: patterns that match the new one are dropped.
PrependVModuleLocked(infos, info) ==
  <<info>> \o SelectSeq(infos, LAMBDA i : ~FNMatch(i.pattern, info.pattern))

ModuleInfos == [pattern : Patterns, level : Levels \cup {kUseFlag}]

\* Under mutex: the change, and the copy UpdateVLogSites makes of the configuration.
Change(t, infos, global) ==
  /\ at[t] = "idle" /\ mutex = None
  /\ updates < MaxUpdates /\ updates' = updates + 1
  /\ mutex' = t
  /\ vmodule_info' = infos /\ global_v' = global
  /\ snapshot' = [snapshot EXCEPT ![t] = Config']
  /\ Goto(t, "grab")
  /\ UNCHANGED <<update_sites, site_list_head, next, v, site, h, level, crowded>>

UpdateVModule(t) ==
  \E a, b \in ModuleInfos : \E glob_levels \in {<<>>, <<a>>, <<a, b>>} :
    Change(t, FoldLeft(AppendVModuleLocked, <<>>, glob_levels), global_v)

\* Nothing happens when the level is what it was.
UpdateGlobalVLogLevel(t) == \E l \in Levels \ {global_v} : Change(t, vmodule_info, l)

PrependVModule(t) ==
  \E info \in ModuleInfos : Change(t, PrependVModuleLocked(vmodule_info, info), global_v)

\* (wrong) releases mutex before it has the other
GrabLate(t) ==
  \/ /\ at[t] = "grab" /\ mutex = t
     /\ mutex' = None
     /\ UNCHANGED <<at, update_sites>>
     /\ UNCHANGED <<global_v, vmodule_info, site_list_head, next, v, site, h, level, snapshot, updates, crowded>>
  \/ /\ at[t] = "grab" /\ mutex # t /\ update_sites = None
     /\ update_sites' = t
     /\ Goto(t, "load")
     /\ UNCHANGED <<mutex, global_v, vmodule_info, site_list_head, next, v, site, h, level, snapshot, updates, crowded>>

\* UpdateVLogSites takes its own mutex before it releases the other.
Grab(t) ==
  /\ at[t] = "grab" /\ update_sites = None
  /\ update_sites' = t /\ mutex' = None
  /\ Goto(t, "load")
  /\ UNCHANGED <<global_v, vmodule_info, site_list_head, next, v, site, h, level, snapshot, updates, crowded>>

LoadList(t) ==
  /\ at[t] = "load"
  /\ site' = [site EXCEPT ![t] = site_list_head]
  /\ Goto(t, "store")
  /\ UNCHANGED <<config_, site_list_head, next, v, h, level, crowded>>

Store(t) ==
  /\ at[t] = "store" /\ site[t] # None
  /\ v' = [v EXCEPT ![site[t]] = VLogLevel(FileOf[site[t]], snapshot[t])]
  /\ Goto(t, "next")
  /\ UNCHANGED <<config_, site_list_head, next, site, h, level, crowded>>

LoadNext(t) ==
  /\ at[t] = "next"
  /\ site' = [site EXCEPT ![t] = next[site[t]]]
  /\ Goto(t, "store")
  /\ UNCHANGED <<config_, site_list_head, next, v, h, level, crowded>>

Updated(t) ==
  /\ at[t] = "store" /\ site[t] = None
  /\ update_sites' = None
  /\ snapshot' = [snapshot EXCEPT ![t] = None]
  /\ Goto(t, "idle")
  /\ UNCHANGED <<global_v, vmodule_info, mutex, site_list_head, next, v, site, h, level, updates, crowded>>

-----------------------------------------------------------------------------
Step(t) ==
  \/ LoadHead(t) \/ Link(t) \/ Install(t) \/ Relink(t) \/ GetLevel(t) \/ SetLevel(t)
  \/ Grab(t) \/ LoadList(t) \/ Store(t) \/ LoadNext(t) \/ Updated(t)

Next == \E t \in Loggers :
  \/ Step(t) \/ \E s \in Sites : IsEnabled(t, s)
  \/ UpdateVModule(t) \/ UpdateGlobalVLogLevel(t) \/ PrependVModule(t)

Spec == Init /\ [][Next]_vars

-----------------------------------------------------------------------------
Fresh(s) == v[s] \in {kUninitialized, VLogLevel(FileOf[s], Config)}

\* "`v` itself will always arrive at the freshest value" (vlog_config.cc:242): when nothing
\* is under way a site that is initialized has the level of the configuration.
FreshestValue == (\A t \in Loggers : at[t] = "idle") => \A s \in Sites : Fresh(s)

\* That is so of every site whose first use was in one thread, as soon as no update is
\* under way, however registrations and changes interleave.
FreshUnlessCrowded == update_sites = None /\ mutex = None => \A s \in Sites \ crowded : Fresh(s)

\* "this thread commits to being *the* thread that installs `v` in the list"
\* (vlog_config.cc:231): a site is on the list once, so that the list has no circle.
InstalledOnce == \A S \in SUBSET Sites : S # {} => \E s \in S : next[s] \notin S
=============================================================================
