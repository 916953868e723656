---------------------------- MODULE SkillsWatch ----------------------------
(***************************************************************************)
(* Watching files for changes.  internal/skills/watcher.go: fsnotify on    *)
(* the directories that exist when it starts, with a debounce timer, or a  *)
(* fingerprint of every SKILL.md at each interval; cmdServe's callback     *)
(* loads the skills into a registry of its own.  internal/gateway/         *)
(* reload.go: the poller of one configuration file.  A file is the version *)
(* of its content, 0 when it is gone; both compare what Stat tells.        *)
(***************************************************************************)
EXTENDS Naturals, FiniteSets

CONSTANTS
  SwDirs,      \* directories a skill may live in, directly under the root
  SwModes,     \* the ways of watching tried: a subset of {"events", "poll", "file"}
  SwChanges    \* bound on the changes made

ASSUME SwAssumption == SwModes \subseteq {"events", "poll", "file"} /\ SwChanges \in Nat

VARIABLES
  swMode,     \* how the files are watched
  swFiles,    \* [SwDirs -> the version of its file]
  swMade,     \* the directories that exist
  swWatched,  \* the directories fsnotify watches
  swEvents,   \* directories with an event that nobody has read
  swTimer,    \* the debounce timer is armed
  swPrev,     \* the fingerprints compared against, or [d |-> 0] before the first
  swOn,       \* "new", "loaded", "on"
  swMissed,   \* ghost: directories changed after they were loaded and before they were watched
  swLoaded,   \* what the callback loaded last
  swCount     \* changes so far, which number the versions

swVars == <<swMode, swFiles, swMade, swWatched, swEvents, swTimer, swPrev, swOn, swMissed, swLoaded, swCount>>

SwInit ==
  /\ swMode \in SwModes
  /\ swMade \in SUBSET SwDirs
  /\ swFiles = [d \in SwDirs |-> 0]
  /\ swWatched = {} /\ swEvents = {} /\ swTimer = FALSE /\ swPrev = swFiles /\ swOn = "new" /\ swMissed = {}
  /\ swLoaded = swFiles /\ swCount = 0

\* The user makes a directory, writes a skill, removes one.
SwMakeDir(d) ==
  /\ d \notin swMade
  /\ swMade' = swMade \union {d}
  /\ UNCHANGED <<swMode, swFiles, swWatched, swEvents, swTimer, swPrev, swOn, swMissed, swLoaded, swCount>>

SwChange(d) ==
  /\ d \in swMade /\ swCount < SwChanges
  /\ swCount' = swCount + 1
  /\ \E v \in {swCount', 0} \ {swFiles[d]} : swFiles' = [swFiles EXCEPT ![d] = v]
  /\ swEvents' = IF d \in swWatched THEN swEvents \union {d} ELSE swEvents
  /\ swMissed' = IF swOn = "loaded" THEN swMissed \union {d} ELSE swMissed \ {d}
  /\ UNCHANGED <<swMode, swMade, swWatched, swTimer, swPrev, swOn, swLoaded>>

\* bootstrap loads the skills and builds the tools and the prompt from them.
SwFound == {d \in swMade : swFiles[d] # 0}

SwLoad ==
  /\ swOn = "new"
  /\ swOn' = "loaded"
  /\ swLoaded' = swFiles
  /\ UNCHANGED <<swMode, swFiles, swMade, swWatched, swEvents, swTimer, swPrev, swMissed, swCount>>

\* The watcher starts: it watches the root and the directories of the skills it
\* finds (and polls when it can watch none), or takes its first fingerprints.
SwStart ==
  /\ swOn = "loaded"
  /\ swOn' = "on"
  /\ swPrev' = swFiles
  /\ swWatched' = IF swMode = "events" THEN SwFound ELSE {}
  /\ UNCHANGED <<swMode, swFiles, swMade, swEvents, swTimer, swMissed, swLoaded, swCount>>

\* One event of a SKILL.md arms the timer anew.  The events of a new directory are
\* those of the root, named after the directory and so not a skill's: they are
\* dropped before the directory could be watched.
SwArm == TRUE

SwEvent ==
  /\ swOn = "on" /\ swMode = "events" /\ swEvents # {}
  /\ \E d \in swEvents : swEvents' = swEvents \ {d}
  /\ swTimer' = SwArm
  /\ UNCHANGED <<swMode, swFiles, swMade, swWatched, swPrev, swOn, swMissed, swLoaded, swCount>>

\* The callback: a new registry, loaded from the files, and dropped.
SwReload ==
  /\ swLoaded' = swFiles

SwFire ==
  /\ swTimer
  /\ swTimer' = FALSE
  /\ SwReload
  /\ UNCHANGED <<swMode, swFiles, swMade, swWatched, swEvents, swPrev, swOn, swMissed, swCount>>

\* A poll compares, remembers and calls back, in this order.
SwPoll ==
  /\ swOn = "on" /\ swMode \in {"poll", "file"} /\ swFiles # swPrev
  /\ swPrev' = swFiles
  /\ SwReload
  /\ UNCHANGED <<swMode, swFiles, swMade, swWatched, swEvents, swTimer, swOn, swMissed, swCount>>

SwWatcher == SwEvent \/ SwFire \/ SwPoll
SwNext == SwLoad \/ SwStart \/ SwWatcher \/ \E d \in SwDirs : SwMakeDir(d) \/ SwChange(d)

\* An event that was delivered and a timer or ticker that ran out are served.
SwSpec == SwInit /\ [][SwNext]_swVars /\ WF_swVars(SwEvent) /\ WF_swVars(SwFire \/ SwPoll)

-----------------------------------------------------------------------------
SwTypeOK ==
  LET versions == [SwDirs -> 0..SwChanges] IN
  /\ swMode \in SwModes /\ swMade \subseteq SwDirs /\ swWatched \subseteq SwDirs /\ swEvents \subseteq SwDirs
  /\ swFiles \in versions /\ swPrev \in versions /\ swLoaded \in versions
  /\ swTimer \in BOOLEAN /\ swOn \in {"new", "loaded", "on"} /\ swMissed \subseteq SwDirs /\ swCount \in 0..SwChanges

\* A change the watcher must load in the end: of any skill when the files are
\* polled, of those in a watched directory when events are.  Only a change that
\* falls between loading and watching waits for the next one.
SwSeen(d) == d \notin swMissed /\ swOn = "on" /\ (swMode # "events" \/ d \in swWatched)
SwBehind(d) == SwSeen(d) /\ swLoaded[d] # swFiles[d]
=============================================================================
