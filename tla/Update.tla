------------------------------- MODULE Update -------------------------------
(***************************************************************************)
(* internal/update/update.go under cmdUpdate of cmd/nimbus-one: look the   *)
(* release up, ask, copy the data directory, look it up again, download to *)
(* <binary>.new, and rename that over the binary.  Releases are published  *)
(* and withdrawn meanwhile, the data directory is in use, a command can be *)
(* killed at any point, and two commands can run at once: they share the   *)
(* name <binary>.new and, while one rewrites what the other has open, the  *)
(* file itself.  The backup directory is named by the second: one that is  *)
(* there already is passed over, but two commands that look before either  *)
(* has made it share it, too.  A file is copied in chunks, and whoever     *)
(* uses the data directory may write between them.                         *)
(*                                                                         *)
(* A file of the binary's directory is an inode; the n-th command that     *)
(* creates one makes inode n, and inode 0 is the binary installed first.   *)
(* Versions are numbered as they were published; a tag is the sequence of  *)
(* its numeric components, empty when it cannot be parsed.                 *)
(***************************************************************************)
EXTENDS Integers, Sequences

CONSTANTS Updaters,     \* processes that execute the update command
          DataFiles,    \* files of the data directory
          Published,    \* the tags of the versions, in the order they were published
          Chunks,       \* io.Copy takes a file in this many chunks
          MaxUpdates,   \* bound: commands begun
          MaxWrites     \* bound: changes of a data file

ASSUME TagsAreNumbers   == Published \in Seq(Seq(Nat)) /\ Published # <<>>
ASSUME UpdateBounds     == MaxUpdates \in Nat /\ MaxWrites \in Nat /\ Chunks \in Nat \ {0}

VARIABLES upPc,       \* updater |-> where it is in cmdUpdate
          upCurrent,  \* updater |-> the version it runs
          upTag,      \* updater |-> the release it is installing
          upDir,      \* updater |-> the directory of its backup, or NoDir
          upDone,     \* updater |-> data file |-> chunks of it copied
          upBack,     \* directory |-> data file |-> chunk |-> the content it is of, or Missing
          upShared,   \* two commands have named the same directory (history)
          upFrom,     \* updater |-> data file |-> its content when the backup began (history)
          upOpen,     \* updater |-> the inode it writes, or has written
          upBegun,    \* commands begun
          upLatest,   \* the latest release, or NoVersion when its tag cannot be parsed
          upData,     \* data file |-> its content, counted by changes
          upFile,     \* inode |-> [ver, part], its content
          upBin,      \* the inode of the binary
          upNew,      \* the inode of <binary>.new, or NoInode
          upMade,     \* inodes made
          upOverlap   \* two commands have been downloading at once (history)

upVars == <<upPc, upCurrent, upTag, upDir, upDone, upBack, upShared, upFrom, upOpen,
            upBegun, upLatest, upData, upFile, upBin, upNew, upMade, upOverlap>>

Versions  == DOMAIN Published
First     == 1
NoVersion == 0
Inodes    == 0..MaxUpdates
NoInode   == MaxUpdates + 1
Contents  == 0..MaxWrites
Missing   == MaxWrites + 1
Dirs      == 1..MaxUpdates   \* a directory nobody writes any more leaves its number to another
NoDir     == 0
Parts     == {"empty", "part", "small", "whole", "mixed"}

UpTypeOK ==
  /\ upPc      \in [Updaters -> {"idle", "check", "ask", "mkdir", "backup", "recheck", "open", "download", "verify", "swap"}]
  /\ upCurrent \in [Updaters -> Versions]
  /\ upTag     \in [Updaters -> Versions]
  /\ upDir     \in [Updaters -> Dirs \cup {NoDir}]
  /\ upDone    \in [Updaters -> [DataFiles -> 0..Chunks]]
  /\ upBack    \in [Dirs -> [DataFiles -> [1..Chunks -> Contents \cup {Missing}]]]
  /\ upShared  \in BOOLEAN
  /\ upFrom    \in [Updaters -> [DataFiles -> Contents]]
  /\ upOpen    \in [Updaters -> Inodes \cup {NoInode}]
  /\ upBegun   \in 0..MaxUpdates
  /\ upLatest  \in Versions \cup {NoVersion}
  /\ upData    \in [DataFiles -> Contents]
  /\ upFile    \in [Inodes -> [ver : Versions, part : Parts]]
  /\ upBin     \in Inodes
  /\ upNew     \in Inodes \cup {NoInode}
  /\ upMade    \in Inodes
  /\ upOverlap \in BOOLEAN

Unmade == [f \in DataFiles |-> [c \in 1..Chunks |-> Missing]]

UpInit ==
  /\ upPc      = [u \in Updaters |-> "idle"]
  /\ upCurrent = [u \in Updaters |-> First]
  /\ upTag     = [u \in Updaters |-> First]
  /\ upDir     = [u \in Updaters |-> NoDir]
  /\ upDone    = [u \in Updaters |-> [f \in DataFiles |-> 0]]
  /\ upBack    = [d \in Dirs |-> Unmade]
  /\ upShared  = FALSE
  /\ upFrom    = [u \in Updaters |-> [f \in DataFiles |-> 0]]
  /\ upOpen    = [u \in Updaters |-> NoInode]
  /\ upBegun   = 0
  /\ upLatest  = First
  /\ upData    = [f \in DataFiles |-> 0]
  /\ upFile    = [i \in Inodes |-> [ver |-> First, part |-> IF i = 0 THEN "whole" ELSE "empty"]]
  /\ upBin     = 0
  /\ upNew     = NoInode
  /\ upMade    = 0
  /\ upOverlap = FALSE

----------------------------------------------------------------------------
dirVars   == <<upFile, upBin, upNew, upMade, upOverlap>>
worldVars == <<upBegun, upLatest, upData>>
copyVars  == <<upDir, upDone, upBack, upShared, upFrom>>

UpGo(u, pc) == upPc' = [upPc EXCEPT ![u] = pc]

UsedByOther(u, d) == \E v \in Updaters \ {u} : upDir[v] = d

\* The command is over, with whatever message, or killed; its backup stays.
UpOver(u) ==
  /\ UpGo(u, "idle")
  /\ upOpen'    = [upOpen EXCEPT ![u] = NoInode]
  /\ upCurrent' = [upCurrent EXCEPT ![u] = First]
  /\ upTag'     = [upTag EXCEPT ![u] = First]
  /\ upDir'     = [upDir EXCEPT ![u] = NoDir]
  /\ upDone'    = [upDone EXCEPT ![u] = [f \in DataFiles |-> 0]]
  /\ upBack'    = [d \in Dirs |-> IF UsedByOther(u, d) THEN upBack[d] ELSE Unmade]
  /\ upFrom'    = [upFrom EXCEPT ![u] = [f \in DataFiles |-> 0]]
  /\ UNCHANGED upShared

\* A binary that is whole can be run.
UpBegin(u) ==
  /\ upPc[u] = "idle" /\ upBegun < MaxUpdates
  /\ upFile[upBin].part = "whole"
  /\ UpGo(u, "check")
  /\ upCurrent' = [upCurrent EXCEPT ![u] = upFile[upBin].ver]
  /\ upBegun'   = upBegun + 1
  /\ UNCHANGED <<upTag, copyVars, upOpen, upLatest, upData, dirVars>>

Tag(v) == IF v = NoVersion THEN <<>> ELSE Published[v]

\* Missing trailing parts count as zero.
Component(tag, i) == IF i <= Len(tag) THEN tag[i] ELSE 0

\* The first component that differs decides; garbage is never newer.
NeedsUpdate(latest, current) ==
  /\ latest # <<>> /\ current # <<>>
  /\ \E i \in DOMAIN latest :
       /\ latest[i] > Component(current, i)
       /\ \A j \in 1..(i - 1) : latest[j] = Component(current, j)

\* A release is tagged with a version that counts as newer than those before it.
ASSUME TagsGrow == \A v, w \in Versions : v < w => NeedsUpdate(Published[w], Published[v])

\* The release cannot be looked up, or is not newer.
UpNothing(u) ==
  /\ upPc[u] \in {"check", "recheck"}
  /\ UpOver(u)
  /\ UNCHANGED <<worldVars, dirVars>>

\* A newer release: --yes goes on, a terminal is asked, anything else is refused.
UpFound(u) ==
  /\ upPc[u] = "check" /\ NeedsUpdate(Tag(upLatest), Tag(upCurrent[u]))
  /\ UpGo(u, "ask")
  /\ UNCHANGED <<upCurrent, upTag, copyVars, upOpen, worldVars, dirVars>>

\* The name is the second's, or, where that is taken, the first numbered one that
\* is not; another command may have chosen the same and not made it yet.
UpDirNamed(d) ==
  \/ /\ d \in Dirs /\ \A v \in Updaters : upDir[v] # d
     /\ \A e \in 1..(d - 1) : \E v \in Updaters : upDir[v] = e
     /\ UNCHANGED upShared
  \/ /\ \E v \in Updaters : upPc[v] = "mkdir" /\ upDir[v] = d
     /\ upShared' = TRUE

UpConsent(u) ==
  /\ upPc[u] = "ask"
  /\ \E d \in Dirs : UpDirNamed(d) /\ upDir' = [upDir EXCEPT ![u] = d]
  /\ UpGo(u, "mkdir")
  /\ upFrom' = [upFrom EXCEPT ![u] = upData]
  /\ UNCHANGED <<upCurrent, upTag, upDone, upBack, upOpen, worldVars, dirVars>>

\* MkdirAll takes a directory that another command has made.
UpMakeDir(u) ==
  /\ upPc[u] = "mkdir"
  /\ UpGo(u, "backup")
  /\ UNCHANGED <<upCurrent, upTag, copyVars, upOpen, worldVars, dirVars>>

UpDecline(u) ==
  /\ upPc[u] = "ask"
  /\ UpOver(u)
  /\ UNCHANGED <<worldVars, dirVars>>

\* copyFile, one chunk; the target is created or cut to nothing before the first.
ChunkCopied(copy, c, content) ==
  [i \in 1..Chunks |-> IF i = c THEN content ELSE IF c = 1 THEN Missing ELSE copy[i]]

UpBackup(u, f) ==
  /\ upPc[u] = "backup" /\ upDone[u][f] < Chunks
  /\ upDone' = [upDone EXCEPT ![u][f] = @ + 1]
  /\ upBack' = [upBack EXCEPT ![upDir[u]][f] = ChunkCopied(@, upDone[u][f] + 1, upData[f])]
  /\ UNCHANGED <<upPc, upCurrent, upTag, upDir, upShared, upFrom, upOpen, worldVars, dirVars>>

\* Any error ends the command.
UpBackupFails(u) ==
  /\ upPc[u] \in {"mkdir", "backup"}
  /\ UpOver(u)
  /\ UNCHANGED <<worldVars, dirVars>>

BackedUp(u) == \A f \in DataFiles : upDone[u][f] = Chunks

UpBackedUp(u) ==
  /\ upPc[u] = "backup" /\ BackedUp(u)
  /\ UpGo(u, "recheck")
  /\ UNCHANGED <<upCurrent, upTag, copyVars, upOpen, worldVars, dirVars>>

\* Run looks the release up for itself.
UpRecheck(u) ==
  /\ upPc[u] = "recheck" /\ NeedsUpdate(Tag(upLatest), Tag(upCurrent[u]))
  /\ upTag' = [upTag EXCEPT ![u] = upLatest]
  /\ UpGo(u, "open")
  /\ UNCHANGED <<upCurrent, copyVars, upOpen, worldVars, dirVars>>

\* replaceBinaryWithClient.
Busy(u) == \E v \in Updaters \ {u} : upPc[v] \in {"download", "verify", "swap"}

UpCreate(u) ==
  /\ upPc[u] = "open"
  /\ UpGo(u, "download")
  /\ LET i == IF upNew = NoInode THEN upMade + 1 ELSE upNew IN
       /\ upOpen' = [upOpen EXCEPT ![u] = i]
       /\ upNew'  = i
       /\ upMade' = IF upNew = NoInode THEN upMade + 1 ELSE upMade
       /\ upFile' = [upFile EXCEPT ![i] = [ver |-> upTag[u], part |-> "part"]]
  /\ upOverlap' = (upOverlap \/ Busy(u))
  /\ UNCHANGED <<upCurrent, upTag, copyVars, worldVars, upBin>>

\* The answer is refused before anything is created.
UpNoAnswer(u) ==
  /\ upPc[u] = "open"
  /\ UpOver(u)
  /\ UNCHANGED <<worldVars, dirVars>>

\* The body is there to its end, and synced; it may be no binary but a short page.
UpDownloaded(u) ==
  /\ upPc[u] = "download"
  /\ UpGo(u, "verify")
  /\ \E p \in {"small", "whole"} \cup (IF upOverlap THEN {"mixed"} ELSE {}) :
       upFile' = [upFile EXCEPT ![upOpen[u]] = [ver |-> upTag[u], part |-> p]]
  /\ UNCHANGED <<upCurrent, upTag, copyVars, upOpen, worldVars, upBin, upNew, upMade, upOverlap>>

\* os.Remove(tmp): by name, whatever file that is now.
UpCleanUp(u) ==
  /\ UpOver(u)
  /\ upNew' = NoInode
  /\ UNCHANGED <<worldVars, upFile, upBin, upMade, upOverlap>>

\* Mutant: an error while the body is read is not noticed.
UpBrokenUnnoticed(u) ==
  /\ upPc[u] = "download"
  /\ UpGo(u, "swap")
  /\ UNCHANGED <<upCurrent, upTag, copyVars, upOpen, worldVars, dirVars>>

\* The body ends early, or cannot be written or synced.
UpBroken(u) == upPc[u] = "download" /\ UpCleanUp(u)

UpVerified(u) ==
  /\ upPc[u] = "verify"
  /\ upNew # NoInode /\ upFile[upNew].part # "small"
  /\ UpGo(u, "swap")
  /\ UNCHANGED <<upCurrent, upTag, copyVars, upOpen, worldVars, dirVars>>

\* Too small, gone, or its mode cannot be set.
UpRejected(u) == upPc[u] = "verify" /\ UpCleanUp(u)

UpSwap(u) ==
  /\ upPc[u] = "swap" /\ upNew # NoInode
  /\ upBin' = upNew
  /\ upNew' = NoInode
  /\ UpOver(u)
  /\ UNCHANGED <<worldVars, upFile, upMade, upOverlap>>

\* The rename fails; the file is left behind.
UpSwapFails(u) ==
  /\ upPc[u] = "swap"
  /\ UpOver(u)
  /\ UNCHANGED <<worldVars, dirVars>>

UpKilled(u) ==
  /\ upPc[u] # "idle"
  /\ UpOver(u)
  /\ UNCHANGED <<worldVars, dirVars>>

UpRelease ==
  /\ \E v \in (Versions \cup {NoVersion}) \ {upLatest} : upLatest' = v
  /\ UNCHANGED <<upPc, upCurrent, upTag, copyVars, upOpen, upBegun, upData, dirVars>>

UpWrite(f) ==
  /\ upData[f] < MaxWrites
  /\ upData' = [upData EXCEPT ![f] = @ + 1]
  /\ UNCHANGED <<upPc, upCurrent, upTag, copyVars, upOpen, upBegun, upLatest, dirVars>>

\* What a command does by itself, the answer to its question left out.
UpStep(u) ==
  \/ UpNothing(u) \/ UpFound(u) \/ UpMakeDir(u) \/ UpBackupFails(u) \/ UpBackedUp(u) \/ UpRecheck(u)
  \/ \E f \in DataFiles : UpBackup(u, f)
  \/ UpCreate(u) \/ UpNoAnswer(u) \/ UpDownloaded(u) \/ UpBroken(u)
  \/ UpVerified(u) \/ UpRejected(u) \/ UpSwap(u) \/ UpSwapFails(u)

UpNext ==
  \/ \E u \in Updaters : UpBegin(u) \/ UpStep(u) \/ UpConsent(u) \/ UpDecline(u) \/ UpKilled(u)
  \/ UpRelease
  \/ \E f \in DataFiles : UpWrite(f)

UpSpec == UpInit /\ [][UpNext]_upVars /\ \A u \in Updaters : WF_upVars(UpStep(u))

----------------------------------------------------------------------------
\* The binary is always a whole download, through kills, broken transfers and
\* what they leave under the name the next command uses, unless two commands
\* were downloading at once.
UpBinaryWhole == upOverlap \/ upFile[upBin].part = "whole"

\* Once a command has left its backup behind it, every chunk of every data file is
\* there as the file had it at some moment since the consent, and no chunk is older
\* than one before it: a file nobody wrote meanwhile is copied whole, one that was
\* written in place may be torn.  Two commands that share a directory are excepted.
UpBackupKept ==
  \A u \in Updaters : ~upShared /\ upPc[u] \in {"recheck", "open", "download", "verify", "swap"} =>
    \A f \in DataFiles : LET copy == upBack[upDir[u]][f] IN
      /\ \A c \in 1..Chunks : copy[c] \in upFrom[u][f]..upData[f]
      /\ \A b, c \in 1..Chunks : b <= c => copy[b] <= copy[c]

\* A binary is replaced by the release its command looked up, and by one published
\* after the one running.
UpReplacedRightly ==
  [][\A u \in Updaters : UpSwap(u) =>
       upOverlap \/ (/\ upFile[upBin'].ver = upTag[u]
                     /\ upFile[upBin'].ver > upCurrent[u])]_upVars

UpdateSafe == [](UpBinaryWhole /\ UpBackupKept) /\ UpReplacedRightly

\* A command that waits for nobody's answer ends.
UpEnds == \A u \in Updaters : (upPc[u] \notin {"idle", "ask"}) ~> (upPc[u] \in {"idle", "ask"})
=============================================================================
