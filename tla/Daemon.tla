------------------------------- MODULE Daemon -------------------------------
(***************************************************************************)
(* nimbus-one serve (cmd/nimbus-one/main.go cmdServe) and its periodic     *)
(* work: internal/daemon/scheduler.go drives the heartbeat                 *)
(* (heartbeat.go) over the unchecked items of HEARTBEAT.md, while runs of  *)
(* the engine use the cron registry (internal/cron/jobs.go, tool.go).  The *)
(* parts serve starts have modules of their own; here they are names.      *)
(***************************************************************************)
EXTENDS Naturals, Sequences, FiniteSets, SequencesExt

CONSTANTS
  DmFiles,     \* what HEARTBEAT.md may hold: sequences of unchecked items
  DmWants,     \* the configurations tried
  DmTicks,     \* bound on the ticks of the scheduler
  DmJobs       \* bound on the cron jobs ever scheduled

DmSettings == {"telegram", "discord", "mdns", "lan", "token"}

DmItems == UNION {ToSet(s) : s \in DmFiles}

ASSUME DmAssumption ==
  /\ \A s \in DmFiles : s \in Seq(DmItems)
  /\ DmWants \subseteq SUBSET DmSettings /\ DmTicks \in Nat /\ DmJobs \in Nat

VARIABLES
  dmWant,    \* the configuration: parts wanted, "lan" (not a loopback bind), "token"
  dmServe,   \* "boot", "started", "serving", "refused"
  dmUp,      \* the goroutines serve has started
  dmStop,    \* the signal context is cancelled
  dmFile,    \* the unchecked items of HEARTBEAT.md
  dmTicker,  \* a tick waits in the ticker's channel, which holds one
  dmCount,   \* ticks so far
  dmLoop,    \* Scheduler.Start: "off", "wait", "items", "run", "tell" or "over"
  dmLeft,    \* the items of this tick not yet run
  dmRan,     \* ghost: the items of this tick that were run, in order
  dmTold,    \* ghost: the items of this tick whose answers the broker was handed, in order
  dmJobs,    \* Registry.m: the scheduled jobs, [id, brief]
  dmSeq,     \* Registry.seq
  dmIds      \* ghost: the id each schedule call was told, in order

dmServeVars == <<dmWant, dmServe, dmUp>>
dmTickVars  == <<dmLoop, dmLeft, dmRan, dmTold>>
dmCronVars  == <<dmJobs, dmSeq, dmIds>>
dmVars == <<dmServeVars, dmStop, dmFile, dmTicker, dmCount, dmTickVars, dmCronVars>>

DmInit ==
  /\ dmWant \in DmWants /\ dmServe = "boot" /\ dmUp = {} /\ dmStop = FALSE
  /\ dmFile \in DmFiles /\ dmTicker = FALSE /\ dmCount = 0
  /\ dmLoop = "off" /\ dmLeft = <<>> /\ dmRan = <<>> /\ dmTold = <<>>
  /\ dmJobs = {} /\ dmSeq = 0 /\ dmIds = <<>>

-----------------------------------------------------------------------------
\* Before the address is looked at: skills, heartbeat, housekeeping, prober, mDNS.
DmStart ==
  /\ dmServe = "boot"
  /\ dmServe' = "started"
  /\ dmUp' = {"watcher", "heartbeat", "prune"} \union (dmWant \intersect {"mdns"})
  /\ dmLoop' = "wait"
  /\ UNCHANGED <<dmWant, dmStop, dmFile, dmTicker, dmCount, dmLeft, dmRan, dmTold, dmCronVars>>

\* A bind other than loopback needs a token, from the configuration or the secrets.
DmMayServe == "lan" \in dmWant => "token" \in dmWant

DmServeHTTP ==
  /\ dmServe = "started"
  /\ IF DmMayServe
       THEN /\ dmServe' = "serving"
            /\ dmUp' = dmUp \union {"http"} \union (dmWant \intersect {"telegram", "discord"})
       ELSE dmServe' = "refused" /\ dmUp' = {}
  /\ UNCHANGED <<dmWant, dmStop, dmFile, dmTicker, dmCount, dmTickVars, dmCronVars>>

DmInterrupt ==
  /\ dmServe = "serving"
  /\ dmStop' = TRUE
  /\ UNCHANGED <<dmServeVars, dmFile, dmTicker, dmCount, dmTickVars, dmCronVars>>

DmAlive == "heartbeat" \in dmUp

\* The ticker drops a tick nobody has taken yet.
DmTickerFires ==
  /\ DmAlive /\ ~dmTicker /\ dmCount < DmTicks
  /\ dmTicker' = TRUE /\ dmCount' = dmCount + 1
  /\ UNCHANGED <<dmServeVars, dmStop, dmFile, dmTickVars, dmCronVars>>

\* The loop's select, with its ready branches in no order.
DmSelect ==
  /\ DmAlive /\ dmLoop = "wait"
  /\ \/ dmStop /\ dmLoop' = "over" /\ UNCHANGED <<dmTicker, dmLeft, dmRan, dmTold>>
     \/ /\ dmTicker
        /\ dmTicker' = FALSE
        /\ dmLoop' = "items" /\ dmLeft' = dmFile /\ dmRan' = <<>> /\ dmTold' = <<>>
  /\ UNCHANGED <<dmServeVars, dmStop, dmFile, dmCount, dmCronVars>>

\* Tick, between two items: the context is asked first.
DmGoesOn == ~dmStop

DmNextItem ==
  /\ DmAlive /\ dmLoop = "items"
  /\ IF dmLeft = <<>> \/ ~DmGoesOn
       THEN dmLoop' = "wait" /\ UNCHANGED <<dmLeft, dmRan>>
       ELSE dmLoop' = "run" /\ dmRan' = Append(dmRan, Head(dmLeft)) /\ dmLeft' = Tail(dmLeft)
  /\ UNCHANGED <<dmServeVars, dmStop, dmFile, dmTicker, dmCount, dmTold, dmCronVars>>

\* The engine answers with text, or with nothing to report, or fails; a panic is
\* recovered by the scheduler and takes the rest of the tick with it.
DmRun ==
  /\ DmAlive /\ dmLoop = "run"
  /\ dmLoop' \in {"tell", "items", "wait"}
  /\ UNCHANGED <<dmServeVars, dmStop, dmFile, dmTicker, dmCount, dmLeft, dmRan, dmTold, dmCronVars>>

\* The answer goes through the broker, whose panics are recovered on the spot.
DmTell ==
  /\ DmAlive /\ dmLoop = "tell"
  /\ dmTold' = Append(dmTold, Last(dmRan))
  /\ dmLoop' = "items"
  /\ UNCHANGED <<dmServeVars, dmStop, dmFile, dmTicker, dmCount, dmLeft, dmRan, dmCronVars>>

\* A run, the heartbeat's own or another, rewrites the checklist.
DmEditList ==
  /\ DmAlive
  /\ dmFile' \in DmFiles \ {dmFile}
  /\ UNCHANGED <<dmServeVars, dmStop, dmTicker, dmCount, dmTickVars, dmCronVars>>

-----------------------------------------------------------------------------
\* mutant: ids are counted from the jobs that are left
DmJobIdByCount == Cardinality(dmJobs) + 1

\* The cron tool: schedule (with a spec that parses) and cancel; due and list only
\* read, and nothing in the program marks a job as run.
DmJobId == dmSeq + 1

DmSchedule ==
  /\ DmAlive /\ Len(dmIds) < DmJobs
  /\ dmJobs' = dmJobs \union {[id |-> DmJobId, brief |-> Len(dmIds) + 1]}
  /\ dmIds' = Append(dmIds, DmJobId)
  /\ dmSeq' = dmSeq + 1
  /\ UNCHANGED <<dmServeVars, dmStop, dmFile, dmTicker, dmCount, dmTickVars>>

DmCancel ==
  /\ DmAlive
  /\ \E i \in DOMAIN dmIds :
       /\ \E j \in dmJobs : j.id = dmIds[i]
       /\ dmJobs' = {j \in dmJobs : j.id # dmIds[i]}
  /\ UNCHANGED <<dmServeVars, dmStop, dmFile, dmTicker, dmCount, dmTickVars, dmSeq, dmIds>>

DmHeartbeat == DmSelect \/ DmNextItem \/ DmTell
DmNext == DmStart \/ DmServeHTTP \/ DmInterrupt \/ DmTickerFires \/ DmHeartbeat \/ DmRun \/ DmEditList
          \/ DmSchedule \/ DmCancel

-----------------------------------------------------------------------------
DmTypeOK ==
  /\ dmWant \in DmWants /\ dmServe \in {"boot", "started", "serving", "refused"}
  /\ dmUp \subseteq {"watcher", "heartbeat", "prune", "mdns", "http", "telegram", "discord"}
  /\ dmStop \in BOOLEAN /\ dmFile \in DmFiles /\ dmTicker \in BOOLEAN /\ dmCount \in 0..DmTicks
  /\ dmLoop \in {"off", "wait", "items", "run", "tell", "over"}
  /\ dmLeft \in Seq(DmItems) /\ dmRan \in Seq(DmItems) /\ dmTold \in Seq(DmItems)
  /\ dmJobs \subseteq [id : 1..DmJobs, brief : 1..DmJobs] /\ dmSeq \in 0..DmJobs /\ dmIds \in Seq(1..DmJobs)

\* A tick works through the list as it stood when the tick began, whatever a run
\* does to the file meanwhile: what it ran and what it has left is a list of the
\* file's, in order; answers are handed over in that order, none for an item that
\* was not run.
DmTickFaithful ==
  /\ dmLoop \in {"items", "run", "tell"} => dmRan \o dmLeft \in DmFiles
  /\ \E at \in [DOMAIN dmTold -> DOMAIN dmRan] :
       \A i, j \in DOMAIN dmTold : dmTold[i] = dmRan[at[i]] /\ (i < j => at[i] < at[j])

\* Of the jobs in the list, the id a run was told is that of the one it scheduled and
\* of no other, whatever was cancelled in between, and the HTTP front never serves an
\* address that is not loopback without a token.
DmTokensMean ==
  /\ \A j \in dmJobs : \A i \in DOMAIN dmIds : (dmIds[i] = j.id) = (i = j.brief)
  /\ "http" \in dmUp /\ "lan" \in dmWant => "token" \in dmWant

\* The heartbeat has been told to stop and has not yet.
DmStopping == dmStop /\ dmLoop # "over"

\* Once an interrupt has happened the heartbeat begins no item.
DmNoneAfter == [][dmStop => Len(dmRan') <= Len(dmRan)]_dmRan

\* The heartbeat does the user's list, as it was, until it is told to stop.
DmFaithful == [](DmTickFaithful /\ DmTokensMean) /\ DmNoneAfter
=============================================================================
