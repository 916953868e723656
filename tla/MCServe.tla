------------------------------ MODULE MCServe ------------------------------
(***************************************************************************)
(* What `nimbus serve` runs, one scenario each.  The front ends: the       *)
(* broker with two callers on one conversation, Telegram's long polling,   *)
(* the Discord gateway and the WebSocket server, which share the broker    *)
(* only through Handle, whose promise to a caller (one answer, in the end) *)
(* is what the others rely on.  The services beside them, which share no   *)
(* state: a client of an MCP server, background processes, questions to    *)
(* the user, the heartbeat with the cron registry, and the skills watcher. *)
(***************************************************************************)
EXTENDS Broker, TelegramPolling, DiscordGateway, WsServer, McpClient, Processes, Ask, Daemon, SkillsWatch

CONSTANTS c1, c2

\* The callers of the broker, and the calls of the MCP client.
TwoCallers == {c1, c2}
OneConversation == [c \in TwoCallers |-> "conversation"]
Pairs == {<<"chat", "stream">>, <<"openai", "task">>, <<"terminal", "queue">>, <<"queue", "queue">>, <<"task", "chat">>}
Mixes == {[c \in TwoCallers |-> IF c = c1 THEN p[1] ELSE p[2]] : p \in Pairs}
Updates == {"text", "voice", "button", "vote", "edit", "command", "speak", "denied"}
Uses  == ("reader" :> {"start", "poll", "list", "log"}) @@ ("writer" :> {"write", "kill", "prune"})
Files == {<<>>, <<"a">>, <<"b", "a">>}
Wants == {{}, {"lan"}, {"lan", "token", "mdns", "telegram", "discord"}}

VARIABLE scenario

frontVars == <<bkVars, tgVars, dcVars, wsVars>>
svcVars   == <<mcVars, prVars, akVars, dmVars, swVars>>
serveVars == <<frontVars, svcVars, scenario>>

MCInit ==
  /\ BkInit /\ TgInit /\ DcInit /\ WsInit
  /\ McInit /\ PrInit /\ AkInit /\ DmInit /\ SwInit
  /\ scenario \in {"broker", "telegram", "discord", "websocket", "mcp", "process", "ask", "daemon", "skills"}
  /\ scenario = "broker" \/ bkFront = CHOOSE m \in Mixes : TRUE
  /\ scenario = "mcp" \/ mcKind = "stdio"
  /\ scenario = "daemon" \/ (dmWant = {} /\ dmFile = <<>>)
  /\ scenario = "skills" \/ (swMode = "poll" /\ swMade = {})

OnlyBroker    == scenario = "broker" /\ UNCHANGED <<tgVars, dcVars, wsVars, svcVars, scenario>>
OnlyTelegram  == scenario = "telegram" /\ UNCHANGED <<bkVars, dcVars, wsVars, svcVars, scenario>>
OnlyDiscord   == scenario = "discord" /\ UNCHANGED <<bkVars, tgVars, wsVars, svcVars, scenario>>
OnlyWebSocket == scenario = "websocket" /\ UNCHANGED <<bkVars, tgVars, dcVars, svcVars, scenario>>
OnlyMcp       == scenario = "mcp" /\ UNCHANGED <<frontVars, prVars, akVars, dmVars, swVars, scenario>>
OnlyProcess   == scenario = "process" /\ UNCHANGED <<frontVars, mcVars, akVars, dmVars, swVars, scenario>>
OnlyAsk       == scenario = "ask" /\ UNCHANGED <<frontVars, mcVars, prVars, dmVars, swVars, scenario>>
OnlyDaemon    == scenario = "daemon" /\ UNCHANGED <<frontVars, mcVars, prVars, akVars, swVars, scenario>>
OnlySkills    == scenario = "skills" /\ UNCHANGED <<frontVars, mcVars, prVars, akVars, dmVars, scenario>>

MCNext ==
  \/ scenario = "broker" /\ BkNext /\ OnlyBroker
  \/ scenario = "telegram" /\ TgNext /\ OnlyTelegram
  \/ scenario = "discord" /\ DcNext /\ OnlyDiscord
  \/ scenario = "websocket" /\ WsNext /\ OnlyWebSocket
  \/ scenario = "mcp" /\ McNextStep /\ OnlyMcp
  \/ scenario = "process" /\ PrNext /\ OnlyProcess
  \/ scenario = "ask" /\ AkNext /\ OnlyAsk
  \/ scenario = "daemon" /\ DmNext /\ OnlyDaemon
  \/ scenario = "skills" /\ SwNext /\ OnlySkills

\* A run of the engine ends (Handle gives it 120 seconds), goroutines that can go
\* on do, and time passes: deadlines too.  A server that has not fallen silent answers, a
\* run the process has told to stop ends.  Nobody must send, fail, stop or be started
\* again, no poll must get through, and a request without a deadline need not come
\* back.  A behaviour has one scenario, so fairness to a choice over them is fairness
\* to each; what happens so many times and no more (a deadline passes, a user sends,
\* a line is pumped) shares one choice, as fairness to any of it is fairness to all.
Call(k)   == IF k = 1 THEN c1 ELSE c2
Client(k) == IF k = 1 THEN "reader" ELSE "writer"

FairStep(k) ==
  CASE scenario = "broker" ->
         UNCHANGED bkFront /\ \/ k \in 1..2 /\ BkProgress(Call(k))
                              \/ k = 3 /\ BkTake
    [] scenario = "telegram" -> k = 1 /\ TgWorks
    [] scenario = "discord" -> k = 1 /\ DcWatch
    [] scenario = "websocket" -> \/ k = 1 /\ WsRead
                                 \/ k = 2 /\ WsTick
                                 \/ k = 3 /\ (WsDispatch \/ WsWrite)
    [] scenario = "mcp" -> \/ k \in 1..2 /\ McCallStep(Call(k))
                           \/ k = 3 /\ (McPump \/ McPumpEnds \/ McAnswer \/ McCloseStdio \/ McCloseSse \/ \E c \in TwoCallers : McExpire(c))
    [] scenario = "process" -> \/ k \in 1..2 /\ PrCallStep(Client(k))
                               \/ k = 3 /\ (PrDeadline(1) \/ PrWaited(1))
    [] scenario = "ask" -> \/ k \in 1..2 /\ (AkSelect(k) \/ AkRemove(k))
                           \/ k = 3 /\ \E u \in AkUsers : AkSend(u)
    [] scenario = "daemon" -> \/ k = 1 /\ DmHeartbeat
                              \/ k = 2 /\ dmStop /\ DmRun
    [] scenario = "skills" -> \/ k = 1 /\ SwEvent
                              \/ k = 2 /\ (SwFire \/ SwPoll)

\* The variables of the component whose scenario it is: those a fair step is about.
Alone ==
  CASE scenario = "broker" -> bkVars [] scenario = "telegram" -> tgVars [] scenario = "discord" -> dcVars
    [] scenario = "websocket" -> wsVars [] scenario = "mcp" -> mcVars [] scenario = "process" -> prVars
    [] scenario = "ask" -> akVars [] scenario = "daemon" -> dmVars [] scenario = "skills" -> swVars

MCSpec == MCInit /\ [][MCNext]_serveVars /\ \A k \in 1..3 : WF_Alone(UNCHANGED scenario /\ FairStep(k))

-----------------------------------------------------------------------------
GatewayTypeOK == BkTypeOK /\ TgTypeOK /\ DcTypeOK /\ WsTypeOK
ServicesTypeOK == McTypeOK /\ PrTypeOK /\ AkTypeOK /\ DmTypeOK /\ SwTypeOK

\* The adapters keep what they were given: polling every update until it came to its end
\* (TgNothingLost), Connect one session at a time and each event once (DcSessionsApart),
\* the WebSocket server a live peer and its requests in order (WsServesLivePeer).
AdaptersKeep == TgNothingLost /\ DcSessionsApart /\ WsServesLivePeer

\* Whoever asks is told the truth about what he asked for: a call of an MCP tool gets its
\* own answer (McOwnAnswer), a question the first answer given (AkFirstWins), and what the
\* process tool says of a session was so (PrToldTruly).
ToldTruly == McOwnAnswer /\ AkFirstWins /\ PrToldTruly

FrontWaits(k) ==
  \/ scenario = "broker" /\ BkWaits(Call(k))
  \/ scenario = "telegram" /\ TgWaits(k)
  \/ scenario = "discord" /\ DcHeld
  \/ scenario = "websocket" /\ WsHeld

\* Nobody is left waiting: a caller of the broker is told and one blocked in Enqueue
\* gets in while Start runs; an update of a batch that was read is handled, unless the
\* process stops or one of its requests hangs; and a connection whose other end fell
\* silent is dropped on either side.
GatewayServes == \A k \in 1..2 : FrontWaits(k) ~> ~FrontWaits(k)

ServiceWaits(k) ==
  \/ scenario = "mcp" /\ ((k \in 1..2 /\ McOwed(Call(k))) \/ (k = 3 /\ McClosing))
  \/ scenario = "process" /\ ((k \in 1..2 /\ PrWaits(Client(k))) \/ (k = 3 /\ PrRuns(1)))
  \/ scenario = "ask" /\ ((k \in 1..2 /\ AkWaits(k)) \/ (k = 3 /\ \E u \in AkUsers : AkSending(u)))
  \/ scenario = "daemon" /\ k = 1 /\ DmStopping
  \/ scenario = "skills" /\ k \in 1..2 /\ SwBehind(k)

\* Nothing waits for ever: calls of an MCP server and Close behind them return, unless
\* a child falls silent; sessions end and are seen to, calls of the process tool
\* return, questions are left and answers handed over, the heartbeat stops, a
\* change is loaded.
ServicesEnd == \A k \in 1..3 : ServiceWaits(k) ~> ~ServiceWaits(k)
=============================================================================
