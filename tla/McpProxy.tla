------------------------------ MODULE McpProxy ------------------------------
(***************************************************************************)
(* `locksmith mcp run --url` (internal/mcp/proxy.go): the main loop sends  *)
(* each line of stdin through the transport and waits for it to be sent; a *)
(* second goroutine writes what the server says to stdout.                 *)
(*                                                                         *)
(* The forwarding goroutine is started when the transport is connected.    *)
(* The model lets it run from the start: its channel is empty until then.  *)
(***************************************************************************)
EXTENDS McpTransport

VARIABLES
    fpc,        \* the forwarding goroutine
    done,       \* the channel done is closed
    delivered   \* what was written to stdout

proxyVars == <<fpc, done, delivered>>
vars == <<transportVars, proxyVars>>

TypeOK ==
    /\ TransportTypeOK
    /\ fpc \in {"run", "drain", "stopped"}
    /\ done \in BOOLEAN
    /\ delivered \in Seq(Events)

Init ==
    /\ TransportInit
    /\ fpc = "run"
    /\ done = FALSE
    /\ delivered = <<>>

-----------------------------------------------------------------------------
(* The channel that Connect returned.                                      *)
MsgCh == IF cfg.mode = "auto" THEN "out" ELSE cfg.mode

MsgChClosed == cfg.mode = "sse" /\ Closed

(* A line that is not empty; the first one sets the transport up.          *)
ReadLine ==
    /\ At({"idle"})
    /\ cur < MaxMsgs
    /\ cur' = cur + 1
    /\ Goto(IF inner = "none" THEN "connect" ELSE "post")
    /\ UNCHANGED <<cfg, connVars, pipeVars, history, proxyVars>>

(* The client closes stdin.  (A read error only changes what is returned.) *)
ReadEof ==
    /\ At({"idle"})
    /\ Goto(IF inner = "none" THEN "exit" ELSE "shutdown")
    /\ result' = "ok"
    /\ UNCHANGED <<cfg, cur, inner, auth, body, pipeVars, history, proxyVars>>

(* The proxy's shutdown: close(done), then Close, then wg.Wait.            *)
CloseDone ==
    /\ At({"shutdown"})
    /\ done' = TRUE
    /\ Goto("close")
    /\ UNCHANGED <<cfg, cur, connVars, pipeVars, history, fpc, delivered>>

WaitForwarder ==
    /\ At({"wait"})
    /\ fpc = "stopped"
    /\ Goto("exit")
    /\ UNCHANGED <<cfg, cur, connVars, pipeVars, history, proxyVars>>

-----------------------------------------------------------------------------
(* Mutant of ForwardMsg: it reads the inner transport's channel as well.   *)
ForwardMsgAny ==
    /\ fpc # "stopped"
    /\ \E t \in {"http", MsgCh} :
          /\ ch[t] # <<>>
          /\ delivered' = Append(delivered, Head(ch[t]))
          /\ ch' = [ch EXCEPT ![t] = Tail(@)]
    /\ UNCHANGED <<cfg, pc, cur, connVars, reader, got, cancelled, due, fw, hand,
                   history, fpc, done>>

(* A message is written to stdout.                                         *)
ForwardMsg ==
    /\ fpc # "stopped"
    /\ ch[MsgCh] # <<>>
    /\ delivered' = Append(delivered, Head(ch[MsgCh]))
    /\ ch' = [ch EXCEPT ![MsgCh] = Tail(@)]
    /\ UNCHANGED <<cfg, pc, cur, connVars, reader, got, cancelled, due, fw, hand,
                   history, fpc, done>>

(* Mutant of SeeDone: nothing is drained.                                  *)
SeeDoneStops ==
    /\ fpc = "run"
    /\ done
    /\ fpc' = "stopped"
    /\ UNCHANGED <<transportVars, done, delivered>>

(* With a message waiting and done closed, select takes either.            *)
SeeDone ==
    /\ fpc = "run"
    /\ done
    /\ fpc' = "drain"
    /\ UNCHANGED <<transportVars, done, delivered>>

(* Mutants of ForwarderStops: an empty channel stops it; only a closed     *)
(* channel does.                                                           *)
ForwarderStopsIdle ==
    /\ fpc # "stopped"
    /\ ch[MsgCh] = <<>>
    /\ inner # "none"
    /\ fpc' = "stopped"
    /\ UNCHANGED <<transportVars, done, delivered>>

ForwarderStopsOnClose ==
    /\ fpc # "stopped"
    /\ ch[MsgCh] = <<>>
    /\ MsgChClosed
    /\ fpc' = "stopped"
    /\ UNCHANGED <<transportVars, done, delivered>>

ForwarderStops ==
    /\ fpc # "stopped"
    /\ ch[MsgCh] = <<>>
    /\ MsgChClosed \/ fpc = "drain"
    /\ fpc' = "stopped"
    /\ UNCHANGED <<transportVars, done, delivered>>

-----------------------------------------------------------------------------
Sending ==
    \/ ConnectHttp \/ ConnectSse
    \/ OpenStream \/ OpenDenied \/ OpenFails
    \/ EndpointReceived \/ EndpointTimeout
    \/ ResolveOk \/ ResolveFails
    \/ PostAcceptedHttp \/ PostAcceptedSse \/ PostRedirected \/ PostDenied
    \/ Fallback \/ PostFails \/ PostLost
    \/ BodyEvent \/ BodyEnd
    \/ Close

MainStep == (Sending /\ UNCHANGED proxyVars) \/ CloseDone \/ WaitForwarder

Streaming ==
    \/ \E t \in Wire, n \in Notes : ReceiveNote(t, n)
    \/ \E m \in Msgs : ReceiveResponse(m)
    \/ \E t \in Wire : StreamEnds(t)

Reading(t) == (ReaderPushes(t) \/ ReaderDrops(t)) /\ UNCHANGED proxyVars

Forward(t) == (Take(t) \/ Put(t) \/ ForwarderEnd(t)) /\ UNCHANGED proxyVars

ForwarderStep == ForwardMsg \/ SeeDone \/ ForwarderStops

(* When the main loop has returned, the process ends with it.              *)
Next ==
    /\ pc # "exit"
    /\ \/ ReadLine \/ ReadEof
       \/ MainStep
       \/ BodyCut /\ UNCHANGED proxyVars
       \/ Streaming /\ UNCHANGED proxyVars
       \/ \E t \in Wire : Reading(t) \/ Forward(t)
       \/ ForwarderStep

(* Goroutines are scheduled.  A request ends, with 30 s at the latest, the *)
(* wait for the endpoint with 10; the resolver is taken to return.  A cut  *)
(* body helps nobody who waits for room in a channel.                      *)
Fairness ==
    /\ WF_vars(MainStep)
    /\ \A t \in Wire : /\ WF_vars(pc # "exit" /\ Reading(t))
                       /\ WF_vars(pc # "exit" /\ Forward(t))
    /\ WF_vars(pc # "exit" /\ ForwarderStep)

Spec == Init /\ [][Next]_vars /\ Fairness

-----------------------------------------------------------------------------
InPipe(e) ==
    \/ \E t \in DOMAIN ch : e \in Range(ch[t])
    \/ \E t \in Wire : hand[t] = e \/ e \in Range(got[t])

Delivered == Range(delivered)

(* The server accepts the client's messages in the order they were         *)
(* written, none of them twice: what is sent again (with credentials, or   *)
(* over SSE) is only what the server has refused.                          *)
AcceptedInOrder ==
    \A i, j \in DOMAIN accepted : i < j => accepted[i] < accepted[j]

(* A message is sent again only in a way it was not sent before.           *)
NoBlindRetry == IsInjective(posted)

(* Nothing the server said is written to the client twice, though two      *)
(* forwarders work side by side after a fallback.                          *)
DeliveredOnce == IsInjective(delivered)

(* What a transport has received is on its way until the shutdown begins.  *)
(* A fallback in mid-conversation loses nothing of the old transport but   *)
(* notifications: those its cancelled reader had not put in the channel.   *)
NoneLostWhileRunning ==
    ~done =>
        /\ \A e \in answered \ dropped : e \in Delivered \/ InPipe(e)
        /\ dropped # {} => dropped \cap Msgs = {} /\ "http" \in cancelled

(* Over Streamable HTTP the shutdown loses no response either: Send has    *)
(* put it in the channel that is drained.                                  *)
HttpLosesNothing ==
    pc = "exit" /\ cfg.mode = "http" =>
        \A m \in Msgs \cap answered : m \in Delivered

(* Without a fallback responses come in the order of their requests.       *)
ResponsesInOrder ==
    cfg.mode = "http" \/ (cfg.mode = "auto" /\ inner # "sse") =>
        \A i, j \in DOMAIN delivered :
            i < j /\ delivered[i] \in Msgs /\ delivered[j] \in Msgs =>
                delivered[i] < delivered[j]

(* The proxy does not end without an error unless the server has accepted  *)
(* every message that was read; but for those it redirected, which are     *)
(* lost without a word.                                                    *)
AcceptedOrReported ==
    pc = "exit" /\ result = "ok" =>
        1 .. cur \subseteq Range(accepted) \cup redirected

(* The vault is not asked before the server has refused a request, and by  *)
(* each transport once.                                                    *)
SecretsOnDemand ==
    \A t \in Wire : /\ fetched[t] > 0 => denied /\ cfg.resolver
                    /\ fetched[t] <= 1

(* What reaches the server: each message once and in order, also through   *)
(* refusals, lost answers and the fallback, and a secret only when the     *)
(* server has asked for one.                                               *)
RequestsOnce == AcceptedInOrder /\ NoBlindRetry /\ SecretsOnDemand

(* What reaches the client: nothing twice, no response lost in a fallback  *)
(* or, over Streamable HTTP, in the shutdown, and in order without a       *)
(* fallback.                                                               *)
ResponsesKept ==
    /\ TypeOK
    /\ DeliveredOnce
    /\ NoneLostWhileRunning
    /\ HttpLosesNothing
    /\ ResponsesInOrder

(* The main loop never waits for ever, for the server or for a forwarder:  *)
(* each message that was read is sent or ends the proxy, and once stdin is *)
(* closed or a message cannot be sent the proxy returns (from its shutdown *)
(* it never reads again).                                                  *)
MainLoopReturns == (pc \in {"post", "shutdown"}) ~> (pc \in {"idle", "exit"})

(* What a transport has received reaches the client, or the shutdown, or   *)
(* was dropped by a reader that a fallback cancelled: neither set loses    *)
(* an element, so that none is forgotten for ever.                         *)
ReceivedIsDelivered ==
    []<>(answered \subseteq Delivered \cup dropped \/ done \/ pc = "exit")
=============================================================================
