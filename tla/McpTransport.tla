---------------------------- MODULE McpTransport ----------------------------
(***************************************************************************)
(* The HTTP transports of `locksmith mcp run` in proxy mode                *)
(* (internal/mcp/transport*.go): Streamable HTTP, whose responses come in  *)
(* the body of each POST; the legacy SSE transport, whose responses come   *)
(* on one long GET stream; and the automatic transport, which starts with  *)
(* the first and falls back to the second in mid-conversation.             *)
(*                                                                         *)
(* Send and Connect are called by one goroutine, the proxy's main loop,    *)
(* whose place is pc.  Each stream reader and each forwarder of the        *)
(* automatic transport is a goroutine of its own.  The remote server may   *)
(* accept or reject any request, answer what it accepted, or not, and end  *)
(* a stream at any time; a client timeout (30 s, bodies included) and a    *)
(* broken connection look the same.                                        *)
(***************************************************************************)
EXTENDS Naturals, Sequences, Functions

CONSTANTS
    MaxMsgs,   \* bound of the messages the client sends; they are 1..MaxMsgs
    Notes,     \* notifications the server may send of its own accord
    Modes,     \* transports the user may ask for: "http", "sse", "auto"
    Cap,       \* msgChanBuf, the capacity of a message channel
    Slots,     \* events parsed and not passed on yet: sseEventChanBuf and two hands
    NoMsg      \* a forwarder with empty hands

Msgs   == 1 .. MaxMsgs
Events == Msgs \cup Notes      \* m \in Msgs stands for the response to m too
Wire   == {"http", "sse"}      \* the transports that talk to the server

ASSUME TransportAssumption ==
    /\ MaxMsgs \in Nat
    /\ Cap \in Nat \ {0}
    /\ Slots \in Nat \ {0}
    /\ Modes \subseteq {"http", "sse", "auto"}
    /\ Notes \cap Msgs = {}
    /\ NoMsg \notin Events

VARIABLES
    cfg,        \* the transport asked for; whether a header names a secret
    pc,         \* the main loop, in Connect and Send
    cur,        \* the client message being sent; so many were read
    inner,      \* the connected transport, "none" before the first one
    auth,       \* cachedAuth # nil, per transport
    body,       \* what is left of the response of an accepted POST
    reader,     \* who reads the event stream of each transport
    got,        \* the events it has received and not passed on
    cancelled,  \* the transports whose reader is told to stop
    due,        \* messages accepted over SSE and not answered
    ch,         \* the channels msgCh of each transport, and outCh
    fw,         \* the forwarders of the automatic transport: on?
    hand,       \* the message each of them holds
    result      \* how the proxy ends

connVars == <<inner, auth, body, result>>
pipeVars == <<reader, got, cancelled, due, ch, fw, hand>>

(* Histories: what was asked of the server, and what it did.               *)
VARIABLES
    fetched,    \* calls of the resolver, per transport
    posted,     \* POSTs made: transport, message, with credentials or not
    denied,     \* the server has answered 401 or 403
    accepted,   \* the messages the server accepted, in order
    redirected, \* the messages it answered with a redirect
    answered,   \* events a transport received in full
    dropped,    \* those a cancelled reader dropped
    sentNotes   \* notifications the server sent

history == <<fetched, posted, denied, accepted, redirected, answered, dropped,
             sentNotes>>
transportVars == <<cfg, pc, cur, connVars, pipeVars, history>>

PC == {"idle", "connect", "open", "openAuth", "reopen", "endpoint",
       "post", "auth", "body", "shutdown", "close", "wait", "exit"}

TransportTypeOK ==
    /\ cfg \in [mode : Modes, resolver : BOOLEAN]
    /\ pc \in PC
    /\ cur \in 0 .. MaxMsgs
    /\ inner \in Wire \cup {"none"}
    /\ auth \in [Wire -> BOOLEAN]
    /\ body \in Seq(Events)
    /\ reader \in [Wire -> {"off", "open", "ended"}]
    /\ got \in [Wire -> Seq(Events)]
    /\ cancelled \subseteq Wire
    /\ due \subseteq Msgs
    /\ ch \in [Wire \cup {"out"} -> Seq(Events)]
    /\ fw \in [Wire -> {"off", "on", "cancelled"}]
    /\ hand \in [Wire -> Events \cup {NoMsg}]
    /\ result \in {"none", "ok", "error"}
    /\ fetched \in [Wire -> Nat]
    /\ posted \in Seq(Wire \X Msgs \X BOOLEAN)
    /\ denied \in BOOLEAN
    /\ accepted \in Seq(Msgs)
    /\ redirected \subseteq Msgs
    /\ answered \subseteq Events
    /\ dropped \subseteq Events
    /\ sentNotes \subseteq Notes

TransportInit ==
    /\ cfg \in [mode : Modes, resolver : BOOLEAN]
    /\ pc = "idle"
    /\ cur = 0
    /\ inner = "none"
    /\ auth = [t \in Wire |-> FALSE]
    /\ body = <<>>
    /\ reader = [t \in Wire |-> "off"]
    /\ got = [t \in Wire |-> <<>>]
    /\ cancelled = {}
    /\ due = {}
    /\ ch = [t \in Wire \cup {"out"} |-> <<>>]
    /\ fw = [t \in Wire |-> "off"]
    /\ hand = [t \in Wire |-> NoMsg]
    /\ result = "none"
    /\ fetched = [t \in Wire |-> 0]
    /\ posted = <<>>
    /\ denied = FALSE
    /\ accepted = <<>>
    /\ redirected = {}
    /\ answered = {}
    /\ dropped = {}
    /\ sentNotes = {}

-----------------------------------------------------------------------------
Push(t, e) ==
    /\ Len(ch[t]) < Cap
    /\ ch' = [ch EXCEPT ![t] = Append(@, e)]

At(places) == pc \in places

Goto(place) == pc' = place

(* An error ends the proxy: at once when nothing is connected yet, through *)
(* the shutdown otherwise.                                                 *)
Fail ==
    /\ pc' = IF inner = "none" THEN "exit" ELSE "shutdown"
    /\ result' = "error"
    /\ UNCHANGED <<cfg, cur, inner, auth, body>>

(* The context of a reader is cancelled.  It may notice late: what it holds *)
(* or still receives, it may pass on or drop.                              *)
CancelReader(t) == cancelled' = cancelled \cup {t}

StartReader(t) == reader' = [reader EXCEPT ![t] = "open"]

(* The automatic transport forwards what its inner transports receive.     *)
StartForwarder(t) ==
    fw' = [fw EXCEPT ![t] = IF cfg.mode = "auto" THEN "on" ELSE "off"]

-----------------------------------------------------------------------------
(* Mutant of ConnectHttp: credentials are resolved when connecting.        *)
ConnectHttpEager ==
    /\ At({"connect"})
    /\ cfg.mode \in {"http", "auto"}
    /\ inner' = "http"
    /\ auth' = [auth EXCEPT !["http"] = cfg.resolver]
    /\ fetched' = [fetched EXCEPT !["http"] = @ + 1]
    /\ StartReader("http")
    /\ StartForwarder("http")
    /\ Goto("post")
    /\ UNCHANGED <<cfg, cur, body, result, got, cancelled, due, ch, hand, posted,
                   denied, accepted, redirected, answered, dropped, sentNotes>>

(* Connect of Streamable HTTP: no request is waited for.                   *)
ConnectHttp ==
    /\ At({"connect"})
    /\ cfg.mode \in {"http", "auto"}
    /\ inner' = "http"
    /\ StartReader("http")
    /\ StartForwarder("http")
    /\ Goto("post")
    /\ UNCHANGED <<cfg, cur, auth, body, result, got, cancelled, due, ch, hand,
                   history>>

ConnectSse ==
    /\ At({"connect"})
    /\ cfg.mode = "sse"
    /\ Goto("open")
    /\ UNCHANGED <<cfg, cur, connVars, pipeVars, history>>

(* Connect of SSE: the GET, tried again once with credentials.             *)
OpenStream ==
    /\ At({"open", "reopen"})
    /\ StartReader("sse")
    /\ Goto("endpoint")
    /\ UNCHANGED <<cfg, cur, connVars, got, cancelled, due, ch, fw, hand, history>>

OpenDenied ==
    /\ At({"open"})
    /\ denied' = TRUE
    /\ Goto("openAuth")
    /\ UNCHANGED <<cfg, cur, connVars, pipeVars, fetched, posted, accepted,
                   redirected, answered, dropped, sentNotes>>

OpenFails ==
    /\ At({"open", "reopen"})
    /\ Fail
    /\ UNCHANGED <<pipeVars, history>>

(* Mutant of EndpointReceived: the new stream is not forwarded.            *)
EndpointNotForwarded ==
    /\ At({"endpoint"})
    /\ reader["sse"] = "open"
    /\ inner' = "sse"
    /\ Goto("post")
    /\ UNCHANGED <<cfg, cur, auth, body, result, pipeVars, history>>

(* The endpoint event completes Connect.  In the automatic transport it    *)
(* completes the fallback, and the message that failed is sent again.      *)
EndpointReceived ==
    /\ At({"endpoint"})
    /\ reader["sse"] = "open"
    /\ inner' = "sse"
    /\ StartForwarder("sse")
    /\ Goto("post")
    /\ UNCHANGED <<cfg, cur, auth, body, result, reader, got, cancelled, due, ch,
                   hand, history>>

(* No endpoint for 10 s, or one that does not parse.                       *)
EndpointTimeout ==
    /\ At({"endpoint"})
    /\ CancelReader("sse")
    /\ Fail
    /\ UNCHANGED <<reader, got, due, ch, fw, hand, history>>

-----------------------------------------------------------------------------
(* ensureAuth, for the transport that was refused.                         *)
Refused == IF pc = "openAuth" THEN "sse" ELSE inner

ResolveOk ==
    /\ At({"auth", "openAuth"})
    /\ cfg.resolver
    /\ fetched' = [fetched EXCEPT ![Refused] = @ + 1]
    /\ auth' = [auth EXCEPT ![Refused] = TRUE]
    /\ Goto(IF pc = "openAuth" THEN "reopen" ELSE "post")
    /\ UNCHANGED <<cfg, cur, inner, body, result, pipeVars, posted, denied,
                   accepted, redirected, answered, dropped, sentNotes>>

ResolveFails ==
    /\ At({"auth", "openAuth"})
    /\ fetched' = [fetched EXCEPT ![Refused] = IF cfg.resolver THEN @ + 1 ELSE @]
    /\ Fail
    /\ UNCHANGED <<pipeVars, posted, denied, accepted, redirected, answered, dropped,
                   sentNotes>>

-----------------------------------------------------------------------------
(* Send: one POST, with the headers there are.                             *)
PostOnce ==
    /\ At({"post"})
    /\ posted' = Append(posted, <<inner, cur, auth[inner]>>)

(* What the server says in the body of its answer.                         *)
Says(bodies) ==
    \E b \in bodies :
        /\ body' = b
        /\ sentNotes' = sentNotes \cup (Range(b) \cap Notes)

Bodies == {<<>>, <<cur>>} \cup {<<n, cur>> : n \in Notes \ sentNotes}

PostAcceptedHttp ==
    /\ PostOnce
    /\ inner = "http"
    /\ accepted' = Append(accepted, cur)
    /\ Says(Bodies)
    /\ Goto("body")
    /\ UNCHANGED <<cfg, cur, inner, auth, result, pipeVars, fetched, denied,
                   redirected, answered, dropped>>

PostAcceptedSse ==
    /\ PostOnce
    /\ inner = "sse"
    /\ accepted' = Append(accepted, cur)
    /\ due' = due \cup {cur}
    /\ Goto("idle")
    /\ UNCHANGED <<cfg, cur, connVars, reader, got, cancelled, ch, fw, hand,
                   fetched, denied, redirected, answered, dropped, sentNotes>>

(* A redirect.  The client does not send the message again: it asks for    *)
(* the other page with a GET, or leaves the answer as it is, since the     *)
(* message's reader cannot be read twice.  Streamable HTTP takes any       *)
(* status below 400 for success, SSE a page that is there; what the page   *)
(* says goes to the client as if the server had said it unasked.           *)
Pages == {<<>>} \cup {<<n>> : n \in Notes \ sentNotes}

PostRedirected ==
    /\ PostOnce
    /\ redirected' = redirected \cup {cur}
    /\ \/ inner = "http" /\ Says(Pages) /\ Goto("body")
       \/ inner = "sse" /\ Goto("idle") /\ UNCHANGED <<body, sentNotes>>
    /\ UNCHANGED <<cfg, cur, inner, auth, result, pipeVars, fetched, denied,
                   accepted, answered, dropped>>

(* Mutant of shouldRetryWithAuth: retry whenever the status says so.       *)
shouldRetryAlways == TRUE

shouldRetryWithAuth == ~auth[inner]

(* 401 or 403: retry with credentials, unless they were sent already.      *)
PostDenied ==
    /\ PostOnce
    /\ denied' = TRUE
    /\ \/ /\ shouldRetryWithAuth
          /\ Goto(IF auth[inner] THEN "post" ELSE "auth")
          /\ UNCHANGED <<cfg, cur, connVars>>
       \/ ~shouldRetryWithAuth /\ Fail
    /\ UNCHANGED <<pipeVars, fetched, accepted, redirected, answered, dropped,
                   sentNotes>>

(* Mutant of Fallback: the old transport's channel is given up.            *)
FallbackDropsOld ==
    /\ PostOnce
    /\ cfg.mode = "auto" /\ inner = "http"
    /\ CancelReader("http")
    /\ ch' = [ch EXCEPT !["http"] = <<>>]
    /\ Goto("open")
    /\ UNCHANGED <<cfg, cur, connVars, reader, got, due, fw, hand, fetched, denied,
                   accepted, redirected, answered, dropped, sentNotes>>

(* 404 or 405 makes the automatic transport close Streamable HTTP and      *)
(* connect an SSE transport, which knows nothing of the credentials.  The  *)
(* forwarder of the old channel goes on; its reader does not.              *)
Fallback ==
    /\ PostOnce
    /\ cfg.mode = "auto" /\ inner = "http"
    /\ CancelReader("http")
    /\ Goto("open")
    /\ UNCHANGED <<cfg, cur, connVars, reader, got, due, ch, fw, hand, fetched,
                   denied, accepted, redirected, answered, dropped, sentNotes>>

(* Mutant of PostFails: the error is not reported.                         *)
PostFailsIgnored ==
    /\ PostOnce
    /\ Goto("idle")
    /\ UNCHANGED <<cfg, cur, connVars, pipeVars, fetched, denied, accepted,
                   redirected, answered, dropped, sentNotes>>

(* No answer, or a status that is an error: 400 and above, and over SSE    *)
(* anything but 200 and 202.                                               *)
PostFails ==
    /\ PostOnce
    /\ Fail
    /\ UNCHANGED <<pipeVars, fetched, denied, accepted, redirected, answered,
                   dropped, sentNotes>>

(* Mutant of PostLost: the request is made once more.                      *)
PostLostRetried ==
    /\ PostOnce
    /\ accepted' = Append(accepted, cur)
    /\ Len(accepted) < 2 * MaxMsgs
    /\ UNCHANGED <<cfg, pc, cur, connVars, pipeVars, fetched, denied, redirected,
                   answered, dropped, sentNotes>>

(* The server accepted the message and its answer was lost.                *)
PostLost ==
    /\ PostOnce
    /\ accepted' = Append(accepted, cur)
    /\ Fail
    /\ UNCHANGED <<pipeVars, fetched, denied, redirected, answered, dropped,
                   sentNotes>>

(* The response of Streamable HTTP is passed on before Send returns, which *)
(* nothing cancels: what was received of it is not lost.                   *)
BodyEvent ==
    /\ At({"body"})
    /\ body # <<>>
    /\ Push("http", Head(body))
    /\ body' = Tail(body)
    /\ answered' = answered \cup {Head(body)}
    /\ UNCHANGED <<cfg, pc, cur, inner, auth, result, reader, got, cancelled, due,
                   fw, hand, fetched, posted, denied, accepted, redirected, dropped,
                   sentNotes>>

BodyEnd ==
    /\ At({"body"})
    /\ body = <<>>
    /\ Goto("idle")
    /\ UNCHANGED <<cfg, cur, connVars, pipeVars, history>>

(* The connection breaks, or the 30 s are over.  A JSON body that cannot   *)
(* be read is an error; an event stream just ends, and its reader cannot   *)
(* tell that from a complete one.                                          *)
BodyCut ==
    /\ At({"body"})
    /\ body # <<>>
    /\ body' = <<>>
    /\ \/ Goto("idle") /\ UNCHANGED result
       \/ Goto("shutdown") /\ result' = "error"
    /\ UNCHANGED <<cfg, cur, inner, auth, pipeVars, history>>

-----------------------------------------------------------------------------
(* The stream of each transport: the notifications of Streamable HTTP      *)
(* (runGetStream) and all that the server says over SSE.  parseSSE puts    *)
(* the events in a buffer of its own, from where they go to the channel.   *)
Receive(t, e) ==
    /\ reader[t] = "open"
    /\ Len(got[t]) < Slots
    /\ got' = [got EXCEPT ![t] = Append(@, e)]
    /\ answered' = answered \cup {e}
    /\ UNCHANGED <<cfg, pc, cur, connVars, reader, cancelled, ch, fw, hand,
                   fetched, posted, denied, accepted, redirected, dropped>>

ReceiveNote(t, n) ==
    /\ n \notin sentNotes
    /\ Receive(t, n)
    /\ sentNotes' = sentNotes \cup {n}
    /\ UNCHANGED due

ReceiveResponse(m) ==
    /\ m \in due
    /\ Receive("sse", m)
    /\ due' = due \ {m}
    /\ UNCHANGED sentNotes

(* A refused GET, a stream that ends and one that is cut leave the same:   *)
(* it is not opened again, and its reader passes on what it has.           *)
StreamEnds(t) ==
    /\ reader[t] = "open"
    /\ reader' = [reader EXCEPT ![t] = "ended"]
    /\ UNCHANGED <<cfg, pc, cur, connVars, got, cancelled, due, ch, fw, hand,
                   history>>

ReaderPushes(t) ==
    /\ got[t] # <<>>
    /\ Push(t, Head(got[t]))
    /\ got' = [got EXCEPT ![t] = Tail(@)]
    /\ UNCHANGED <<cfg, pc, cur, connVars, reader, cancelled, due, fw, hand,
                   history>>

(* Waiting to pass an event on it sees that it is cancelled, and drops     *)
(* what it holds.                                                          *)
ReaderDrops(t) ==
    /\ got[t] # <<>>
    /\ t \in cancelled
    /\ reader' = [reader EXCEPT ![t] = "ended"]
    /\ got' = [got EXCEPT ![t] = <<>>]
    /\ dropped' = dropped \cup Range(got[t])
    /\ UNCHANGED <<cfg, pc, cur, connVars, cancelled, due, ch, fw, hand, fetched,
                   posted, denied, accepted, redirected, answered, sentNotes>>

(* The last act of the SSE stream's reader is to close msgCh.              *)
Closed == reader["sse"] = "ended" /\ got["sse"] = <<>>

-----------------------------------------------------------------------------
(* forwardFrom, of the automatic transport: from one channel to the other. *)
Take(t) ==
    /\ fw[t] # "off"
    /\ hand[t] = NoMsg
    /\ ch[t] # <<>>
    /\ hand' = [hand EXCEPT ![t] = Head(ch[t])]
    /\ ch' = [ch EXCEPT ![t] = Tail(@)]
    /\ UNCHANGED <<cfg, pc, cur, connVars, reader, got, cancelled, due, fw, history>>

(* Mutant of Put: it still holds what it passed on.                        *)
PutKeeps(t) ==
    /\ fw[t] # "off"
    /\ hand[t] # NoMsg
    /\ Push("out", hand[t])
    /\ UNCHANGED <<cfg, pc, cur, connVars, reader, got, cancelled, due, fw, hand,
                   history>>

Put(t) ==
    /\ fw[t] # "off"
    /\ hand[t] # NoMsg
    /\ Push("out", hand[t])
    /\ hand' = [hand EXCEPT ![t] = NoMsg]
    /\ UNCHANGED <<cfg, pc, cur, connVars, reader, got, cancelled, due, fw, history>>

(* The forwarder of Streamable HTTP ends when the automatic transport is   *)
(* closed, whatever it holds; that of SSE ends with its channel.           *)
ForwarderEnd(t) ==
    /\ \/ fw[t] = "cancelled"
       \/ t = "sse" /\ fw[t] = "on" /\ Closed /\ ch[t] = <<>> /\ hand[t] = NoMsg
    /\ fw' = [fw EXCEPT ![t] = "off"]
    /\ UNCHANGED <<cfg, pc, cur, connVars, reader, got, cancelled, due, ch, hand,
                   history>>

(* Close: the readers and the forwarder of Streamable HTTP are cancelled,  *)
(* which they may notice late; the forwarder of SSE is not, it runs on the *)
(* proxy's own context.                                                    *)
Close ==
    /\ At({"close"})
    /\ cancelled' = Wire
    /\ fw' = [fw EXCEPT !["http"] = IF @ = "on" THEN "cancelled" ELSE @]
    /\ Goto("wait")
    /\ UNCHANGED <<cfg, cur, connVars, reader, got, due, ch, hand, history>>
=============================================================================
