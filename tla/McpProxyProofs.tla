---------------------------- MODULE McpProxyProofs ----------------------------
(***************************************************************************)
(* Two inductive invariants of McpProxy, for any number of messages and    *)
(* notifications and any capacity of the channels.  IInv is about what     *)
(* reaches the server, through refusals, lost answers and a fallback, and  *)
(* gives RequestsOnce.  FlowInv is about what reaches the client, and      *)
(* gives ResponsesKept and AcceptedOrReported.                             *)
(***************************************************************************)
EXTENDS McpProxy, TLAPS

(* Sequences whose head moves on.                                          *)
LEMMA TailFacts ==
    ASSUME NEW S, NEW s \in Seq(S), s # <<>>
    PROVE  /\ Tail(s) \in Seq(S) /\ Head(s) \in S
           /\ Len(s) \in Nat \ {0} /\ Len(Tail(s)) = Len(s) - 1
           /\ DOMAIN Tail(s) = 1 .. Len(s) - 1 /\ DOMAIN s = 1 .. Len(s)
           /\ \A i \in 1 .. Len(s) - 1 : Tail(s)[i] = s[i + 1]
           /\ Head(s) = s[1]
OBVIOUS

LEMMA TailRange ==
    ASSUME NEW S, NEW s \in Seq(S), s # <<>>
    PROVE  Head(s) \in Range(s) /\ Range(s) = Range(Tail(s)) \cup {Head(s)}
<1>1. Head(s) \in Range(s)
  BY TailFacts DEF Range
<1>2. ASSUME NEW e \in Range(s) PROVE e \in Range(Tail(s)) \cup {Head(s)}
  <2>1. PICK i \in 1 .. Len(s) : e = s[i]
    BY TailFacts DEF Range
  <2>2. CASE i = 1
    BY <2>1, <2>2, TailFacts
  <2>3. CASE i # 1
    <3>1. i - 1 \in 1 .. Len(s) - 1 /\ i = (i - 1) + 1
      BY <2>3, TailFacts
    <3>2. Tail(s)[i - 1] = e /\ i - 1 \in DOMAIN Tail(s)
      BY <2>1, <3>1, TailFacts
    <3>3. QED
      BY <3>2 DEF Range
  <2>4. QED
    BY <2>2, <2>3
<1>3. ASSUME NEW e \in Range(Tail(s)) PROVE e \in Range(s)
  <2>1. PICK i \in 1 .. Len(s) - 1 : e = s[i + 1]
    BY TailFacts DEF Range
  <2>2. i + 1 \in DOMAIN s
    BY TailFacts
  <2>3. QED
    BY <2>1, <2>2 DEF Range
<1>4. QED
  BY <1>1, <1>2, <1>3

LEMMA TailInjective ==
    ASSUME NEW S, NEW s \in Seq(S), s # <<>>, IsInjective(s)
    PROVE  IsInjective(Tail(s)) /\ Head(s) \notin Range(Tail(s))
<1>1. ASSUME NEW i \in 1 .. Len(s) - 1, NEW j \in 1 .. Len(s) - 1,
             Tail(s)[i] = Tail(s)[j]
      PROVE  i = j
  <2>1. /\ i + 1 \in DOMAIN s /\ j + 1 \in DOMAIN s /\ s[i + 1] = s[j + 1]
        /\ i \in Nat /\ j \in Nat
    BY <1>1, TailFacts
  <2>2. i + 1 = j + 1
    BY <2>1 DEF IsInjective
  <2>3. QED
    BY <2>1, <2>2
<1>2. ASSUME NEW i \in 1 .. Len(s) - 1, Tail(s)[i] = Head(s)
      PROVE  FALSE
  <2>1. /\ i + 1 \in DOMAIN s /\ 1 \in DOMAIN s /\ s[i + 1] = s[1] /\ i \in Nat
        /\ i >= 1
    BY <1>2, TailFacts
  <2>2. i + 1 = 1
    BY <2>1 DEF IsInjective
  <2>3. QED
    BY <2>1, <2>2
<1>3. QED
  BY <1>1, <1>2, TailFacts DEF IsInjective, Range

LEMMA AppendFacts ==
    ASSUME NEW S, NEW s \in Seq(S), NEW e \in S
    PROVE  /\ Append(s, e) \in Seq(S)
           /\ DOMAIN s = 1 .. Len(s) /\ Len(s) \in Nat
           /\ DOMAIN Append(s, e) = 1 .. Len(s) + 1
           /\ \A i \in 1 .. Len(s) : Append(s, e)[i] = s[i]
           /\ Append(s, e)[Len(s) + 1] = e
OBVIOUS

LEMMA AppendRange ==
    ASSUME NEW S, NEW s \in Seq(S), NEW e \in S
    PROVE  Range(Append(s, e)) = Range(s) \cup {e}
<1>1. ASSUME NEW d \in Range(Append(s, e)) PROVE d \in Range(s) \cup {e}
  <2>1. PICK i \in 1 .. Len(s) + 1 : d = Append(s, e)[i]
    BY AppendFacts DEF Range
  <2>2. CASE i = Len(s) + 1
    BY <2>1, <2>2, AppendFacts
  <2>3. CASE i # Len(s) + 1
    <3>1. i \in 1 .. Len(s)
      BY <2>3, AppendFacts
    <3>2. QED
      BY <2>1, <3>1, AppendFacts DEF Range
  <2>4. QED
    BY <2>2, <2>3
<1>2. ASSUME NEW d \in Range(s) PROVE d \in Range(Append(s, e))
  <2>1. PICK i \in 1 .. Len(s) : d = s[i]
    BY AppendFacts DEF Range
  <2>2. i \in DOMAIN Append(s, e) /\ Append(s, e)[i] = d
    BY <2>1, AppendFacts
  <2>3. QED
    BY <2>2 DEF Range
<1>3. e \in Range(Append(s, e))
  <2>1. Len(s) + 1 \in DOMAIN Append(s, e)
    BY AppendFacts
  <2>2. QED
    BY <2>1, AppendFacts DEF Range
<1>4. QED
  BY <1>1, <1>2, <1>3

LEMMA AppendInjective ==
    ASSUME NEW S, NEW s \in Seq(S), NEW e \in S, IsInjective(s), e \notin Range(s)
    PROVE  IsInjective(Append(s, e))
<1> SUFFICES ASSUME NEW i \in 1 .. Len(s) + 1, NEW j \in 1 .. Len(s) + 1,
                    Append(s, e)[i] = Append(s, e)[j]
             PROVE  i = j
  BY AppendFacts DEF IsInjective
<1>1. \A k \in 1 .. Len(s) : s[k] # e
  BY AppendFacts DEF Range
<1>2. CASE i \in 1 .. Len(s) /\ j \in 1 .. Len(s)
  BY <1>2, AppendFacts DEF IsInjective
<1>3. CASE i = Len(s) + 1 \/ j = Len(s) + 1
  BY <1>1, <1>3, AppendFacts
<1>4. QED
  BY <1>2, <1>3, AppendFacts

-----------------------------------------------------------------------------
(* Where the main loop has a message that the server has not accepted, and *)
(* where it has given up.                                                  *)
Opening  == {"open", "openAuth", "reopen", "endpoint"}
Sends    == Opening \cup {"connect", "post", "auth"}
EndPlace == {"shutdown", "close", "wait", "exit"}

(* The variables that what is sent depends on.                             *)
sendVars == <<cfg, pc, cur, inner, auth, fetched, posted, denied, accepted,
              redirected>>

SendTypeOK ==
    /\ pc \in PC
    /\ cur \in 0 .. MaxMsgs
    /\ cfg.resolver \in BOOLEAN
    /\ inner \in Wire \cup {"none"}
    /\ auth \in [Wire -> BOOLEAN]
    /\ fetched \in [Wire -> Nat]
    /\ posted \in Seq(Wire \X Msgs \X BOOLEAN)
    /\ denied \in BOOLEAN
    /\ accepted \in Seq(Msgs)
    /\ redirected \subseteq Msgs

(* Each place has the transport it works with behind it.                   *)
PlaceInv ==
    /\ pc \in {"post", "auth", "body"} => inner # "none"
    /\ pc = "connect" => inner = "none"
    /\ pc \in Opening => inner # "sse"
    /\ pc \in Sends => cur \in Msgs

(* The messages that count as sent.                                        *)
Settled == Range(accepted) \cup redirected

(* What was accepted is in order, and all that was read is settled, but    *)
(* for the message that is being sent, or that could not be.               *)
AcceptInv ==
    /\ AcceptedInOrder
    /\ \A m \in Range(accepted) : m <= cur /\ (pc \in Sends => m < cur)
    /\ \A m \in 1 .. cur : m < cur \/ pc \in {"idle", "body"} => m \in Settled

(* A transport has credentials as soon as it asked for them, unless the    *)
(* proxy ends; it asks after a refusal, when it has none.                  *)
AuthInv ==
    /\ \A t \in Wire : /\ fetched[t] > 0 => denied /\ cfg.resolver
                       /\ fetched[t] <= 1
                       /\ pc \notin EndPlace /\ ~auth[t] => fetched[t] = 0
    /\ pc \in {"auth", "openAuth"} => denied
    /\ pc = "auth" => ~auth[inner]
    /\ pc \in {"connect", "open", "openAuth"} => ~auth["sse"]
    /\ inner # "sse" /\ pc \in {"idle", "post", "auth", "body"} => ~auth["sse"]

(* What was posted is no later message, was posted by a transport that was *)
(* connected, with the credentials it has at most; and not as it would be  *)
(* posted now.                                                             *)
PostInv ==
    /\ \A i \in DOMAIN posted :
          /\ posted[i][2] <= cur
          /\ inner # "none"
          /\ posted[i][1] = "sse" => inner = "sse"
          /\ posted[i][3] => auth[posted[i][1]]
          /\ pc = "post" => posted[i] # <<inner, cur, auth[inner]>>
    /\ IsInjective(posted)

IInv == SendTypeOK /\ PlaceInv /\ AcceptInv /\ AuthInv /\ PostInv

LEMMA InitInv == Init => IInv
<1> SUFFICES ASSUME Init
             PROVE  IInv
  OBVIOUS
<1> USE DEF Init, TransportInit
<1>1. SendTypeOK
  <2>1. cfg.resolver \in BOOLEAN
    OBVIOUS
  <2>2. posted \in Seq(Wire \X Msgs \X BOOLEAN) /\ cur \in 0 .. MaxMsgs
    BY TransportAssumption
  <2>3. auth \in [Wire -> BOOLEAN] /\ fetched \in [Wire -> Nat] /\ denied \in BOOLEAN
    OBVIOUS
  <2>4. QED
    BY <2>1, <2>2, <2>3 DEF SendTypeOK, PC
<1>2. PlaceInv
  BY DEF PlaceInv, Opening, Sends
<1>3. AcceptInv
  BY DEF AcceptInv, AcceptedInOrder, Range
<1>4. AuthInv
  BY DEF AuthInv, Wire
<1>5. PostInv
  BY DEF PostInv, IsInjective
<1>6. QED
  BY <1>1, <1>2, <1>3, <1>4, <1>5 DEF IInv

(* The goroutines that pass messages on leave it alone.                    *)
LEMMA Kept ==
    ASSUME IInv, UNCHANGED sendVars
    PROVE  IInv'
BY DEF IInv, SendTypeOK, PlaceInv, AcceptInv, AcceptedInOrder, Settled, AuthInv,
       PostInv, sendVars

(* A step that settles no message.                                         *)
LEMMA AcceptKept ==
    ASSUME SendTypeOK, AcceptInv, UNCHANGED <<accepted, redirected>>,
           \/ /\ cur' = cur
              /\ pc' \in Sends => pc \in Sends
              /\ pc' \in {"idle", "body"} => pc \in {"idle", "body"}
           \/ cur' = cur + 1 /\ pc = "idle" /\ pc' \in Sends
    PROVE  AcceptInv'
<1>1. AcceptedInOrder'
  BY DEF AcceptInv, AcceptedInOrder
<1>2. cur \in Nat /\ Range(accepted) \subseteq Nat
  BY TransportAssumption DEF SendTypeOK, Msgs, Range
<1>3. \A m \in Range(accepted) : m <= cur' /\ (pc' \in Sends => m < cur')
  BY <1>2 DEF AcceptInv
<1>4. \A m \in 1 .. cur' : m < cur' \/ pc' \in {"idle", "body"} => m \in Settled
  BY <1>2 DEF AcceptInv, Sends, Opening
<1>5. QED
  BY <1>1, <1>3, <1>4 DEF AcceptInv, Settled

(* What a step that posts nothing has to keep.                             *)
LEMMA NothingPosted ==
    ASSUME IInv, posted' = posted, cur' \in Nat, cur <= cur',
           inner = "none" \/ (inner' # "none" /\ (inner = "sse" => inner' = "sse")),
           \A t \in Wire : auth[t] => auth'[t],
           pc' = "post" => \A i \in DOMAIN posted :
                               posted[i] # <<inner', cur', auth'[inner']>>
    PROVE  PostInv'
<1> SUFFICES ASSUME NEW i \in DOMAIN posted
             PROVE  /\ posted[i][2] <= cur'
                    /\ inner' # "none"
                    /\ posted[i][1] = "sse" => inner' = "sse"
                    /\ posted[i][3] => auth'[posted[i][1]]
  BY DEF IInv, PostInv
<1>1. posted[i] \in Wire \X Msgs \X BOOLEAN
  BY DEF IInv, SendTypeOK
<1>2. /\ posted[i][2] <= cur
      /\ inner # "none"
      /\ posted[i][1] = "sse" => inner = "sse"
      /\ posted[i][3] => auth[posted[i][1]]
  BY DEF IInv, PostInv
<1>3. posted[i][1] \in Wire /\ posted[i][2] \in Nat /\ cur \in Nat
  BY <1>1, TransportAssumption DEF IInv, SendTypeOK, Msgs
<1>4. QED
  BY <1>2, <1>3

(* A POST that was not made before leaves no two alike.                    *)
LEMMA Posted ==
    ASSUME IInv, pc = "post", PostOnce, UNCHANGED <<cur, inner, auth>>,
           pc' # "post"
    PROVE  posted' \in Seq(Wire \X Msgs \X BOOLEAN) /\ PostInv'
<1> DEFINE p == <<inner, cur, auth[inner]>>
<1>1. p \in Wire \X Msgs \X BOOLEAN
  BY DEF IInv, SendTypeOK, PlaceInv, Sends
<1>2. posted \in Seq(Wire \X Msgs \X BOOLEAN) /\ posted' = Append(posted, p)
  BY DEF IInv, SendTypeOK, PostOnce
<1>3. /\ posted' \in Seq(Wire \X Msgs \X BOOLEAN)
      /\ DOMAIN posted' = 1 .. Len(posted) + 1
      /\ DOMAIN posted = 1 .. Len(posted)
      /\ Len(posted) \in Nat
      /\ \A i \in 1 .. Len(posted) : posted'[i] = posted[i]
      /\ posted'[Len(posted) + 1] = p
  BY <1>1, <1>2
<1>4. \A i \in 1 .. Len(posted) : posted[i] # p
  BY <1>3 DEF IInv, PostInv
<1>5. IsInjective(posted')
  <2> SUFFICES ASSUME NEW a \in 1 .. Len(posted) + 1, NEW b \in 1 .. Len(posted) + 1,
                      posted'[a] = posted'[b]
               PROVE  a = b
    BY <1>3 DEF IsInjective
  <2>1. CASE a \in 1 .. Len(posted) /\ b \in 1 .. Len(posted)
    BY <1>3, <2>1 DEF IInv, PostInv, IsInjective
  <2>2. CASE a = Len(posted) + 1 \/ b = Len(posted) + 1
    BY <1>3, <1>4, <2>2
  <2>3. QED
    BY <1>3, <2>1, <2>2
<1>6. ASSUME NEW i \in DOMAIN posted'
      PROVE  /\ posted'[i][2] <= cur
             /\ inner # "none"
             /\ posted'[i][1] = "sse" => inner = "sse"
             /\ posted'[i][3] => auth[posted'[i][1]]
  <2>1. CASE i \in 1 .. Len(posted)
    BY <1>3, <2>1 DEF IInv, PostInv
  <2>2. CASE i = Len(posted) + 1
    <3>1. posted'[i] = p
      BY <1>3, <2>2
    <3>2. posted'[i][1] = inner /\ posted'[i][2] = cur /\ posted'[i][3] = auth[inner]
      BY <3>1
    <3>3. cur <= cur /\ inner # "none"
      BY <1>1, TransportAssumption DEF Msgs, Wire
    <3>4. QED
      BY <3>2, <3>3
  <2>3. QED
    BY <1>3, <1>6, <2>1, <2>2
<1>7. QED
  BY <1>3, <1>5, <1>6 DEF PostInv

-----------------------------------------------------------------------------
(* The steps of the main loop.  First those that read or end.              *)
LEMMA ReadStep ==
    ASSUME IInv, ReadLine \/ ReadEof \/ CloseDone \/ WaitForwarder \/ Close \/ BodyEnd
    PROVE  IInv'
<1> USE DEF history, connVars
<1>1. CASE ReadLine
  <2>1. cur' = cur + 1 /\ cur' \in Msgs /\ cur \in Nat
    BY <1>1, TransportAssumption DEF ReadLine, IInv, SendTypeOK, Msgs
  <2>a. AcceptInv'
    BY <1>1, <2>1, AcceptKept DEF ReadLine, At, Goto, IInv, Sends, Opening
  <2>2. SendTypeOK' /\ PlaceInv' /\ AcceptInv' /\ AuthInv'
    BY <1>1, <2>1, <2>a, TransportAssumption
       DEF ReadLine, At, Goto, IInv, SendTypeOK, PlaceInv, AuthInv,
           PC, Wire, Opening, Sends, EndPlace, Msgs
  <2>3. ASSUME NEW i \in DOMAIN posted PROVE posted[i] # <<inner, cur + 1, auth[inner]>>
    <3>1. posted[i][2] <= cur
      BY DEF IInv, PostInv
    <3>2. QED
      BY <2>1, <3>1
  <2>4. PostInv'
    BY <1>1, <2>1, <2>3, NothingPosted DEF ReadLine, IInv, PostInv
  <2>5. QED
    BY <2>2, <2>4 DEF IInv
<1>2. CASE ReadEof \/ CloseDone \/ WaitForwarder \/ Close \/ BodyEnd
  <2>1. /\ UNCHANGED <<cfg, cur, inner, auth, fetched, posted, denied, accepted,
                       redirected>>
        /\ pc' \in EndPlace \cup {"idle"}
        /\ pc' = "idle" => pc = "body"
    BY <1>2 DEF ReadEof, CloseDone, WaitForwarder, Close, BodyEnd, At, Goto, EndPlace
  <2>a. AcceptInv'
    BY <2>1, AcceptKept DEF IInv, Sends, Opening, EndPlace
  <2>2. SendTypeOK' /\ PlaceInv' /\ AcceptInv' /\ AuthInv'
    BY <2>1, <2>a DEF IInv, SendTypeOK, PlaceInv, AuthInv,
                      PC, Wire, Opening, Sends, EndPlace
  <2>3. PostInv'
    BY <2>1 DEF IInv, PostInv, EndPlace
  <2>4. QED
    BY <2>2, <2>3 DEF IInv
<1>3. QED
  BY <1>1, <1>2

LEMMA ConnectStep ==
    ASSUME IInv,
           \/ ConnectHttp \/ ConnectSse \/ OpenStream \/ OpenDenied
           \/ EndpointReceived \/ ResolveOk
    PROVE  IInv'
<1> USE DEF history, connVars, pipeVars
<1>u. UNCHANGED <<cfg, cur, posted, accepted, redirected>>
  BY DEF ConnectHttp, ConnectSse, OpenStream, OpenDenied, EndpointReceived, ResolveOk
<1>1. /\ UNCHANGED <<cfg, cur, posted, accepted, redirected>>
      /\ pc \in Sends /\ pc' \in Sends
      /\ \A t \in Wire : auth[t] => auth'[t]
      /\ inner = "none" \/ inner' # "none"
      /\ inner # "sse" \/ inner' = "sse"
      /\ cur \in Nat
  <2>1. pc \in Sends /\ pc' \in Sends
    BY DEF ConnectHttp, ConnectSse, OpenStream, OpenDenied, EndpointReceived,
           ResolveOk, At, Goto, Sends, Opening
  <2>2. \A t \in Wire : auth[t] => auth'[t]
    <3>1. CASE ResolveOk
      BY <3>1 DEF ResolveOk, IInv, SendTypeOK
    <3>2. CASE ~ResolveOk
      BY <3>2 DEF ConnectHttp, ConnectSse, OpenStream, OpenDenied, EndpointReceived
    <3>3. QED
      BY <3>1, <3>2
  <2>3. /\ inner = "none" \/ inner' # "none"
        /\ inner # "sse" \/ inner' = "sse"
    BY DEF ConnectHttp, ConnectSse, OpenStream, OpenDenied, EndpointReceived,
           ResolveOk, At, Opening, IInv, PlaceInv
  <2>4. cur \in Nat
    BY TransportAssumption DEF IInv, SendTypeOK
  <2>5. QED
    BY <1>u, <2>1, <2>2, <2>3, <2>4
<1>2. SendTypeOK'
  <2>1. CASE ~ResolveOk
    <3>1. UNCHANGED <<auth, fetched>> /\ denied' \in BOOLEAN /\ inner' \in Wire \cup {"none"}
      BY <2>1 DEF ConnectHttp, ConnectSse, OpenStream, OpenDenied, EndpointReceived,
                  IInv, SendTypeOK, Wire
    <3>2. QED
      BY <1>1, <3>1 DEF IInv, SendTypeOK, Sends, Opening, PC
  <2>2. CASE ResolveOk
    <3>1. auth' \in [Wire -> BOOLEAN]
      BY <2>2 DEF ResolveOk, IInv, SendTypeOK
    <3>2. Refused \in Wire /\ fetched' \in [Wire -> Nat]
      BY <2>2 DEF ResolveOk, At, Refused, IInv, SendTypeOK, PlaceInv, Wire
    <3>3. UNCHANGED <<inner, denied>>
      BY <2>2 DEF ResolveOk
    <3>4. QED
      BY <1>1, <3>1, <3>2, <3>3 DEF IInv, SendTypeOK, Sends, Opening, PC
  <2>3. QED
    BY <2>1, <2>2
<1>p. PlaceInv'
  BY <1>1
     DEF ConnectHttp, ConnectSse, OpenStream, OpenDenied, EndpointReceived,
         ResolveOk, At, Goto, Sends, Opening, IInv, SendTypeOK, PlaceInv
<1>3. AcceptInv'
  BY <1>1, AcceptKept DEF IInv, Sends, Opening
<1>4. AuthInv'
  <2>1. CASE ~ResolveOk
    BY <2>1
       DEF ConnectHttp, ConnectSse, OpenStream, OpenDenied, EndpointReceived,
           At, Goto, Opening, Sends, EndPlace, IInv, SendTypeOK, PlaceInv, AuthInv,
           Wire
  <2>2. CASE ResolveOk
    <3>1. /\ Refused \in Wire /\ ~auth[Refused] /\ fetched[Refused] = 0 /\ denied
      BY <2>2 DEF ResolveOk, At, Refused, IInv, SendTypeOK, PlaceInv, AuthInv, Wire,
                  EndPlace
    <3>2. /\ fetched' = [fetched EXCEPT ![Refused] = 1]
          /\ auth' = [auth EXCEPT ![Refused] = TRUE]
          /\ UNCHANGED <<denied, cfg, inner>> /\ cfg.resolver
          /\ pc' \in {"reopen", "post"}
          /\ pc' = "post" => Refused = inner
      BY <2>2, <3>1 DEF ResolveOk, Goto, Refused, At, IInv, SendTypeOK
    <3>3. pc \notin EndPlace /\ (inner # "sse" /\ pc' = "post" => ~auth["sse"])
      BY <2>2, <3>2 DEF ResolveOk, At, EndPlace, IInv, AuthInv, Goto
    <3>4. QED
      BY <3>1, <3>2, <3>3 DEF IInv, SendTypeOK, AuthInv, EndPlace, Wire
  <2>3. QED
    BY <2>1, <2>2
<1>5. ASSUME pc' = "post", NEW i \in DOMAIN posted
      PROVE  posted[i] # <<inner', cur', auth'[inner']>>
  <2>1. CASE ConnectHttp \/ EndpointReceived
    <3>1. posted[i][1] # inner'
      BY <2>1 DEF ConnectHttp, EndpointReceived, At, IInv, PlaceInv, PostInv, Opening
    <3>2. QED
      BY <3>1
  <2>2. CASE ResolveOk
    <3>1. auth'[inner'] /\ ~auth[inner] /\ inner' = inner
      BY <1>5, <2>2
         DEF ResolveOk, At, Goto, Refused, IInv, SendTypeOK, PlaceInv, AuthInv, Wire
    <3>2. posted[i][3] => auth[posted[i][1]]
      BY DEF IInv, PostInv
    <3>3. ASSUME posted[i] = <<inner', cur', auth'[inner']>> PROVE FALSE
      <4>1. posted[i][1] = inner' /\ posted[i][3] = auth'[inner']
        BY <3>3
      <4>2. QED
        BY <3>1, <3>2, <4>1
    <3>4. QED
      BY <3>3
  <2>3. QED
    BY <1>5, <2>1, <2>2 DEF ConnectSse, OpenStream, OpenDenied, Goto
<1>6. PostInv'
  BY <1>1, <1>5, NothingPosted
<1>7. QED
  BY <1>2, <1>p, <1>3, <1>4, <1>6 DEF IInv

(* Who gives up before a message is accepted keeps what there is.          *)
LEMMA FailStep ==
    ASSUME IInv, OpenFails \/ EndpointTimeout \/ ResolveFails \/ BodyCut
    PROVE  IInv'
<1> USE DEF history, connVars, pipeVars
<1>1. /\ UNCHANGED <<cfg, cur, inner, auth, posted, denied, accepted, redirected>>
      /\ pc' \in {"exit", "shutdown", "idle"}
      /\ pc' = "idle" => pc = "body" /\ fetched' = fetched
      /\ pc \in Sends \cup {"body"}
  BY DEF OpenFails, EndpointTimeout, ResolveFails, BodyCut, Fail, At, Goto, Sends,
         Opening
<1>2. \/ fetched' = fetched
      \/ /\ cfg.resolver /\ denied
         /\ \E t \in Wire : /\ fetched[t] = 0
                            /\ fetched' = [fetched EXCEPT ![t] = 1]
  <2>1. CASE ResolveFails
    <3>1. Refused \in Wire /\ fetched[Refused] = 0 /\ denied
      BY <2>1 DEF ResolveFails, At, Refused, IInv, SendTypeOK, PlaceInv, AuthInv,
                  Wire, EndPlace
    <3>2. CASE cfg.resolver
      <4>1. fetched' = [fetched EXCEPT ![Refused] = 1]
        BY <2>1, <3>1, <3>2 DEF ResolveFails
      <4>2. QED
        BY <3>1, <3>2, <4>1
    <3>3. CASE ~cfg.resolver
      BY <2>1, <3>1, <3>3 DEF ResolveFails, IInv, SendTypeOK
    <3>4. QED
      BY <3>2, <3>3
  <2>2. QED
    BY <2>1 DEF OpenFails, EndpointTimeout, BodyCut
<1>a. AcceptInv'
  BY <1>1, AcceptKept DEF IInv, Sends, Opening
<1>3. SendTypeOK' /\ PlaceInv' /\ AcceptInv'
  BY <1>1, <1>2, <1>a DEF IInv, SendTypeOK, PlaceInv, PC, Sends, Opening
<1>4. AuthInv'
  BY <1>1, <1>2 DEF IInv, SendTypeOK, PlaceInv, AuthInv, EndPlace, Wire
<1>5. PostInv'
  BY <1>1 DEF IInv, PostInv
<1>6. QED
  BY <1>3, <1>4, <1>5 DEF IInv

(* One POST: whatever the server answers, the message is counted once.     *)
LEMMA PostStep ==
    ASSUME IInv,
           \/ PostAcceptedHttp \/ PostAcceptedSse \/ PostRedirected \/ PostDenied
           \/ Fallback \/ PostFails \/ PostLost
    PROVE  IInv'
<1> USE DEF history, connVars, pipeVars
<1>1. /\ pc = "post" /\ PostOnce
      /\ UNCHANGED <<cfg, cur, inner, auth, fetched>>
      /\ inner # "none"
      /\ pc' \in {"open", "auth", "shutdown", "idle", "body"}
      /\ pc' \in {"open", "auth"} => accepted' = accepted
      /\ pc' = "open" => inner = "http"
  BY DEF PostAcceptedHttp, PostAcceptedSse, PostRedirected, PostDenied, Fallback,
         PostFails, PostLost, PostOnce, Fail, At, Goto, shouldRetryWithAuth, IInv, SendTypeOK,
         PlaceInv
<1>d. /\ denied' \in BOOLEAN /\ (denied => denied')
      /\ pc' = "auth" => denied' /\ ~auth[inner]
  BY DEF PostAcceptedHttp, PostAcceptedSse, PostRedirected, PostDenied, Fallback,
         PostFails, PostLost, Fail, Goto, shouldRetryWithAuth, IInv, SendTypeOK,
         PlaceInv
<1>a. /\ accepted' \in Seq(Msgs) /\ redirected' \subseteq Msgs
      /\ accepted' = accepted \/ accepted' = Append(accepted, cur)
      /\ redirected \subseteq redirected'
      /\ pc' \in {"idle", "body"} => cur \in Range(accepted') \cup redirected'
  <2>1. cur \in Msgs /\ accepted \in Seq(Msgs) /\ redirected \subseteq Msgs
    BY <1>1 DEF IInv, SendTypeOK, PlaceInv, Sends
  <2>2. Append(accepted, cur) \in Seq(Msgs) /\ cur \in Range(Append(accepted, cur))
    BY <2>1, AppendFacts, AppendRange
  <2>3. \/ /\ accepted' = accepted /\ redirected' = redirected
           /\ pc' \notin {"idle", "body"}
        \/ accepted' = Append(accepted, cur) /\ redirected' = redirected
        \/ accepted' = accepted /\ redirected' = redirected \cup {cur}
    BY DEF PostAcceptedHttp, PostAcceptedSse, PostRedirected, PostDenied, Fallback,
           PostFails, PostLost, Fail, Goto
  <2>4. QED
    BY <2>1, <2>2, <2>3
<1>2. posted' \in Seq(Wire \X Msgs \X BOOLEAN) /\ PostInv'
  <2>1. pc' # "post"
    BY <1>1
  <2>2. QED
    BY <1>1, <2>1, Posted
<1>3. SendTypeOK' /\ PlaceInv'
  <2>1. pc' \in PC
    BY <1>1 DEF PC
  <2>2. SendTypeOK'
    BY <1>1, <1>a, <1>d, <1>2, <2>1 DEF IInv, SendTypeOK
  <2>3. QED
    BY <1>1, <2>2 DEF IInv, PlaceInv, Sends, Opening
<1>4. AcceptInv'
  <2>1. /\ cur \in Msgs /\ cur \in Nat /\ pc \in Sends /\ accepted \in Seq(Msgs)
        /\ Msgs \subseteq Nat
        /\ \A m \in Range(accepted) : m < cur
    BY <1>1, TransportAssumption
       DEF IInv, PlaceInv, AcceptInv, SendTypeOK, Sends, Msgs
  <2>2. AcceptedInOrder'
    <3>1. CASE accepted' = accepted
      BY <3>1 DEF IInv, AcceptInv, AcceptedInOrder
    <3>2. CASE accepted' = Append(accepted, cur)
      <4> SUFFICES ASSUME NEW i \in 1 .. Len(accepted) + 1,
                          NEW j \in 1 .. Len(accepted) + 1, i < j
                   PROVE  accepted'[i] < accepted'[j]
        BY <2>1, <3>2, AppendFacts DEF AcceptedInOrder
      <4>1. i \in 1 .. Len(accepted) /\ accepted'[i] = accepted[i]
        BY <2>1, <3>2, AppendFacts
      <4>2. CASE j \in 1 .. Len(accepted)
        <5>1. accepted'[j] = accepted[j]
          BY <2>1, <3>2, <4>2, AppendFacts
        <5>2. QED
          BY <2>1, <4>1, <4>2, <5>1, AppendFacts DEF IInv, AcceptInv, AcceptedInOrder
      <4>3. CASE j = Len(accepted) + 1
        <5>1. accepted'[j] = cur /\ accepted[i] \in Range(accepted)
          BY <2>1, <3>2, <4>1, <4>3, AppendFacts DEF Range
        <5>2. QED
          BY <2>1, <4>1, <5>1
      <4>4. QED
        BY <2>1, <4>2, <4>3, AppendFacts
    <3>3. QED
      BY <1>a, <3>1, <3>2
  <2>a. Range(Append(accepted, cur)) = Range(accepted) \cup {cur}
    BY <2>1, AppendRange
  <2>3. Range(accepted') = Range(accepted) \/ Range(accepted') = Range(accepted) \cup {cur}
    <3>1. CASE accepted' = accepted
      BY <3>1 DEF Range
    <3>2. CASE accepted' = Append(accepted, cur)
      BY <2>a, <3>2 DEF Range
    <3>3. QED
      BY <1>a, <3>1, <3>2
  <2>4. ASSUME NEW m \in Range(accepted') PROVE m <= cur /\ (pc' \in Sends => m < cur)
    <3>1. m \in Range(accepted) \/ m = cur
      BY <2>3
    <3>a. Range(accepted) \subseteq Nat
      BY TransportAssumption DEF IInv, SendTypeOK, Msgs, Range
    <3>2. m \in Nat /\ (m < cur \/ m = cur)
      BY <2>1, <3>1, <3>a
    <3>3. pc' \in Sends => m < cur
      BY <1>1, <2>1 DEF Sends, Opening
    <3>4. QED
      BY <2>1, <3>2, <3>3
  <2>5. ASSUME NEW m \in 1 .. cur, m < cur \/ pc' \in {"idle", "body"}
        PROVE  m \in Settled'
    <3>1. CASE m < cur
      <4>1. m \in Settled
        BY <3>1 DEF IInv, AcceptInv
      <4>2. QED
        BY <1>a, <2>3, <4>1 DEF Settled
    <3>2. CASE m = cur
      BY <1>a, <2>1, <2>5, <3>2 DEF Settled
    <3>3. QED
      BY <2>1, <3>1, <3>2
  <2>6. QED
    BY <1>1, <2>2, <2>4, <2>5 DEF AcceptInv
<1>5. AuthInv'
  BY <1>1, <1>d DEF IInv, SendTypeOK, PlaceInv, AuthInv, EndPlace, Wire
<1>6. QED
  BY <1>2, <1>3, <1>4, <1>5 DEF IInv

LEMMA NextInv == IInv /\ [Next]_vars => IInv'
<1> SUFFICES ASSUME IInv, [Next]_vars
             PROVE  IInv'
  OBVIOUS
<1>1. CASE ReadLine \/ ReadEof \/ CloseDone \/ WaitForwarder \/ Close \/ BodyEnd
  BY <1>1, ReadStep
<1>2. CASE \/ ConnectHttp \/ ConnectSse \/ OpenStream \/ OpenDenied
           \/ EndpointReceived \/ ResolveOk
  BY <1>2, ConnectStep
<1>3. CASE OpenFails \/ EndpointTimeout \/ ResolveFails \/ BodyCut
  BY <1>3, FailStep
<1>4. CASE \/ PostAcceptedHttp \/ PostAcceptedSse \/ PostRedirected \/ PostDenied
           \/ Fallback \/ PostFails \/ PostLost
  BY <1>4, PostStep
<1>5. CASE \/ BodyEvent \/ Streaming \/ ForwarderStep
           \/ \E t \in Wire : Reading(t) \/ Forward(t)
  <2>1. UNCHANGED sendVars
    BY <1>5 DEF BodyEvent, Streaming, ReceiveNote, ReceiveResponse, Receive,
                StreamEnds, Reading, ReaderPushes, ReaderDrops, ForwarderStep, ForwardMsg, SeeDone, ForwarderStops,
                Forward, Take, Put, ForwarderEnd, sendVars, connVars, history,
                transportVars
  <2>2. QED
    BY <2>1, Kept
<1>6. CASE UNCHANGED vars
  BY <1>6, Kept DEF vars, transportVars, connVars, history, sendVars
<1>7. QED
  BY <1>1, <1>2, <1>3, <1>4, <1>5, <1>6 DEF Next, MainStep, Sending

THEOREM Invariance == Spec => []IInv
<1>1. QED
  BY InitInv, NextInv, PTL DEF Spec

(* The server accepts each message once and in order, nothing is sent      *)
(* twice in the same way, and a secret is asked for once by each transport *)
(* and only after a refusal: for any number of messages, in every mode.    *)
THEOREM SentOnce == Spec => []RequestsOnce
<1>1. IInv => AcceptedInOrder
  BY DEF IInv, AcceptInv
<1>2. IInv => NoBlindRetry /\ SecretsOnDemand
  BY DEF IInv, PostInv, AuthInv, NoBlindRetry, SecretsOnDemand
<1>3. QED
  BY <1>1, <1>2, Invariance, PTL DEF RequestsOnce

-----------------------------------------------------------------------------
(* What reaches the client.  An event is in one place at a time, and goes  *)
(* from the head of one to the end of the next.                            *)

(* The places an event passes, each with what is there in its order.       *)
Places == {"body", "gotHttp", "gotSse", "http", "sse", "handHttp", "handSse", "out",
           "delivered"}

Held(m) == IF m = NoMsg THEN <<>> ELSE <<m>>

Line == [body |-> body, gotHttp |-> got["http"], gotSse |-> got["sse"],
         http |-> ch["http"], sse |-> ch["sse"],
         handHttp |-> Held(hand["http"]), handSse |-> Held(hand["sse"]),
         out |-> ch["out"], delivered |-> delivered]

FlowTypeOK ==
    /\ cfg \in [mode : Modes, resolver : BOOLEAN]
    /\ cfg.mode \in Modes
    /\ result \in {"none", "ok", "error"}
    /\ reader \in [Wire -> {"off", "open", "ended"}]
    /\ got \in [Wire -> Seq(Events)]
    /\ cancelled \subseteq Wire
    /\ due \subseteq Msgs
    /\ body \in Seq(Events)
    /\ ch \in [Wire \cup {"out"} -> Seq(Events)]
    /\ fw \in [Wire -> {"off", "on", "cancelled"}]
    /\ hand \in [Wire -> Events \cup {NoMsg}]
    /\ answered \subseteq Events
    /\ dropped \subseteq Events
    /\ sentNotes \subseteq Notes
    /\ fpc \in {"run", "drain", "stopped"}
    /\ done \in BOOLEAN
    /\ delivered \in Seq(Events)

(* No event is in two places, or twice in one.                             *)
OnceInv ==
    /\ \A k \in Places : IsInjective(Line[k])
    /\ \A k, l \in Places : k # l => Range(Line[k]) \cap Range(Line[l]) = {}

(* The responses that are there belong to messages the server has          *)
(* accepted, and are not still to come over SSE; notifications were sent.  *)
SourceInv ==
    /\ \A k \in Places : \A e \in Range(Line[k]) :
          /\ e \in Msgs => e \notin due /\ e <= cur /\ (pc \in Sends => e < cur)
          /\ e \in Notes => e \in sentNotes
    /\ \A m \in due : m <= cur /\ (pc \in Sends => m < cur)

(* What a transport has received and not dropped is in one of the places.  *)
ReceivedInv ==
    \A e \in answered \ dropped : \E k \in Places \ {"body"} : e \in Range(Line[k])

(* Which places are in use.                                                *)
UseInv ==
    /\ body # <<>> => pc = "body"
    /\ pc = "body" => inner = "http"
    /\ cfg.mode # "auto" => /\ ch["out"] = <<>>
                            /\ \A t \in Wire : fw[t] = "off" /\ hand[t] = NoMsg
    /\ inner # "sse" => /\ due = {}
                        /\ fw["sse"] = "off" /\ hand["sse"] = NoMsg
                        /\ \A e \in Range(ch["sse"]) : e \notin Msgs
                        /\ \A e \in Range(got["sse"]) : e \notin Msgs
    /\ \A e \in Range(got["http"]) : e \notin Msgs
    /\ cfg.mode = "http" => /\ inner # "sse" /\ pc \notin Opening
                            /\ reader["sse"] = "off"
                            /\ ch["sse"] = <<>> /\ got["sse"] = <<>>
                            /\ inner = "none" => /\ reader["http"] = "off"
                                                 /\ got["http"] = <<>>
                                                 /\ answered = {}
                            /\ dropped \cap Msgs = {}

(* The shutdown: the forwarder stops with nothing left in the channel.     *)
DrainInv ==
    /\ done => pc \in {"close", "wait", "exit"}
    /\ pc \in {"close", "wait"} => done
    /\ cfg.mode = "http" =>
          /\ fpc # "run" => done
          /\ fpc = "stopped" => \A e \in Range(ch["http"]) : e \notin Msgs
          /\ pc = "exit" => inner = "none" \/ fpc = "stopped"

(* Until the shutdown only notifications are dropped, after a fallback.  A *)
(* reader of SSE that is cancelled has no transport, and the proxy ends.   *)
StopInv ==
    ~done =>
        /\ inner = "http" /\ pc \in Opening => "http" \in cancelled
        /\ "sse" \in cancelled => /\ pc \in EndPlace /\ inner # "sse"
                                  /\ pc = "exit" \/ "http" \in cancelled
        /\ dropped # {} => dropped \cap Msgs = {} /\ "http" \in cancelled

(* The way of a response over Streamable HTTP, from the client's end.      *)
HttpWay == <<"delivered", "out", "handHttp", "http", "body">>

Ascends(s) ==
    \A i, j \in DOMAIN s : i < j /\ s[i] \in Msgs /\ s[j] \in Msgs => s[i] < s[j]

Precedes(s, t) ==
    \A d \in Range(s), e \in Range(t) : d \in Msgs /\ e \in Msgs => d < e

OrderInv ==
    inner # "sse" =>
        /\ \A i \in 1 .. 5 : Ascends(Line[HttpWay[i]])
        /\ \A i, j \in 1 .. 5 : i < j => Precedes(Line[HttpWay[i]], Line[HttpWay[j]])

OutcomeInv == result = "ok" => pc \in EndPlace /\ 1 .. cur \subseteq Settled

FlowInv ==
    /\ FlowTypeOK /\ OnceInv /\ SourceInv /\ ReceivedInv /\ UseInv /\ DrainInv
    /\ StopInv /\ OrderInv /\ OutcomeInv

LEMMA TailAscends ==
    ASSUME NEW s \in Seq(Events), s # <<>>, Ascends(s)
    PROVE  /\ Ascends(Tail(s))
           /\ \A e \in Range(Tail(s)) : Head(s) \in Msgs /\ e \in Msgs => Head(s) < e
<1>1. ASSUME NEW i \in 1 .. Len(s) - 1, NEW j \in 1 .. Len(s) - 1, i < j,
             Tail(s)[i] \in Msgs, Tail(s)[j] \in Msgs
      PROVE  Tail(s)[i] < Tail(s)[j]
  <2>1. i + 1 \in DOMAIN s /\ j + 1 \in DOMAIN s /\ i + 1 < j + 1
    BY <1>1, TailFacts
  <2>2. QED
    BY <1>1, <2>1, TailFacts DEF Ascends
<1>2. ASSUME NEW i \in 1 .. Len(s) - 1, Head(s) \in Msgs, Tail(s)[i] \in Msgs
      PROVE  Head(s) < Tail(s)[i]
  <2>1. i + 1 \in DOMAIN s /\ 1 \in DOMAIN s /\ 1 < i + 1
    BY TailFacts
  <2>2. QED
    BY <1>2, <2>1, TailFacts DEF Ascends
<1>3. QED
  BY <1>1, <1>2, TailFacts DEF Ascends, Range

LEMMA AppendAscends ==
    ASSUME NEW s \in Seq(Events), NEW e \in Events, Ascends(s),
           \A d \in Range(s) : d \in Msgs /\ e \in Msgs => d < e
    PROVE  Ascends(Append(s, e))
<1> SUFFICES ASSUME NEW i \in 1 .. Len(s) + 1, NEW j \in 1 .. Len(s) + 1, i < j,
                    Append(s, e)[i] \in Msgs, Append(s, e)[j] \in Msgs
             PROVE  Append(s, e)[i] < Append(s, e)[j]
  BY AppendFacts DEF Ascends
<1>1. i \in 1 .. Len(s) /\ Append(s, e)[i] = s[i] /\ s[i] \in Range(s)
  BY AppendFacts DEF Range
<1>2. CASE j = Len(s) + 1
  BY <1>1, <1>2, AppendFacts
<1>3. CASE j # Len(s) + 1
  <2>1. j \in 1 .. Len(s)
    BY <1>3, AppendFacts
  <2>2. QED
    BY <1>1, <2>1, AppendFacts DEF Ascends
<1>4. QED
  BY <1>2, <1>3

LEMMA HeldFacts ==
    ASSUME NEW m \in Events \cup {NoMsg}
    PROVE  /\ Held(m) \in Seq(Events)
           /\ m = NoMsg => Held(m) = <<>>
           /\ m # NoMsg => /\ Held(m) = <<m>> /\ Held(m) # <<>>
                           /\ Head(Held(m)) = m /\ Tail(Held(m)) = <<>>
           /\ Range(Held(m)) = {m} \ {NoMsg}
           /\ IsInjective(Held(m)) /\ Ascends(Held(m))
<1>1. CASE m = NoMsg
  BY <1>1 DEF Held, Range, IsInjective, Ascends
<1>2. CASE m # NoMsg
  <2>1. Held(m) = <<m>> /\ m \in Events
    BY <1>2 DEF Held
  <2>2. Range(<<m>>) = {m}
    BY DEF Range
  <2>3. IsInjective(<<m>>) /\ Ascends(<<m>>)
    BY DEF IsInjective, Ascends
  <2>4. <<m>> \in Seq(Events) /\ <<m>> # <<>> /\ Head(<<m>>) = m /\ Tail(<<m>>) = <<>>
    BY <2>1
  <2>5. QED
    BY <1>2, <2>1, <2>2, <2>3, <2>4
<1>3. QED
  BY <1>1, <1>2

LEMMA LineType == ASSUME FlowTypeOK PROVE \A k \in Places : Line[k] \in Seq(Events)
<1>1. Held(hand["http"]) \in Seq(Events) /\ Held(hand["sse"]) \in Seq(Events)
  BY HeldFacts DEF FlowTypeOK, Wire
<1>2. got["http"] \in Seq(Events) /\ got["sse"] \in Seq(Events)
  BY DEF FlowTypeOK, Wire
<1>3. QED
  BY <1>1, <1>2 DEF FlowTypeOK, Line, Places, Wire

-----------------------------------------------------------------------------
(* An event goes from the head of one place to the end of another.         *)
Moves(k, l) ==
    /\ Line[k] # <<>>
    /\ Line'[k] = Tail(Line[k])
    /\ Line'[l] = Append(Line[l], Head(Line[k]))
    /\ \A j \in Places \ {k, l} : Line'[j] = Line[j]

(* It comes from outside.                                                  *)
Comes(e, l) ==
    /\ Line'[l] = Append(Line[l], e)
    /\ \A j \in Places \ {l} : Line'[j] = Line[j]

LEMMA MoveRanges ==
    ASSUME FlowTypeOK, NEW k \in Places, NEW l \in Places, k # l, Moves(k, l)
    PROVE  /\ Head(Line[k]) \in Range(Line[k])
           /\ Range(Line[k]) = Range(Line'[k]) \cup {Head(Line[k])}
           /\ Range(Line'[l]) = Range(Line[l]) \cup {Head(Line[k])}
           /\ \A j \in Places \ {k, l} : Range(Line'[j]) = Range(Line[j])
<1>1. Line[k] \in Seq(Events) /\ Line[l] \in Seq(Events) /\ Line[k] # <<>>
  BY LineType DEF Moves
<1>2. Head(Line[k]) \in Events
  BY <1>1, TailFacts
<1>3. QED
  BY <1>1, <1>2, TailRange, AppendRange DEF Moves

LEMMA MoveOnce ==
    ASSUME FlowTypeOK, OnceInv, NEW k \in Places, NEW l \in Places, k # l, Moves(k, l)
    PROVE  OnceInv'
<1> DEFINE h == Head(Line[k])
<1>1. Line[k] \in Seq(Events) /\ Line[l] \in Seq(Events) /\ Line[k] # <<>>
      /\ h \in Events
  BY LineType, TailFacts DEF Moves
<1>2. IsInjective(Line'[k]) /\ h \notin Range(Line'[k])
  BY <1>1, TailInjective DEF Moves, OnceInv
<1>3. h \in Range(Line[k]) /\ h \notin Range(Line[l])
  BY <1>1, TailRange DEF OnceInv
<1>4. IsInjective(Line'[l])
  BY <1>1, <1>3, AppendInjective DEF Moves, OnceInv
<1>5. \A j \in Places : IsInjective(Line'[j])
  BY <1>2, <1>4 DEF Moves, OnceInv
<1>6. ASSUME NEW i \in Places, NEW j \in Places, i # j
      PROVE  Range(Line'[i]) \cap Range(Line'[j]) = {}
  <2>1. Range(Line[i]) \cap Range(Line[j]) = {}
    BY <1>6 DEF OnceInv
  <2>2. \A m \in Places \ {k} : h \notin Range(Line[m])
    BY <1>3 DEF OnceInv
  <2>3. QED
    BY <1>2, <1>6, <2>1, <2>2, MoveRanges
<1>7. QED
  BY <1>5, <1>6 DEF OnceInv

LEMMA ComeOnce ==
    ASSUME FlowTypeOK, OnceInv, NEW l \in Places, NEW e \in Events, Comes(e, l),
           \A k \in Places : e \notin Range(Line[k])
    PROVE  OnceInv' /\ Range(Line'[l]) = Range(Line[l]) \cup {e}
<1>1. Line[l] \in Seq(Events)
  BY LineType
<1>2. Range(Line'[l]) = Range(Line[l]) \cup {e}
  BY <1>1, AppendRange DEF Comes
<1>3. IsInjective(Line'[l])
  BY <1>1, AppendInjective DEF Comes, OnceInv
<1>4. \A k \in Places : IsInjective(Line'[k])
  BY <1>3 DEF Comes, OnceInv
<1>5. ASSUME NEW i \in Places, NEW j \in Places, i # j
      PROVE  Range(Line'[i]) \cap Range(Line'[j]) = {}
  <2>1. Range(Line[i]) \cap Range(Line[j]) = {}
    BY <1>5 DEF OnceInv
  <2>2. \A m \in Places \ {l} : Range(Line'[m]) = Range(Line[m])
    BY DEF Comes
  <2>3. QED
    BY <1>2, <1>5, <2>1, <2>2
<1>6. QED
  BY <1>2, <1>4, <1>5 DEF OnceInv

(* Nothing comes in, and no message is read back.                          *)
LEMMA SourceKept ==
    ASSUME SourceInv, cur \in Nat, cur' = cur + 1 \/ cur' = cur,
           cur' = cur => (pc' \in Sends => pc \in Sends),
           \A k \in Places : \A e \in Range(Line'[k]) :
               \E j \in Places : e \in Range(Line[j]),
           due' \subseteq due, due \subseteq Msgs, sentNotes \subseteq sentNotes'
    PROVE  SourceInv'
<1>1. Msgs \subseteq Nat
  BY TransportAssumption DEF Msgs
<1>2. ASSUME NEW k \in Places, NEW e \in Range(Line'[k])
      PROVE  /\ e \in Msgs => e \notin due' /\ e <= cur' /\ (pc' \in Sends => e < cur')
             /\ e \in Notes => e \in sentNotes'
  <2>1. PICK j \in Places : e \in Range(Line[j])
    BY <1>2
  <2>2. /\ e \in Msgs => e \notin due /\ e <= cur /\ (pc \in Sends => e < cur)
        /\ e \in Notes => e \in sentNotes
    BY <2>1 DEF SourceInv
  <2>3. e \in Msgs => e \in Nat
    BY <1>1
  <2>4. QED
    BY <2>2, <2>3
<1>3. ASSUME NEW m \in due' PROVE m <= cur' /\ (pc' \in Sends => m < cur')
  <2>1. m \in due /\ m \in Nat
    BY <1>1
  <2>2. QED
    BY <2>1 DEF SourceInv
<1>4. QED
  BY <1>2, <1>3 DEF SourceInv

LEMMA MoveSource ==
    ASSUME FlowTypeOK, SendTypeOK, SourceInv, ReceivedInv,
           NEW k \in Places, NEW l \in Places \ {"body"}, k # l, Moves(k, l),
           UNCHANGED <<pc, cur, due, sentNotes, dropped>>,
           answered' \subseteq answered \cup {Head(Line[k])}
    PROVE  SourceInv' /\ ReceivedInv'
<1>1. SourceInv'
  <2>1. \A j \in Places : \A e \in Range(Line'[j]) :
           \E i \in Places : e \in Range(Line[i])
    BY MoveRanges
  <2>2. due \subseteq Msgs /\ cur \in Nat
    BY DEF FlowTypeOK, SendTypeOK
  <2>3. QED
    BY <2>1, <2>2, SourceKept
<1>2. ReceivedInv'
  <2> SUFFICES ASSUME NEW e \in answered' \ dropped
               PROVE  \E j \in Places \ {"body"} : e \in Range(Line'[j])
    BY DEF ReceivedInv
  <2>1. CASE e = Head(Line[k])
    BY <2>1, MoveRanges
  <2>2. CASE e # Head(Line[k])
    <3>1. PICK j \in Places \ {"body"} : e \in Range(Line[j])
      BY <2>2 DEF ReceivedInv
    <3>2. e \in Range(Line'[j])
      BY <2>2, <3>1, MoveRanges
    <3>3. QED
      BY <3>2
  <2>3. QED
    BY <2>1, <2>2
<1>3. QED
  BY <1>1, <1>2

(* A place that gets no response keeps its order.                          *)
NoResponse(p) ==
    \/ Line'[p] = Line[p] \/ Line'[p] = <<>>
    \/ Line[p] # <<>> /\ Line'[p] = Tail(Line[p])
    \/ \E e \in Events \ Msgs : Line'[p] = Append(Line[p], e)

LEMMA NoResponseFacts ==
    ASSUME FlowTypeOK, NEW p \in Places, NoResponse(p)
    PROVE  /\ Ascends(Line[p]) => Ascends(Line'[p])
           /\ \A e \in Range(Line'[p]) : e \in Msgs => e \in Range(Line[p])
<1>1. Line[p] \in Seq(Events)
  BY LineType
<1>2. CASE Line'[p] = Line[p] \/ Line'[p] = <<>>
  BY <1>2 DEF Ascends, Range
<1>3. CASE Line[p] # <<>> /\ Line'[p] = Tail(Line[p])
  BY <1>1, <1>3, TailAscends, TailRange
<1>4. ASSUME NEW e \in Events \ Msgs, Line'[p] = Append(Line[p], e)
      PROVE  /\ Ascends(Line[p]) => Ascends(Line'[p])
             /\ \A d \in Range(Line'[p]) : d \in Msgs => d \in Range(Line[p])
  BY <1>1, <1>4, AppendAscends, AppendRange
<1>5. QED
  BY <1>2, <1>3, <1>4 DEF NoResponse

LEMMA OnTheWay ==
    /\ \A i \in 1 .. 5 : HttpWay[i] \in Places
    /\ \A i, j \in 1 .. 5 : i # j => HttpWay[i] # HttpWay[j]
BY DEF HttpWay, Places

LEMMA QuietOrder ==
    ASSUME FlowTypeOK, OrderInv, inner' # "sse" => inner # "sse",
           inner # "sse" => \A i \in 1 .. 5 : NoResponse(HttpWay[i])
    PROVE  OrderInv'
<1> SUFFICES ASSUME inner # "sse"
             PROVE  /\ \A i \in 1 .. 5 : Ascends(Line'[HttpWay[i]])
                    /\ \A i, j \in 1 .. 5 :
                          i < j => Precedes(Line'[HttpWay[i]], Line'[HttpWay[j]])
  BY DEF OrderInv, Ascends, Precedes, Msgs, HttpWay
<1>1. ASSUME NEW i \in 1 .. 5
      PROVE  /\ Ascends(Line'[HttpWay[i]])
             /\ \A e \in Range(Line'[HttpWay[i]]) :
                   e \in Msgs => e \in Range(Line[HttpWay[i]])
  BY OnTheWay, NoResponseFacts DEF OrderInv
<1>2. ASSUME NEW i \in 1 .. 5, NEW j \in 1 .. 5, i < j
      PROVE  Precedes(Line'[HttpWay[i]], Line'[HttpWay[j]])
  <2>1. Precedes(Line[HttpWay[i]], Line[HttpWay[j]])
    BY <1>2 DEF OrderInv
  <2>2. QED
    BY <1>1, <2>1 DEF Precedes
<1>3. QED
  BY <1>1, <1>2

(* A response that goes on overtakes nothing that is ahead of it.          *)
LEMMA MoveOrder ==
    ASSUME FlowTypeOK, OrderInv, inner' = inner,
           NEW i \in 1 .. 5, NEW j \in 1 .. 5, i < j,
           Moves(HttpWay[j], HttpWay[i]),
           \A m \in i + 1 .. j - 1 : Line[HttpWay[m]] = <<>>
    PROVE  OrderInv'
<1> DEFINE k == HttpWay[j]
           l == HttpWay[i]
           h == Head(Line[k])
<1> SUFFICES ASSUME inner # "sse"
             PROVE  /\ \A a \in 1 .. 5 : Ascends(Line'[HttpWay[a]])
                    /\ \A a, b \in 1 .. 5 :
                          a < b => Precedes(Line'[HttpWay[a]], Line'[HttpWay[b]])
  BY DEF OrderInv, Ascends, Precedes, Msgs, HttpWay
<1>1. /\ k \in Places /\ l \in Places /\ k # l
      /\ Line[k] \in Seq(Events) /\ Line[l] \in Seq(Events) /\ Line[k] # <<>>
      /\ h \in Events
  BY OnTheWay, LineType, TailFacts DEF Moves
<1>2. /\ \A a \in 1 .. 5 : Ascends(Line[HttpWay[a]])
      /\ \A a, b \in 1 .. 5 : a < b => Precedes(Line[HttpWay[a]], Line[HttpWay[b]])
  BY DEF OrderInv
<1>3. h \in Range(Line[k])
  BY <1>1, TailRange
<1>4. Ascends(Line'[l])
  <2>1. \A d \in Range(Line[l]) : d \in Msgs /\ h \in Msgs => d < h
    BY <1>2, <1>3 DEF Precedes
  <2>2. QED
    BY <1>1, <1>2, <2>1, AppendAscends DEF Moves
<1>5. /\ Ascends(Line'[k])
      /\ \A e \in Range(Line'[k]) : h \in Msgs /\ e \in Msgs => h < e
  BY <1>1, <1>2, TailAscends DEF Moves
<1>6. \A a \in 1 .. 5 : a # i /\ a # j => Line'[HttpWay[a]] = Line[HttpWay[a]]
  BY OnTheWay DEF Moves
<1>7. \A a \in 1 .. 5 : Ascends(Line'[HttpWay[a]])
  BY <1>2, <1>4, <1>5, <1>6
<1>8. /\ Range(Line'[l]) = Range(Line[l]) \cup {h}
      /\ Range(Line'[k]) \subseteq Range(Line[k])
  BY <1>1, MoveRanges
<1>9. ASSUME NEW a \in 1 .. 5, NEW b \in 1 .. 5, a < b,
             NEW d \in Range(Line'[HttpWay[a]]), NEW e \in Range(Line'[HttpWay[b]]),
             d \in Msgs, e \in Msgs
      PROVE  d < e
  <2>1. d \in Range(Line[HttpWay[a]]) \/ (a = i /\ d = h)
    BY <1>6, <1>8
  <2>2. e \in Range(Line[HttpWay[b]]) \/ (b = i /\ e = h)
    BY <1>6, <1>8
  <2>3. CASE d \in Range(Line[HttpWay[a]]) /\ e \in Range(Line[HttpWay[b]])
    BY <1>2, <1>9, <2>3 DEF Precedes
  <2>4. CASE d \in Range(Line[HttpWay[a]]) /\ b = i /\ e = h
    <3>1. Precedes(Line[HttpWay[a]], Line[k])
      BY <1>2, <1>9, <2>4
    <3>2. QED
      BY <1>3, <1>9, <2>4, <3>1 DEF Precedes
  <2>5. CASE a = i /\ d = h /\ b = j
    BY <1>5, <1>9, <2>5
  <2>6. CASE a = i /\ d = h /\ b > j
    <3>1. Precedes(Line[k], Line[HttpWay[b]]) /\ e \in Range(Line[HttpWay[b]])
      BY <1>2, <1>6, <2>6
    <3>2. QED
      BY <1>3, <1>9, <2>6, <3>1 DEF Precedes
  <2>7. CASE a = i /\ b < j
    <3>1. b \in i + 1 .. j - 1 /\ Line'[HttpWay[b]] = <<>>
      BY <1>6, <1>9, <2>7
    <3>2. QED
      BY <1>9, <3>1 DEF Range
  <2>8. QED
    BY <1>9, <2>1, <2>2, <2>3, <2>4, <2>5, <2>6, <2>7
<1>10. QED
  BY <1>7, <1>9 DEF Precedes

-----------------------------------------------------------------------------
(* Steps that pass no event on.                                            *)
lineVars == <<body, got, ch, hand, delivered, due, answered, dropped, sentNotes>>

(* What does not depend on what is in the places alone.                    *)
FrameInv == FlowTypeOK /\ UseInv /\ DrainInv /\ StopInv /\ OutcomeInv

LEMMA LinesKept ==
    ASSUME FlowInv, SendTypeOK, UNCHANGED lineVars,
           cur' = cur + 1 \/ cur' = cur, cur' = cur => (pc' \in Sends => pc \in Sends),
           inner' # "sse" => inner # "sse"
    PROVE  OnceInv' /\ SourceInv' /\ ReceivedInv' /\ OrderInv'
<1>1. Line' = Line
  BY DEF Line, Held, lineVars
<1>2. OnceInv' /\ ReceivedInv'
  BY <1>1 DEF FlowInv, OnceInv, ReceivedInv, lineVars
<1>3. SourceInv'
  <2>1. /\ cur \in Nat /\ due' \subseteq due /\ due \subseteq Msgs
        /\ sentNotes \subseteq sentNotes'
    BY DEF FlowInv, FlowTypeOK, SendTypeOK, lineVars
  <2>2. QED
    BY <1>1, <2>1, SourceKept DEF FlowInv
<1>4. OrderInv'
  BY <1>1, QuietOrder DEF FlowInv, NoResponse
<1>5. QED
  BY <1>2, <1>3, <1>4

(* The types of a step that changes nothing but the verdict.               *)
LEMMA VerdictType ==
    ASSUME FlowTypeOK, UNCHANGED lineVars, UNCHANGED <<cfg, reader, cancelled, fw, fpc>>,
           result' = result \/ result' = "ok", done' = done \/ done' = TRUE
    PROVE  FlowTypeOK'
<1>1. result' \in {"none", "ok", "error"} /\ done' \in BOOLEAN
  BY DEF FlowTypeOK
<1>2. QED
  BY <1>1 DEF FlowTypeOK, lineVars

(* The frame of a step is what its own variables make of it.               *)
LEMMA ReadFrame ==
    ASSUME IInv, FrameInv,
           \/ ReadLine \/ ReadEof \/ CloseDone \/ WaitForwarder
           \/ (Close \/ BodyEnd) /\ UNCHANGED proxyVars
    PROVE  FrameInv' /\ UNCHANGED lineVars
<1> USE DEF history, connVars, pipeVars, proxyVars, At, Goto
<1>1. UNCHANGED lineVars
  BY DEF ReadLine, ReadEof, CloseDone, WaitForwarder, Close, BodyEnd, lineVars
<1>2. FlowTypeOK'
  <2>1. CASE Close
    BY <1>1, <2>1 DEF Close, ReadLine, ReadEof, CloseDone, WaitForwarder, BodyEnd, FrameInv, FlowTypeOK, lineVars
  <2>2. CASE ~Close
    <3>1. /\ UNCHANGED <<cfg, reader, cancelled, fw, fpc>>
          /\ result' = result \/ result' = "ok"
          /\ done' = done \/ done' = TRUE
      BY <2>2 DEF ReadLine, ReadEof, CloseDone, WaitForwarder, BodyEnd
    <3>2. QED
      BY <1>1, <3>1, VerdictType DEF FrameInv
  <2>3. QED
    BY <2>1, <2>2
<1>3. UseInv'
  BY DEF ReadLine, ReadEof, CloseDone, WaitForwarder, Close, BodyEnd, FrameInv,
         UseInv, FlowTypeOK, Opening, Wire
<1>4. DrainInv'
  BY DEF ReadLine, ReadEof, CloseDone, WaitForwarder, Close, BodyEnd, FrameInv,
         DrainInv
<1>5. OutcomeInv'
  <2>1. CASE ReadEof
    <3>1. 1 .. cur \subseteq Settled
      BY <2>1 DEF ReadEof, IInv, AcceptInv
    <3>2. QED
      BY <2>1, <3>1 DEF ReadEof, OutcomeInv, Settled, EndPlace
  <2>2. CASE ~ReadEof
    BY <2>2 DEF ReadLine, CloseDone, WaitForwarder, Close, BodyEnd, FrameInv,
                OutcomeInv, Settled, EndPlace
  <2>3. QED
    BY <2>1, <2>2
<1>6. StopInv'
  <2>1. CASE ReadLine \/ (BodyEnd /\ UNCHANGED proxyVars)
    BY <2>1 DEF ReadLine, BodyEnd, FrameInv, StopInv, Opening, EndPlace
  <2>2. CASE ReadEof
    BY <2>2 DEF ReadEof, FrameInv, StopInv, Opening, EndPlace
  <2>3. CASE WaitForwarder
    BY <2>3 DEF WaitForwarder, FrameInv, StopInv, DrainInv, Opening, EndPlace
  <2>4. CASE CloseDone
    BY <2>4 DEF CloseDone, StopInv
  <2>5. CASE Close /\ UNCHANGED proxyVars
    BY <2>5 DEF Close, FrameInv, StopInv, DrainInv
  <2>6. QED
    BY <2>1, <2>2, <2>3, <2>4, <2>5
<1>7. QED
  BY <1>1, <1>2, <1>3, <1>4, <1>5, <1>6 DEF FrameInv

LEMMA ConnectFrame ==
    ASSUME IInv, FrameInv, UNCHANGED proxyVars,
           \/ ConnectHttp \/ ConnectSse \/ OpenStream \/ OpenDenied
           \/ EndpointReceived \/ ResolveOk
    PROVE  FrameInv' /\ UNCHANGED lineVars
<1> USE DEF history, connVars, pipeVars, proxyVars, At, Goto
<1>1. UNCHANGED lineVars
  BY DEF ConnectHttp, ConnectSse, OpenStream, OpenDenied, EndpointReceived,
         ResolveOk, lineVars
<1>2. FlowTypeOK'
  <2>1. CASE ConnectHttp
    BY <2>1 DEF ConnectHttp, StartReader, StartForwarder, FrameInv, FlowTypeOK
  <2>2. CASE EndpointReceived
    BY <2>2 DEF EndpointReceived, StartForwarder, FrameInv, FlowTypeOK
  <2>3. CASE ConnectSse \/ OpenStream \/ OpenDenied \/ ResolveOk
    BY <2>3 DEF ConnectSse, OpenStream, OpenDenied, ResolveOk, StartReader, FrameInv,
                FlowTypeOK
  <2>4. QED
    BY <2>1, <2>2, <2>3
<1>3. UseInv'
  BY DEF ConnectHttp, ConnectSse, OpenStream, OpenDenied, EndpointReceived,
         ResolveOk, StartReader, StartForwarder, FrameInv, UseInv, FlowTypeOK,
         Opening, Wire, IInv, PlaceInv
<1>4. DrainInv' /\ OutcomeInv' /\ StopInv'
  BY DEF ConnectHttp, ConnectSse, OpenStream, OpenDenied, EndpointReceived,
         ResolveOk, StartReader, FrameInv, DrainInv, OutcomeInv, StopInv, EndPlace,
         Opening, IInv, PlaceInv
<1>5. QED
  BY <1>1, <1>2, <1>3, <1>4 DEF FrameInv

LEMMA FailFrame ==
    ASSUME IInv, FrameInv, UNCHANGED proxyVars,
           OpenFails \/ EndpointTimeout \/ ResolveFails
    PROVE  FrameInv' /\ UNCHANGED lineVars
<1> USE DEF history, connVars, pipeVars, proxyVars, At, Fail
<1>1. UNCHANGED lineVars
  BY DEF OpenFails, EndpointTimeout, ResolveFails, lineVars
<1>2. FlowTypeOK'
  BY DEF OpenFails, EndpointTimeout, ResolveFails, CancelReader, FrameInv,
         FlowTypeOK, Wire, lineVars
<1>3. UseInv'
  BY DEF OpenFails, EndpointTimeout, ResolveFails, FrameInv, UseInv, FlowTypeOK,
         Opening, Wire
<1>4. DrainInv' /\ OutcomeInv'
  BY DEF OpenFails, EndpointTimeout, ResolveFails, FrameInv, DrainInv, OutcomeInv,
         EndPlace
<1>5. StopInv'
  BY DEF OpenFails, EndpointTimeout, ResolveFails, CancelReader, FrameInv, StopInv,
         Opening, EndPlace, Wire, IInv, SendTypeOK, PlaceInv
<1>6. QED
  BY <1>1, <1>2, <1>3, <1>4, <1>5 DEF FrameInv

LEMMA PostFrame ==
    ASSUME IInv, FrameInv, UNCHANGED proxyVars,
           \/ PostDenied \/ Fallback \/ PostFails \/ PostLost
           \/ PostRedirected /\ inner = "sse"
    PROVE  FrameInv' /\ UNCHANGED lineVars
<1> USE DEF history, connVars, pipeVars, proxyVars, At, Goto, Fail, PostOnce
<1>1. UNCHANGED lineVars
  BY DEF PostDenied, Fallback, PostFails, PostLost, PostRedirected, lineVars
<1>2. FlowTypeOK'
  BY DEF PostDenied, Fallback, PostFails, PostLost, PostRedirected, CancelReader,
         FrameInv, FlowTypeOK, Wire
<1>3. UseInv'
  BY DEF PostDenied, Fallback, PostFails, PostLost, PostRedirected, FrameInv, UseInv,
         FlowTypeOK, Opening, Wire, IInv, PlaceInv
<1>4. DrainInv' /\ OutcomeInv'
  BY DEF PostDenied, Fallback, PostFails, PostLost, PostRedirected, FrameInv,
         DrainInv, OutcomeInv, EndPlace, IInv, PlaceInv
<1>5. StopInv'
  BY DEF PostDenied, Fallback, PostFails, PostLost, PostRedirected, CancelReader,
         FrameInv, StopInv, Opening, EndPlace, IInv, PlaceInv
<1>6. QED
  BY <1>1, <1>2, <1>3, <1>4, <1>5 DEF FrameInv

LEMMA EndFrame ==
    ASSUME IInv, FrameInv,
           \/ (\E t \in Wire : StreamEnds(t) \/ ForwarderEnd(t)) /\ UNCHANGED proxyVars
           \/ SeeDone \/ ForwarderStops
           \/ UNCHANGED vars
    PROVE  FrameInv' /\ UNCHANGED lineVars /\ UNCHANGED <<pc, cur, inner>>
<1> USE DEF history, connVars, pipeVars, transportVars, proxyVars, vars
<1>1. UNCHANGED lineVars
      /\ UNCHANGED <<cfg, pc, cur, inner, cancelled, accepted, redirected, result, done>>
  BY DEF StreamEnds, ForwarderEnd, SeeDone, ForwarderStops, lineVars
<1>2. /\ fw' \in [Wire -> {"off", "on", "cancelled"}]
      /\ \A t \in Wire : fw'[t] = fw[t] \/ fw'[t] = "off"
      /\ reader' \in [Wire -> {"off", "open", "ended"}]
      /\ \A t \in Wire : reader'[t] = reader[t] \/ reader[t] # "off"
  <2>1. ASSUME NEW t \in Wire, ForwarderEnd(t)
        PROVE  /\ fw' \in [Wire -> {"off", "on", "cancelled"}]
               /\ \A u \in Wire : fw'[u] = fw[u] \/ fw'[u] = "off"
    BY <2>1 DEF ForwarderEnd, FrameInv, FlowTypeOK
  <2>2. ASSUME NEW t \in Wire, StreamEnds(t)
        PROVE  /\ reader' \in [Wire -> {"off", "open", "ended"}]
               /\ \A u \in Wire : reader'[u] = reader[u] \/ reader[u] # "off"
    BY <2>2 DEF StreamEnds, FrameInv, FlowTypeOK
  <2>3. fw' = fw \/ \E t \in Wire : ForwarderEnd(t)
    BY DEF StreamEnds, SeeDone, ForwarderStops
  <2>4. reader' = reader \/ \E t \in Wire : StreamEnds(t)
    BY DEF ForwarderEnd, SeeDone, ForwarderStops
  <2>5. QED
    BY <2>1, <2>2, <2>3, <2>4 DEF FrameInv, FlowTypeOK
<1>3. FlowTypeOK'
  <2>1. fpc' \in {"run", "drain", "stopped"}
    BY DEF StreamEnds, ForwarderEnd, SeeDone, ForwarderStops, FrameInv, FlowTypeOK
  <2>2. QED
    BY <1>1, <1>2, <2>1 DEF FrameInv, FlowTypeOK, lineVars
<1>u. UseInv'
  BY <1>1, <1>2 DEF FrameInv, UseInv, Wire, Range, lineVars
<1>4. DrainInv'
  BY <1>1 DEF StreamEnds, ForwarderEnd, SeeDone, ForwarderStops, FrameInv,
              DrainInv, MsgCh, MsgChClosed, Range, lineVars
<1>5. OutcomeInv' /\ StopInv'
  BY <1>1 DEF FrameInv, OutcomeInv, StopInv, Settled, lineVars
<1>6. QED
  BY <1>1, <1>3, <1>u, <1>4, <1>5 DEF FrameInv

-----------------------------------------------------------------------------
(* Steps that pass one on.                                                 *)

LEMMA LineFields ==
    /\ Line["body"] = body /\ Line["http"] = ch["http"] /\ Line["sse"] = ch["sse"]
    /\ Line["handHttp"] = Held(hand["http"]) /\ Line["handSse"] = Held(hand["sse"])
    /\ Line["out"] = ch["out"] /\ Line["delivered"] = delivered
    /\ Line["gotHttp"] = got["http"] /\ Line["gotSse"] = got["sse"]
BY DEF Line

(* A forwarder's hand, by the name of its place.                           *)
HandOf(t) == IF t = "http" THEN "handHttp" ELSE "handSse"

LEMMA TakeMoves ==
    ASSUME FlowTypeOK, NEW t \in Wire, Take(t), UNCHANGED proxyVars
    PROVE  Moves(t, HandOf(t)) /\ Head(Line[t]) = Head(ch[t])
<1>1. /\ ch[t] \in Seq(Events) /\ ch[t] # <<>> /\ hand[t] = NoMsg
      /\ Head(ch[t]) \in Events
      /\ hand'[t] = Head(ch[t]) /\ ch'[t] = Tail(ch[t])
      /\ \A u \in Wire \ {t} : hand'[u] = hand[u]
      /\ \A u \in (Wire \cup {"out"}) \ {t} : ch'[u] = ch[u]
      /\ UNCHANGED <<body, got, delivered>>
  BY DEF Take, FlowTypeOK, connVars, proxyVars
<1>2. Held(hand[t]) = <<>> /\ Held(hand'[t]) = <<Head(ch[t])>>
  BY <1>1, TransportAssumption DEF Held
<1>3. Append(<<>>, Head(ch[t])) = <<Head(ch[t])>>
  OBVIOUS
<1>4. CASE t = "http"
  <2>1. /\ Line'["http"] = ch'["http"] /\ Line'["sse"] = ch'["sse"]
        /\ Line'["handHttp"] = Held(hand'["http"])
        /\ Line'["handSse"] = Held(hand'["sse"])
        /\ Line'["out"] = ch'["out"] /\ Line'["delivered"] = delivered
        /\ Line'["gotHttp"] = got["http"] /\ Line'["gotSse"] = got["sse"]
        /\ Line'["body"] = body
    BY <1>1 DEF Line
  <2>2. \A j \in Places \ {t, HandOf(t), "out"} : Line'[j] = Line[j]
    BY <1>1, <1>4, <2>1, LineFields DEF Places, HandOf, Wire
  <2>3. QED
    BY <1>1, <1>2, <1>3, <1>4, <2>1, <2>2, LineFields DEF Moves, HandOf, Wire
<1>5. CASE t = "sse"
  <2>1. /\ Line'["http"] = ch'["http"] /\ Line'["sse"] = ch'["sse"]
        /\ Line'["handHttp"] = Held(hand'["http"])
        /\ Line'["handSse"] = Held(hand'["sse"])
        /\ Line'["out"] = ch'["out"] /\ Line'["delivered"] = delivered
        /\ Line'["gotHttp"] = got["http"] /\ Line'["gotSse"] = got["sse"]
        /\ Line'["body"] = body
    BY <1>1 DEF Line
  <2>2. \A j \in Places \ {t, HandOf(t), "out"} : Line'[j] = Line[j]
    BY <1>1, <1>5, <2>1, LineFields DEF Places, HandOf, Wire
  <2>3. QED
    BY <1>1, <1>2, <1>3, <1>5, <2>1, <2>2, LineFields DEF Moves, HandOf, Wire
<1>6. QED
  BY <1>4, <1>5 DEF Wire

LEMMA PutMoves ==
    ASSUME FlowTypeOK, NEW t \in Wire, Put(t), UNCHANGED proxyVars
    PROVE  Moves(HandOf(t), "out") /\ Head(Line[HandOf(t)]) = hand[t]
<1>1. /\ hand[t] \in Events /\ hand[t] # NoMsg
      /\ hand'[t] = NoMsg
      /\ ch'["out"] = Append(ch["out"], hand[t])
      /\ \A u \in Wire \ {t} : hand'[u] = hand[u]
      /\ \A u \in Wire : ch'[u] = ch[u]
      /\ UNCHANGED <<body, got, delivered>>
  BY DEF Put, Push, FlowTypeOK, connVars, proxyVars, Wire
<1>2. Held(hand'[t]) = <<>> /\ Held(hand[t]) = <<hand[t]>>
  BY <1>1 DEF Held
<1>3. Tail(<<hand[t]>>) = <<>> /\ Head(<<hand[t]>>) = hand[t] /\ <<hand[t]>> # <<>>
  OBVIOUS
<1>4. CASE t = "http"
  <2>1. /\ Line'["http"] = ch'["http"] /\ Line'["sse"] = ch'["sse"]
        /\ Line'["handHttp"] = Held(hand'["http"])
        /\ Line'["handSse"] = Held(hand'["sse"])
        /\ Line'["out"] = ch'["out"] /\ Line'["delivered"] = delivered
        /\ Line'["gotHttp"] = got["http"] /\ Line'["gotSse"] = got["sse"]
        /\ Line'["body"] = body
    BY <1>1 DEF Line
  <2>2. \A j \in Places \ {t, HandOf(t), "out"} : Line'[j] = Line[j]
    BY <1>1, <1>4, <2>1, LineFields DEF Places, HandOf, Wire
  <2>3. QED
    BY <1>1, <1>2, <1>3, <1>4, <2>1, <2>2, LineFields DEF Moves, HandOf, Wire
<1>5. CASE t = "sse"
  <2>1. /\ Line'["http"] = ch'["http"] /\ Line'["sse"] = ch'["sse"]
        /\ Line'["handHttp"] = Held(hand'["http"])
        /\ Line'["handSse"] = Held(hand'["sse"])
        /\ Line'["out"] = ch'["out"] /\ Line'["delivered"] = delivered
        /\ Line'["gotHttp"] = got["http"] /\ Line'["gotSse"] = got["sse"]
        /\ Line'["body"] = body
    BY <1>1 DEF Line
  <2>2. \A j \in Places \ {t, HandOf(t), "out"} : Line'[j] = Line[j]
    BY <1>1, <1>5, <2>1, LineFields DEF Places, HandOf, Wire
  <2>3. QED
    BY <1>1, <1>2, <1>3, <1>5, <2>1, <2>2, LineFields DEF Moves, HandOf, Wire
<1>6. QED
  BY <1>4, <1>5 DEF Wire

LEMMA ForwardMoves ==
    ASSUME FlowTypeOK, ForwardMsg
    PROVE  /\ MsgCh \in Places /\ MsgCh # "delivered" /\ Moves(MsgCh, "delivered")
           /\ Line[MsgCh] = ch[MsgCh]
<1>0. MsgCh \in {"http", "sse", "out"}
  BY TransportAssumption DEF FlowTypeOK, MsgCh
<1>1. /\ ch[MsgCh] # <<>>
      /\ ch'[MsgCh] = Tail(ch[MsgCh])
      /\ delivered' = Append(delivered, Head(ch[MsgCh]))
      /\ \A u \in {"http", "sse", "out"} \ {MsgCh} : ch'[u] = ch[u]
      /\ UNCHANGED <<body, got, hand>>
  BY <1>0 DEF ForwardMsg, FlowTypeOK, Wire, connVars
<1>2. CASE MsgCh = "http"
  BY <1>1, <1>2 DEF Moves, Line, Places
<1>3. CASE MsgCh = "sse"
  BY <1>1, <1>3 DEF Moves, Line, Places
<1>4. CASE MsgCh = "out"
  BY <1>1, <1>4 DEF Moves, Line, Places
<1>5. QED
  BY <1>0, <1>2, <1>3, <1>4

LEMMA BodyMoves ==
    ASSUME FlowTypeOK, BodyEvent, UNCHANGED proxyVars
    PROVE  Moves("body", "http") /\ Head(Line["body"]) = Head(body)
<1>1. /\ body # <<>> /\ body' = Tail(body)
      /\ ch'["http"] = Append(ch["http"], Head(body))
      /\ \A u \in {"sse", "out"} : ch'[u] = ch[u]
      /\ UNCHANGED <<delivered, got, hand>>
  BY DEF BodyEvent, Push, FlowTypeOK, proxyVars, Wire
<1>2. QED
  BY <1>1 DEF Moves, Line, Places

(* What a reader has received, by the name of its place.                   *)
GotOf(t) == IF t = "http" THEN "gotHttp" ELSE "gotSse"

LEMMA PushMoves ==
    ASSUME FlowTypeOK, NEW t \in Wire, ReaderPushes(t), UNCHANGED proxyVars
    PROVE  Moves(GotOf(t), t) /\ Head(Line[GotOf(t)]) = Head(got[t])
<1>1. /\ got[t] # <<>>
      /\ got'[t] = Tail(got[t]) /\ ch'[t] = Append(ch[t], Head(got[t]))
      /\ \A u \in Wire \ {t} : got'[u] = got[u]
      /\ \A u \in (Wire \cup {"out"}) \ {t} : ch'[u] = ch[u]
      /\ UNCHANGED <<body, hand, delivered>>
  BY DEF ReaderPushes, Push, FlowTypeOK, connVars, proxyVars
<1>2. CASE t = "http"
  BY <1>1, <1>2 DEF Moves, Line, Places, GotOf, Wire
<1>3. CASE t = "sse"
  BY <1>1, <1>3 DEF Moves, Line, Places, GotOf, Wire
<1>4. QED
  BY <1>2, <1>3 DEF Wire

LEMMA ReceiveComes ==
    ASSUME FlowTypeOK, NEW t \in Wire, NEW e \in Events, Receive(t, e),
           UNCHANGED proxyVars
    PROVE  Comes(e, GotOf(t))
<1>1. /\ got'[t] = Append(got[t], e)
      /\ \A u \in Wire \ {t} : got'[u] = got[u]
      /\ UNCHANGED <<body, ch, hand, delivered>>
  BY DEF Receive, FlowTypeOK, connVars, proxyVars
<1>2. CASE t = "http"
  BY <1>1, <1>2 DEF Comes, Line, Places, GotOf, Wire
<1>3. CASE t = "sse"
  BY <1>1, <1>3 DEF Comes, Line, Places, GotOf, Wire
<1>4. QED
  BY <1>2, <1>3 DEF Wire

-----------------------------------------------------------------------------
(* A step that passes an event on keeps it in one place.                   *)
LEMMA MoveInv ==
    ASSUME FlowInv, SendTypeOK, NEW k \in Places, NEW l \in Places \ {"body"}, k # l,
           Moves(k, l), UNCHANGED <<pc, cur, due, sentNotes, dropped>>,
           answered' \subseteq answered \cup {Head(Line[k])}
    PROVE  OnceInv' /\ SourceInv' /\ ReceivedInv'
BY MoveOnce, MoveSource DEF FlowInv

(* What comes in is a notification, or a response that was due.            *)
LEMMA ComeInv ==
    ASSUME FlowInv, NEW l \in Places \ {"body"}, NEW e \in Events, Comes(e, l),
           \A k \in Places : e \notin Range(Line[k]),
           answered' = answered \cup {e}, UNCHANGED <<pc, cur, dropped>>,
           due' \subseteq due, sentNotes \subseteq sentNotes',
           e \in Msgs => e \notin due' /\ e <= cur /\ (pc \in Sends => e < cur),
           e \in Notes => e \in sentNotes'
    PROVE  OnceInv' /\ SourceInv' /\ ReceivedInv'
<1>1. OnceInv' /\ Range(Line'[l]) = Range(Line[l]) \cup {e}
  BY ComeOnce DEF FlowInv
<1>2. \A k \in Places \ {l} : Range(Line'[k]) = Range(Line[k])
  BY DEF Comes
<1>3. SourceInv'
  <2>1. ASSUME NEW k \in Places, NEW d \in Range(Line'[k])
        PROVE  /\ d \in Msgs => d \notin due' /\ d <= cur /\ (pc \in Sends => d < cur)
               /\ d \in Notes => d \in sentNotes'
    <3>1. d = e \/ d \in Range(Line[k])
      BY <1>1, <1>2, <2>1
    <3>2. QED
      BY <3>1 DEF FlowInv, SourceInv
  <2>2. QED
    BY <2>1 DEF FlowInv, SourceInv
<1>4. ReceivedInv'
  BY <1>1, <1>2 DEF FlowInv, ReceivedInv
<1>5. QED
  BY <1>1, <1>3, <1>4

LEMMA TakeStep ==
    ASSUME IInv, FlowInv, NEW t \in Wire, Take(t) \/ Put(t), UNCHANGED proxyVars
    PROVE  FlowInv'
<1> DEFINE k == IF Take(t) THEN t ELSE HandOf(t)
           l == IF Take(t) THEN HandOf(t) ELSE "out"
<1> USE DEF FlowInv
<1>1. Moves(k, l) /\ k \in Places /\ l \in Places \ {"body"} /\ k # l
  BY TakeMoves, PutMoves DEF Places, HandOf, Wire
<1>2. /\ cfg.mode = "auto" /\ fw[t] # "off"
      /\ UNCHANGED <<cfg, pc, cur, inner, accepted, redirected, result, body, due,
                     got, answered, dropped, sentNotes, reader, cancelled, fw, fpc, done>>
  BY DEF Take, Put, UseInv, connVars, history, proxyVars
<1>3. OnceInv' /\ SourceInv' /\ ReceivedInv'
  <2>1. answered' \subseteq answered \cup {Head(Line[k])} /\ SendTypeOK
    BY <1>2 DEF IInv
  <2>2. UNCHANGED <<pc, cur, due, sentNotes, dropped>>
    BY <1>2
  <2>3. QED
    BY <1>1, <2>1, <2>2, MoveInv
<1>4. FlowTypeOK'
  <2>1. ch' \in [Wire \cup {"out"} -> Seq(Events)]
    <3>1. CASE Take(t)
      <4>1. ch[t] # <<>> /\ ch[t] \in Seq(Events) /\ ch' = [ch EXCEPT ![t] = Tail(@)]
        BY <3>1 DEF Take, FlowTypeOK
      <4>2. QED
        BY <4>1 DEF FlowTypeOK
    <3>2. CASE Put(t)
      BY <3>2 DEF Put, Push, FlowTypeOK
    <3>3. QED
      BY <3>1, <3>2
  <2>2. hand' \in [Wire -> Events \cup {NoMsg}]
    <3>1. ch[t] # <<>> => Head(ch[t]) \in Events
      BY DEF FlowTypeOK
    <3>2. CASE Take(t)
      BY <3>1, <3>2 DEF Take, FlowTypeOK
    <3>3. CASE Put(t)
      BY <3>3 DEF Put, FlowTypeOK
    <3>4. QED
      BY <3>2, <3>3
  <2>3. delivered' = delivered
    BY DEF proxyVars
  <2>4. QED
    BY <1>2, <2>1, <2>2, <2>3 DEF FlowTypeOK
<1>5. UseInv' /\ DrainInv' /\ OutcomeInv' /\ StopInv'
  <2>1. inner # "sse" => t = "http"
    BY <1>2 DEF UseInv, Wire
  <2>2. t = "http" => hand'["sse"] = hand["sse"] /\ ch'["sse"] = ch["sse"]
    BY DEF Take, Put, Push, FlowTypeOK, Wire
  <2>3. QED
    BY <1>2, <2>1, <2>2 DEF UseInv, DrainInv, OutcomeInv, Settled, StopInv
<1>6. OrderInv'
  <2>1. CASE inner = "sse"
    BY <1>2, <2>1, QuietOrder
  <2>2. CASE inner # "sse" /\ Take(t)
    <3>1. t = "http"
      BY <1>2, <2>2 DEF UseInv, Wire
    <3>2. k = HttpWay[4] /\ l = HttpWay[3] /\ 3 + 1 .. 4 - 1 = {}
      BY <2>2, <3>1 DEF HandOf, HttpWay
    <3>3. QED
      BY <1>1, <1>2, <3>2, MoveOrder
  <2>3. CASE inner # "sse" /\ ~Take(t)
    <3>1. t = "http"
      BY <1>2, <2>3 DEF UseInv, Wire
    <3>2. k = HttpWay[3] /\ l = HttpWay[2] /\ 2 + 1 .. 3 - 1 = {}
      BY <2>3, <3>1 DEF HandOf, HttpWay
    <3>3. QED
      BY <1>1, <1>2, <3>2, MoveOrder
  <2>4. QED
    BY <2>1, <2>2, <2>3
<1>7. QED
  BY <1>3, <1>4, <1>5, <1>6

LEMMA ForwardStep ==
    ASSUME IInv, FlowInv, ForwardMsg
    PROVE  FlowInv'
<1> USE DEF FlowInv
<1>1. /\ MsgCh \in Places /\ MsgCh # "delivered" /\ Moves(MsgCh, "delivered")
      /\ Line[MsgCh] = ch[MsgCh] /\ MsgCh \in {"http", "sse", "out"}
  <2>1. MsgCh \in {"http", "sse", "out"}
    BY TransportAssumption DEF FlowTypeOK, MsgCh
  <2>2. QED
    BY <2>1, ForwardMoves
<1>2. /\ fpc # "stopped"
      /\ UNCHANGED <<cfg, pc, cur, inner, accepted, redirected, result, body, due,
                     got, answered, dropped, sentNotes, reader, cancelled, fw, hand, fpc, done>>
  BY DEF ForwardMsg, connVars, history
<1>3. OnceInv' /\ SourceInv' /\ ReceivedInv'
  <2>1. /\ answered' \subseteq answered \cup {Head(Line[MsgCh])} /\ SendTypeOK
        /\ UNCHANGED <<pc, cur, due, sentNotes, dropped>>
        /\ "delivered" \in Places \ {"body"}
    BY <1>2 DEF IInv, Places
  <2>2. QED
    BY <1>1, <2>1, MoveInv
<1>4. Head(ch[MsgCh]) \in Events /\ Head(ch[MsgCh]) \in Range(ch[MsgCh])
      /\ Range(ch'[MsgCh]) \subseteq Range(ch[MsgCh])
      /\ ch'[MsgCh] \in Seq(Events)
      /\ \A c \in {"http", "sse", "out"} \ {MsgCh} : ch'[c] = ch[c]
  <2>1. ch[MsgCh] \in Seq(Events) /\ ch[MsgCh] # <<>> /\ ch'[MsgCh] = Tail(ch[MsgCh])
    BY <1>1 DEF ForwardMsg, FlowTypeOK, Wire
  <2>2. \A c \in {"http", "sse", "out"} \ {MsgCh} : ch'[c] = ch[c]
    BY <1>1 DEF ForwardMsg, FlowTypeOK, Wire
  <2>3. QED
    BY <2>1, <2>2, TailFacts, TailRange
<1>5. FlowTypeOK'
  <2>1. delivered' \in Seq(Events)
    BY <1>4 DEF ForwardMsg, FlowTypeOK
  <2>2. ch' \in [Wire \cup {"out"} -> Seq(Events)]
    BY <1>4 DEF ForwardMsg, FlowTypeOK
  <2>3. QED
    BY <1>2, <2>1, <2>2 DEF FlowTypeOK
<1>6. UseInv' /\ DrainInv' /\ OutcomeInv' /\ StopInv'
  <2>1. \A c \in {"sse", "out"} : ch[c] = <<>> => ch'[c] = <<>>
    BY <1>1, <1>4 DEF ForwardMsg
  <2>2. \A e \in Range(ch'["sse"]) : e \in Range(ch["sse"])
    BY <1>1, <1>4
  <2>3. QED
    BY <1>2, <2>1, <2>2 DEF UseInv, DrainInv, OutcomeInv, Settled, StopInv
<1>7. OrderInv'
  <2>1. CASE cfg.mode = "auto"
    <3>1. MsgCh = HttpWay[2] /\ "delivered" = HttpWay[1] /\ 1 + 1 .. 2 - 1 = {}
      BY <2>1 DEF MsgCh, HttpWay
    <3>2. QED
      BY <1>1, <1>2, <3>1, MoveOrder
  <2>2. CASE cfg.mode = "http"
    <3>1. MsgCh = HttpWay[4] /\ "delivered" = HttpWay[1] /\ 1 + 1 .. 4 - 1 = {2, 3}
      BY <2>2 DEF MsgCh, HttpWay
    <3>2. Line[HttpWay[2]] = <<>> /\ Line[HttpWay[3]] = <<>>
      BY <2>2, LineFields DEF UseInv, HttpWay, Held, Wire
    <3>3. QED
      BY <1>1, <1>2, <3>1, <3>2, MoveOrder
  <2>3. CASE cfg.mode = "sse"
    <3>1. MsgCh = "sse"
      BY <2>3 DEF MsgCh
    <3>2. inner # "sse" => Head(ch["sse"]) \in Events \ Msgs
      BY <1>4, <3>1 DEF UseInv
    <3>3. inner # "sse" => \A i \in 1 .. 5 : NoResponse(HttpWay[i])
      BY <1>1, <3>1, <3>2 DEF NoResponse, Moves, HttpWay, Places
    <3>4. QED
      BY <1>2, <3>3, QuietOrder
  <2>4. QED
    BY <2>1, <2>2, <2>3, TransportAssumption DEF FlowTypeOK
<1>8. QED
  BY <1>3, <1>5, <1>6, <1>7

LEMMA BodyStep ==
    ASSUME IInv, FlowInv, BodyEvent, UNCHANGED proxyVars
    PROVE  FlowInv'
<1> USE DEF FlowInv
<1>1. Moves("body", "http") /\ Head(Line["body"]) = Head(body)
  BY BodyMoves
<1>2. /\ pc = "body" /\ body # <<>> /\ body' = Tail(body)
      /\ ch' = [ch EXCEPT !["http"] = Append(@, Head(body))]
      /\ answered' = answered \cup {Head(body)}
      /\ UNCHANGED <<cfg, pc, cur, inner, accepted, redirected, result, due, got,
                     dropped, sentNotes, reader, cancelled,
                     fw, hand, fpc, done, delivered>>
  BY DEF BodyEvent, At, Push, proxyVars
<1>3. OnceInv' /\ SourceInv' /\ ReceivedInv'
  <2>1. /\ answered' \subseteq answered \cup {Head(Line["body"])} /\ SendTypeOK
        /\ UNCHANGED <<pc, cur, due, sentNotes, dropped>>
        /\ "body" \in Places /\ "http" \in Places \ {"body"} /\ "body" # "http"
    BY <1>1, <1>2 DEF IInv, Places
  <2>2. QED
    BY <1>1, <2>1, MoveInv
<1>4. FlowTypeOK'
  <2>1. Head(body) \in Events /\ Tail(body) \in Seq(Events)
    BY <1>2 DEF FlowTypeOK
  <2>2. body' \in Seq(Events) /\ answered' \subseteq Events
    BY <1>2, <2>1 DEF FlowTypeOK
  <2>3. ch' \in [Wire \cup {"out"} -> Seq(Events)]
    <3>1. ch["http"] \in Seq(Events)
      BY DEF FlowTypeOK, Wire
    <3>2. Append(ch["http"], Head(body)) \in Seq(Events)
      BY <2>1, <3>1
    <3>3. QED
      BY <1>2, <3>2 DEF FlowTypeOK
  <2>4. QED
    BY <1>2, <2>2, <2>3 DEF FlowTypeOK
<1>5. ch'["sse"] = ch["sse"] /\ ch'["out"] = ch["out"]
  BY <1>2 DEF FlowTypeOK, Wire
<1>6. UseInv' /\ DrainInv' /\ OutcomeInv' /\ StopInv'
  BY <1>2, <1>5 DEF UseInv, DrainInv, OutcomeInv, Settled, StopInv, EndPlace
<1>7. OrderInv'
  <2>1. "body" = HttpWay[5] /\ "http" = HttpWay[4] /\ 4 + 1 .. 5 - 1 = {}
    BY DEF HttpWay
  <2>2. QED
    BY <1>1, <1>2, <2>1, MoveOrder
<1>8. QED
  BY <1>3, <1>4, <1>6, <1>7

LEMMA CutStep ==
    ASSUME IInv, FlowInv, BodyCut, UNCHANGED proxyVars
    PROVE  FlowInv'
<1> USE DEF FlowInv
<1>1. /\ pc = "body" /\ body' = <<>>
      /\ UNCHANGED <<cfg, cur, inner, auth, accepted, redirected, due, got, dropped,
                     sentNotes, answered, reader, cancelled,
                     ch, fw, hand, fpc, done, delivered>>
      /\ \/ pc' = "idle" /\ result' = result
         \/ pc' = "shutdown" /\ result' = "error"
  BY DEF BodyCut, At, Goto, pipeVars, history, proxyVars
<1>2. /\ Line'["body"] = <<>>
      /\ \A k \in Places \ {"body"} : Line'[k] = Line[k]
  <2>1. Line' = [Line EXCEPT !["body"] = <<>>]
    BY <1>1 DEF Line, Held
  <2>2. QED
    BY <2>1 DEF Line, Places
<1>3. OnceInv'
  <2>1. IsInjective(<<>>) /\ Range(<<>>) = {}
    BY DEF IsInjective, Range
  <2>2. \A k \in Places : IsInjective(Line'[k])
    BY <1>2, <2>1 DEF OnceInv
  <2>3. \A k \in Places : Range(Line'[k]) \subseteq Range(Line[k])
    BY <1>2, <2>1
  <2>4. \A k, l \in Places : k # l => Range(Line'[k]) \cap Range(Line'[l]) = {}
    BY <2>3 DEF OnceInv
  <2>5. QED
    BY <2>2, <2>4 DEF OnceInv
<1>4. SourceInv'
  <2>1. \A k \in Places : \A e \in Range(Line'[k]) :
           \E j \in Places : e \in Range(Line[j])
    BY <1>2 DEF Range
  <2>2. cur \in Nat /\ due \subseteq Msgs /\ pc' \notin Sends
    <3>1. pc' \notin Sends
      BY <1>1 DEF Sends, Opening
    <3>2. QED
      BY <3>1 DEF IInv, SendTypeOK, FlowTypeOK
  <2>3. QED
    BY <1>1, <2>1, <2>2, SourceKept
<1>5. ReceivedInv'
  BY <1>1, <1>2 DEF ReceivedInv
<1>6. FlowTypeOK' /\ UseInv' /\ DrainInv' /\ OutcomeInv' /\ StopInv'
  <2>1. FlowTypeOK'
    <3>1. result' \in {"none", "ok", "error"} /\ <<>> \in Seq(Events)
      BY <1>1 DEF FlowTypeOK
    <3>2. QED
      BY <1>1, <3>1 DEF FlowTypeOK
  <2>2. UseInv'
    BY <1>1 DEF UseInv, Opening
  <2>3. DrainInv' /\ OutcomeInv' /\ StopInv'
    BY <1>1 DEF DrainInv, OutcomeInv, Settled, StopInv, EndPlace, Opening
  <2>4. QED
    BY <2>1, <2>2, <2>3
<1>7. OrderInv'
  <2>1. \A i \in 1 .. 5 : NoResponse(HttpWay[i])
    BY <1>2, OnTheWay DEF NoResponse
  <2>2. QED
    BY <1>1, <2>1, QuietOrder
<1>8. QED
  BY <1>3, <1>4, <1>5, <1>6, <1>7

(* Readers receive an event, pass it on, or drop what they have.           *)
LEMMA ReceiveStep ==
    ASSUME IInv, FlowInv, NEW t \in Wire, NEW e \in Events,
           \/ e \in Notes /\ ReceiveNote(t, e)
           \/ e \in Msgs /\ t = "sse" /\ ReceiveResponse(e),
           UNCHANGED proxyVars
    PROVE  FlowInv'
<1> USE DEF FlowInv
<1>1. /\ Receive(t, e) /\ reader[t] = "open"
      /\ answered' = answered \cup {e} /\ due' \subseteq due
      /\ sentNotes \subseteq sentNotes' /\ sentNotes' \subseteq Notes
      /\ got' = [got EXCEPT ![t] = Append(@, e)]
      /\ UNCHANGED <<cfg, pc, cur, inner, accepted, redirected, result, body, reader,
                     cancelled, ch, fw, hand, dropped, fpc, done, delivered>>
  BY DEF ReceiveNote, ReceiveResponse, Receive, connVars, proxyVars, FlowTypeOK
<1>2. /\ e \in Msgs => /\ e \in due /\ t = "sse" /\ inner = "sse" /\ e \notin due'
                       /\ e <= cur /\ (pc \in Sends => e < cur)
      /\ e \in Notes => e \notin sentNotes /\ e \in sentNotes' /\ due' = due
  BY TransportAssumption DEF ReceiveNote, ReceiveResponse, SourceInv, UseInv
<1>3. Comes(e, GotOf(t)) /\ GotOf(t) \in Places \ {"body"}
  BY <1>1, ReceiveComes DEF GotOf, Places
<1>4. OnceInv' /\ SourceInv' /\ ReceivedInv'
  <2>1. \A k \in Places : e \notin Range(Line[k])
    BY <1>2 DEF SourceInv, Events
  <2>2. UNCHANGED <<pc, cur, dropped>>
    BY <1>1
  <2>3. QED
    BY <1>1, <1>2, <1>3, <2>1, <2>2, ComeInv
<1>5. /\ got[t] \in Seq(Events) /\ got'[t] = Append(got[t], e)
      /\ Range(got'[t]) = Range(got[t]) \cup {e}
      /\ \A u \in Wire \ {t} : got'[u] = got[u]
  BY <1>1, AppendRange DEF FlowTypeOK
<1>6. FlowTypeOK'
  <2>1. got' \in [Wire -> Seq(Events)]
    <3>1. Append(got[t], e) \in Seq(Events)
      BY <1>5
    <3>2. QED
      BY <1>1, <3>1 DEF FlowTypeOK
  <2>2. answered' \subseteq Events /\ due' \subseteq Msgs
    BY <1>1 DEF FlowTypeOK
  <2>3. QED
    BY <1>1, <2>1, <2>2 DEF FlowTypeOK
<1>7. UseInv'
  <2>1. cfg.mode = "http" => t = "http" /\ inner # "none" /\ got'["sse"] = got["sse"]
    BY <1>1, <1>5 DEF UseInv, Wire
  <2>2. /\ \A d \in Range(got'["http"]) : d \in Range(got["http"]) \/ (d = e /\ t = "http")
        /\ \A d \in Range(got'["sse"]) : d \in Range(got["sse"]) \/ (d = e /\ t = "sse")
    BY <1>5 DEF Wire
  <2>3. e \in Msgs => inner = "sse" /\ t = "sse"
    BY <1>2
  <2>4. cfg.mode = "http" => inner # "none"
    BY <2>1
  <2>5. /\ \A d \in Range(got'["http"]) : d \notin Msgs
        /\ inner # "sse" => \A d \in Range(got'["sse"]) : d \notin Msgs
    BY <2>2, <2>3 DEF UseInv
  <2>6. inner # "sse" => due' = {}
    BY <1>1 DEF UseInv
  <2>7. QED
    BY <1>1, <2>1, <2>4, <2>5, <2>6 DEF UseInv
<1>8. DrainInv' /\ OutcomeInv' /\ StopInv'
  BY <1>1 DEF DrainInv, OutcomeInv, Settled, StopInv
<1>9. OrderInv'
  <2>1. \A i \in 1 .. 5 : NoResponse(HttpWay[i])
    BY <1>3 DEF NoResponse, Comes, HttpWay, Places, GotOf
  <2>2. QED
    BY <1>1, <2>1, QuietOrder
<1>10. QED
  BY <1>4, <1>6, <1>7, <1>8, <1>9

LEMMA PassStep ==
    ASSUME IInv, FlowInv, NEW t \in Wire, ReaderPushes(t), UNCHANGED proxyVars
    PROVE  FlowInv'
<1> DEFINE h == Head(got[t])
<1> USE DEF FlowInv
<1>1. /\ Moves(GotOf(t), t) /\ Head(Line[GotOf(t)]) = h
      /\ GotOf(t) \in Places /\ t \in Places \ {"body"} /\ GotOf(t) # t
  BY PushMoves DEF GotOf, Places, Wire
<1>2. /\ got[t] # <<>> /\ got[t] \in Seq(Events)
      /\ got' = [got EXCEPT ![t] = Tail(@)] /\ ch' = [ch EXCEPT ![t] = Append(@, h)]
      /\ UNCHANGED <<cfg, pc, cur, inner, accepted, redirected, result, body, due,
                     answered, dropped, sentNotes, reader, cancelled, fw, hand, fpc,
                     done, delivered>>
  BY DEF ReaderPushes, Push, FlowTypeOK, connVars, history, proxyVars
<1>3. OnceInv' /\ SourceInv' /\ ReceivedInv'
  <2>1. /\ answered' \subseteq answered \cup {Head(Line[GotOf(t)])} /\ SendTypeOK
        /\ UNCHANGED <<pc, cur, due, sentNotes, dropped>>
    BY <1>2 DEF IInv
  <2>2. QED
    BY <1>1, <2>1, MoveInv
<1>4. /\ h \in Events /\ h \in Range(got[t])
      /\ ch[t] \in Seq(Events) /\ ch'[t] = Append(ch[t], h) /\ ch'[t] \in Seq(Events)
      /\ Range(ch'[t]) = Range(ch[t]) \cup {h}
      /\ got'[t] = Tail(got[t]) /\ got'[t] \in Seq(Events)
      /\ Range(got'[t]) \subseteq Range(got[t])
      /\ \A u \in Wire \ {t} : got'[u] = got[u] /\ ch'[u] = ch[u]
      /\ ch'["out"] = ch["out"]
  <2>1. /\ h \in Events /\ h \in Range(got[t]) /\ Tail(got[t]) \in Seq(Events)
        /\ Range(Tail(got[t])) \subseteq Range(got[t])
    BY <1>2, TailFacts, TailRange
  <2>2. ch[t] \in Seq(Events) /\ ch'[t] = Append(ch[t], h)
    BY <1>2 DEF FlowTypeOK
  <2>3. ch'[t] \in Seq(Events) /\ Range(ch'[t]) = Range(ch[t]) \cup {h}
    BY <2>1, <2>2, AppendFacts, AppendRange
  <2>4. /\ got'[t] = Tail(got[t]) /\ ch'["out"] = ch["out"]
        /\ \A u \in Wire \ {t} : got'[u] = got[u] /\ ch'[u] = ch[u]
    BY <1>2 DEF FlowTypeOK, Wire
  <2>5. QED
    BY <2>1, <2>2, <2>3, <2>4
<1>5. inner # "sse" => h \notin Msgs
  BY <1>4 DEF UseInv, Wire
<1>n. t = "http" => h \notin Msgs
  BY <1>4 DEF UseInv
<1>6. FlowTypeOK'
  BY <1>2, <1>4 DEF FlowTypeOK
<1>7. UseInv'
  <2>1. cfg.mode = "http" => t = "http"
    BY <1>2 DEF UseInv, Wire
  <2>2. CASE t = "http"
    BY <1>2, <1>4, <2>2 DEF UseInv, Wire
  <2>3. CASE t = "sse"
    BY <1>2, <1>4, <1>5, <2>1, <2>3 DEF UseInv, Wire
  <2>4. QED
    BY <2>2, <2>3 DEF Wire
<1>8. DrainInv' /\ OutcomeInv' /\ StopInv'
  <2>1. \A e \in Range(ch'["http"]) : e \in Msgs => e \in Range(ch["http"])
    BY <1>4, <1>n DEF Wire
  <2>2. QED
    BY <1>2, <2>1 DEF DrainInv, OutcomeInv, Settled, StopInv
<1>9. OrderInv'
  <2>1. inner # "sse" => NoResponse(t)
    BY <1>1, <1>4, <1>5 DEF Moves, NoResponse
  <2>2. \A k \in Places \ {t, GotOf(t)} : NoResponse(k)
    BY <1>1 DEF Moves, NoResponse
  <2>3. \A i \in 1 .. 5 : HttpWay[i] \in Places \ {GotOf(t)}
    BY OnTheWay DEF HttpWay, GotOf, Places
  <2>4. QED
    BY <1>2, <2>1, <2>2, <2>3, QuietOrder
<1>10. QED
  BY <1>3, <1>6, <1>7, <1>8, <1>9

LEMMA DropStep ==
    ASSUME IInv, FlowInv, NEW t \in Wire, ReaderDrops(t), pc # "exit",
           UNCHANGED proxyVars
    PROVE  FlowInv'
<1> USE DEF FlowInv
<1>1. /\ t \in cancelled /\ got[t] \in Seq(Events)
      /\ reader' = [reader EXCEPT ![t] = "ended"] /\ got' = [got EXCEPT ![t] = <<>>]
      /\ dropped' = dropped \cup Range(got[t])
      /\ UNCHANGED <<cfg, pc, cur, inner, accepted, redirected, result, body, due, ch,
                     answered, sentNotes, cancelled, fw, hand, fpc, done, delivered>>
  BY DEF ReaderDrops, FlowTypeOK, connVars, proxyVars
<1>2. /\ got'[t] = <<>> /\ \A u \in Wire \ {t} : got'[u] = got[u]
      /\ \A u \in Wire \ {t} : reader'[u] = reader[u]
      /\ Range(<<>>) = {} /\ IsInjective(<<>>)
  BY <1>1 DEF FlowTypeOK, Range, IsInjective
<1>3. /\ Line'[GotOf(t)] = <<>> /\ Line[GotOf(t)] = got[t] /\ GotOf(t) \in Places
      /\ \A k \in Places \ {GotOf(t)} : Line'[k] = Line[k]
  <2>1. CASE t = "http"
    BY <1>1, <1>2, <2>1 DEF Line, Places, GotOf, Wire
  <2>2. CASE t = "sse"
    BY <1>1, <1>2, <2>2 DEF Line, Places, GotOf, Wire
  <2>3. QED
    BY <2>1, <2>2 DEF Wire
<1>4. OnceInv'
  <2>1. \A k \in Places : IsInjective(Line'[k])
    BY <1>2, <1>3 DEF OnceInv
  <2>2. \A k \in Places : Range(Line'[k]) \subseteq Range(Line[k])
    BY <1>2, <1>3
  <2>3. \A k, l \in Places : k # l => Range(Line'[k]) \cap Range(Line'[l]) = {}
    BY <2>2 DEF OnceInv
  <2>4. QED
    BY <2>1, <2>3 DEF OnceInv
<1>5. SourceInv'
  <2>1. \A k \in Places : \A e \in Range(Line'[k]) :
           \E j \in Places : e \in Range(Line[j])
    BY <1>2, <1>3
  <2>2. cur \in Nat /\ due \subseteq Msgs
    BY DEF IInv, SendTypeOK, FlowTypeOK
  <2>3. QED
    BY <1>1, <2>1, <2>2, SourceKept
<1>6. ReceivedInv'
  <2> SUFFICES ASSUME NEW e \in answered \ dropped, e \notin Range(got[t])
               PROVE  \E k \in Places \ {"body"} : e \in Range(Line'[k])
    BY <1>1 DEF ReceivedInv
  <2>1. PICK k \in Places \ {"body"} : e \in Range(Line[k])
    BY DEF ReceivedInv
  <2>2. k # GotOf(t)
    BY <1>3, <2>1
  <2>3. QED
    BY <1>3, <2>1, <2>2
<1>7. FlowTypeOK'
  <2>1. Range(got[t]) \subseteq Events
    BY <1>1 DEF Range
  <2>2. <<>> \in Seq(Events)
    OBVIOUS
  <2>3. QED
    BY <1>1, <2>1, <2>2 DEF FlowTypeOK
<1>8. UseInv'
  <2>1. cfg.mode = "http" => t = "http"
    BY DEF ReaderDrops, UseInv, Wire
  <2>2. CASE t = "http"
    <3>1. /\ got'["http"] = <<>> /\ got'["sse"] = got["sse"]
          /\ reader'["sse"] = reader["sse"]
          /\ \A e \in Range(got["http"]) : e \notin Msgs
      BY <1>2, <2>2 DEF Wire, UseInv
    <3>2. cfg.mode = "http" => inner # "none"
      BY <1>1, <2>2 DEF ReaderDrops, UseInv
    <3>3. cfg.mode = "http" => dropped' \cap Msgs = {}
      <4>1. cfg.mode = "http" => dropped \cap Msgs = {}
        BY DEF UseInv
      <4>2. QED
        BY <1>1, <2>2, <3>1, <4>1
    <3>4. QED
      BY <1>1, <1>2, <3>1, <3>2, <3>3 DEF UseInv
  <2>3. CASE t = "sse"
    <3>1. got'["sse"] = <<>> /\ got'["http"] = got["http"] /\ cfg.mode # "http"
      BY <1>2, <2>1, <2>3 DEF Wire
    <3>2. QED
      BY <1>1, <1>2, <3>1 DEF UseInv
  <2>4. QED
    BY <2>2, <2>3 DEF Wire
<1>9. StopInv'
  <2> SUFFICES ASSUME ~done
               PROVE  "http" \in cancelled /\ Range(got[t]) \cap Msgs = {}
    BY <1>1 DEF StopInv
  <2>1. CASE t = "http"
    BY <1>1, <2>1 DEF UseInv
  <2>2. CASE t = "sse"
    BY <1>1, <2>2 DEF StopInv, UseInv
  <2>3. QED
    BY <2>1, <2>2 DEF Wire
<1>10. DrainInv' /\ OutcomeInv'
  BY <1>1 DEF DrainInv, OutcomeInv, Settled
<1>11. OrderInv'
  <2>1. \A i \in 1 .. 5 : NoResponse(HttpWay[i])
    BY <1>3, OnTheWay DEF NoResponse
  <2>2. QED
    BY <1>1, <2>1, QuietOrder
<1>12. QED
  BY <1>4, <1>5, <1>6, <1>7, <1>8, <1>9, <1>10, <1>11

LEMMA AcceptSseStep ==
    ASSUME IInv, FlowInv, PostAcceptedSse, UNCHANGED proxyVars
    PROVE  FlowInv'
<1> USE DEF FlowInv
<1>1. /\ pc = "post" /\ pc' = "idle" /\ inner = "sse" /\ cur \in Msgs
      /\ due' = due \cup {cur}
      /\ UNCHANGED <<cfg, cur, inner, result, body, got, answered, dropped, sentNotes,
                     reader, cancelled, ch, fw, hand, fpc, done, delivered>>
  BY DEF PostAcceptedSse, PostOnce, At, Goto, connVars, proxyVars, IInv, PlaceInv,
         Sends
<1>2. Line' = Line
  BY <1>1 DEF Line, Held
<1>3. OnceInv' /\ ReceivedInv' /\ OrderInv'
  BY <1>1, <1>2 DEF OnceInv, ReceivedInv, OrderInv
<1>4. SourceInv'
  <2>1. pc \in Sends /\ pc' \notin Sends /\ cur \in Nat /\ Msgs \subseteq Nat
    BY <1>1, TransportAssumption DEF Sends, Opening, Msgs
  <2>2. ASSUME NEW k \in Places, NEW e \in Range(Line[k])
        PROVE  /\ e \in Msgs => e \notin due' /\ e <= cur
               /\ e \in Notes => e \in sentNotes
    BY <1>1, <2>1, <2>2 DEF SourceInv
  <2>3. \A m \in due' : m <= cur
    BY <1>1, <2>1 DEF SourceInv
  <2>4. QED
    BY <1>1, <1>2, <2>1, <2>2, <2>3 DEF SourceInv
<1>5. FlowTypeOK' /\ DrainInv' /\ OutcomeInv' /\ StopInv'
  BY <1>1 DEF FlowTypeOK, DrainInv, OutcomeInv, StopInv, EndPlace, Opening
<1>6. UseInv'
  BY <1>1 DEF UseInv, Opening
<1>7. QED
  BY <1>3, <1>4, <1>5, <1>6

(* A response of Streamable HTTP: the answer, after a notification or not, *)
(* or a page.                                                              *)
LEMMA BodyFacts ==
    ASSUME cur \in Msgs, NEW b \in Bodies \cup Pages
    PROVE  /\ b \in Seq(Events) /\ IsInjective(b) /\ Ascends(b)
           /\ \A e \in Range(b) : e = cur \/ e \in Notes \ sentNotes
<1>1. CASE b = <<>>
  BY <1>1 DEF IsInjective, Ascends, Range
<1>2. CASE b = <<cur>>
  BY <1>2 DEF IsInjective, Ascends, Range, Events
<1>3. ASSUME NEW n \in Notes \ sentNotes, b = <<n, cur>>
      PROVE  /\ b \in Seq(Events) /\ IsInjective(b) /\ Ascends(b)
             /\ \A e \in Range(b) : e = cur \/ e \in Notes \ sentNotes
  <2>1. n # cur /\ n \notin Msgs /\ n \in Events /\ cur \in Events
    BY <1>3, TransportAssumption DEF Events
  <2>2. b \in Seq(Events) /\ DOMAIN b = 1 .. 2 /\ b[1] = n /\ b[2] = cur
    BY <1>3, <2>1
  <2>3. QED
    BY <2>1, <2>2 DEF IsInjective, Ascends, Range
<1>4. ASSUME NEW n \in Notes \ sentNotes, b = <<n>>
      PROVE  /\ b \in Seq(Events) /\ IsInjective(b) /\ Ascends(b)
             /\ \A e \in Range(b) : e = cur \/ e \in Notes \ sentNotes
  <2>1. b \in Seq(Events) /\ DOMAIN b = 1 .. 1 /\ b[1] = n
    BY <1>4 DEF Events
  <2>2. QED
    BY <2>1 DEF IsInjective, Ascends, Range
<1>5. QED
  BY <1>1, <1>2, <1>3, <1>4 DEF Bodies, Pages

LEMMA AcceptHttpStep ==
    ASSUME IInv, FlowInv, inner = "http", PostAcceptedHttp \/ PostRedirected,
           UNCHANGED proxyVars
    PROVE  FlowInv'
<1> USE DEF FlowInv
<1>1. /\ pc = "post" /\ pc' = "body" /\ inner = "http" /\ cur \in Msgs
      /\ body = <<>> /\ result # "ok"
      /\ UNCHANGED <<cfg, cur, inner, result, due, got, answered, dropped, reader,
                     cancelled, ch, fw, hand, fpc, done, delivered>>
  BY DEF PostAcceptedHttp, PostRedirected, PostOnce, At, Goto, pipeVars, proxyVars, IInv, PlaceInv,
         Sends, UseInv, OutcomeInv, EndPlace
<1>2. PICK b \in Bodies \cup Pages :
          body' = b /\ sentNotes' = sentNotes \cup (Range(b) \cap Notes)
  BY DEF PostAcceptedHttp, PostRedirected, Says
<1>3. /\ b \in Seq(Events) /\ IsInjective(b) /\ Ascends(b)
      /\ \A e \in Range(b) : e = cur \/ e \in Notes \ sentNotes
  BY <1>1, BodyFacts
<1>4. /\ Line'["body"] = b /\ Line["body"] = <<>>
      /\ \A k \in Places \ {"body"} : Line'[k] = Line[k]
  <2>1. Line' = [Line EXCEPT !["body"] = b]
    BY <1>1, <1>2 DEF Line, Held
  <2>2. QED
    BY <1>1, <2>1 DEF Line, Places
<1>5. \A k \in Places : \A e \in Range(Line[k]) :
         /\ e \in Msgs => e \notin due /\ e < cur
         /\ e \in Notes => e \in sentNotes
  BY <1>1 DEF SourceInv, Sends
<1>6. cur \in Nat /\ Msgs \subseteq Nat /\ Notes \cap Msgs = {}
  BY <1>1, TransportAssumption DEF Msgs
<1>7. OnceInv'
  <2>1. \A k \in Places : IsInjective(Line'[k])
    BY <1>3, <1>4 DEF OnceInv
  <2>2. \A k \in Places \ {"body"} : Range(b) \cap Range(Line[k]) = {}
    BY <1>1, <1>3, <1>5, <1>6
  <2>3. ASSUME NEW k \in Places, NEW l \in Places, k # l
        PROVE  Range(Line'[k]) \cap Range(Line'[l]) = {}
    BY <1>4, <2>2, <2>3 DEF OnceInv
  <2>4. QED
    BY <2>1, <2>3 DEF OnceInv
<1>8. SourceInv'
  <2>1. pc' \notin Sends
    BY <1>1 DEF Sends, Opening
  <2>2. \A m \in due : m < cur
    BY <1>1 DEF SourceInv, Sends
  <2>3. ASSUME NEW e \in Range(b)
        PROVE  /\ e \in Msgs => e \notin due /\ e <= cur
               /\ e \in Notes => e \in sentNotes'
    BY <1>1, <1>2, <1>3, <1>6, <2>2, <2>3
  <2>4. ASSUME NEW k \in Places \ {"body"}, NEW e \in Range(Line[k])
        PROVE  /\ e \in Msgs => e \notin due /\ e <= cur
               /\ e \in Notes => e \in sentNotes'
    <3>1. /\ e \in Msgs => e \notin due /\ e < cur
          /\ e \in Notes => e \in sentNotes
      BY <1>5, <2>4
    <3>2. e \in Msgs => e \in Nat
      BY <1>6
    <3>3. sentNotes \subseteq sentNotes'
      BY <1>2
    <3>4. QED
      BY <1>6, <3>1, <3>2, <3>3
  <2>5. \A m \in due : m <= cur
    BY <1>6, <2>2 DEF FlowTypeOK
  <2>6. QED
    BY <1>1, <1>4, <2>1, <2>3, <2>4, <2>5 DEF SourceInv
<1>9. ReceivedInv'
  BY <1>1, <1>4 DEF ReceivedInv
<1>10. FlowTypeOK'
  BY <1>1, <1>2, <1>3 DEF FlowTypeOK
<1>11. UseInv' /\ DrainInv' /\ OutcomeInv' /\ StopInv'
  BY <1>1 DEF UseInv, DrainInv, OutcomeInv, StopInv, Opening, EndPlace
<1>12. OrderInv'
  <2>1. HttpWay[5] = "body" /\ \A i \in 1 .. 4 : HttpWay[i] \in Places \ {"body"}
    BY DEF HttpWay, Places
  <2>2. \A i \in 1 .. 5 : Ascends(Line'[HttpWay[i]])
    <3>1. \A i \in 1 .. 4 : Ascends(Line'[HttpWay[i]])
      BY <1>1, <1>4, <2>1 DEF OrderInv
    <3>2. QED
      BY <1>3, <1>4, <2>1, <3>1
  <2>3. ASSUME NEW i \in 1 .. 5, NEW j \in 1 .. 5, i < j
        PROVE  Precedes(Line'[HttpWay[i]], Line'[HttpWay[j]])
    <3>1. i \in 1 .. 4 /\ Line'[HttpWay[i]] = Line[HttpWay[i]]
      BY <1>4, <2>1, <2>3
    <3>2. CASE j \in 1 .. 4
      BY <1>1, <1>4, <2>1, <2>3, <3>1, <3>2 DEF OrderInv
    <3>3. CASE j = 5
      <4>1. \A e \in Range(b) : e \in Msgs => e = cur
        BY <1>3, <1>6
      <4>2. \A d \in Range(Line[HttpWay[i]]) : d \in Msgs => d < cur
        BY <1>5, <2>1, <3>1
      <4>3. QED
        BY <1>4, <2>1, <3>1, <3>3, <4>1, <4>2 DEF Precedes
    <3>4. QED
      BY <3>2, <3>3
  <2>4. QED
    BY <1>1, <2>2, <2>3 DEF OrderInv, Ascends, Precedes, Msgs, HttpWay
<1>13. QED
  BY <1>7, <1>8, <1>9, <1>10, <1>11, <1>12

-----------------------------------------------------------------------------
LEMMA FlowNext == IInv /\ FlowInv /\ [Next]_vars => FlowInv'
<1> SUFFICES ASSUME IInv, FlowInv, [Next]_vars
             PROVE  FlowInv'
  OBVIOUS
<1>1. SendTypeOK /\ FrameInv
  BY DEF IInv, FlowInv, FrameInv
<1>2. CASE \/ ReadLine \/ ReadEof \/ CloseDone \/ WaitForwarder
           \/ (Close \/ BodyEnd) /\ UNCHANGED proxyVars
  <2>1. FrameInv' /\ UNCHANGED lineVars
    BY <1>1, <1>2, ReadFrame
  <2>2. /\ inner' = inner
        /\ cur' = cur + 1 \/ (cur' = cur /\ pc' \notin Sends)
    BY <1>2 DEF ReadLine, ReadEof, CloseDone, WaitForwarder, Close, BodyEnd, At,
                Goto, connVars, Sends, Opening
  <2>3. cur' = cur => pc' \notin Sends
    BY <1>1, <2>2, TransportAssumption DEF SendTypeOK
  <2>4. OnceInv' /\ SourceInv' /\ ReceivedInv' /\ OrderInv'
    BY <1>1, <2>1, <2>2, <2>3, LinesKept
  <2>5. QED
    BY <2>1, <2>4 DEF FlowInv, FrameInv
<1>3. CASE /\ \/ ConnectHttp \/ ConnectSse \/ OpenStream \/ OpenDenied
              \/ EndpointReceived \/ ResolveOk
           /\ UNCHANGED proxyVars
  <2>1. FrameInv' /\ UNCHANGED lineVars
    BY <1>1, <1>3, ConnectFrame
  <2>2. /\ cur' = cur /\ pc \in Sends
        /\ inner' # "sse" => inner # "sse"
    BY <1>3 DEF ConnectHttp, ConnectSse, OpenStream, OpenDenied, EndpointReceived,
                ResolveOk, At, connVars, Sends, Opening, IInv, PlaceInv
  <2>3. QED
    BY <1>1, <2>1, <2>2, LinesKept DEF FlowInv, FrameInv
<1>4. CASE (OpenFails \/ EndpointTimeout \/ ResolveFails) /\ UNCHANGED proxyVars
  <2>1. FrameInv' /\ UNCHANGED lineVars
    BY <1>1, <1>4, FailFrame
  <2>2. cur' = cur /\ pc \in Sends /\ inner' = inner
    BY <1>4 DEF OpenFails, EndpointTimeout, ResolveFails, Fail, At, Sends, Opening
  <2>3. QED
    BY <1>1, <2>1, <2>2, LinesKept DEF FlowInv, FrameInv
<1>5. CASE /\ \/ PostDenied \/ Fallback \/ PostFails \/ PostLost
              \/ PostRedirected /\ inner = "sse"
           /\ UNCHANGED proxyVars
  <2>1. FrameInv' /\ UNCHANGED lineVars
    BY <1>1, <1>5, PostFrame
  <2>2. cur' = cur /\ pc \in Sends /\ inner' = inner
    BY <1>5 DEF PostDenied, Fallback, PostFails, PostLost, PostRedirected, PostOnce,
                Fail, At, connVars, Sends, Opening
  <2>3. QED
    BY <1>1, <2>1, <2>2, LinesKept DEF FlowInv, FrameInv
<1>6. CASE \/ (\E t \in Wire : StreamEnds(t) \/ ForwarderEnd(t)) /\ UNCHANGED proxyVars
           \/ SeeDone \/ ForwarderStops
           \/ UNCHANGED vars
  <2>1. FrameInv' /\ UNCHANGED lineVars /\ UNCHANGED <<pc, cur, inner>>
    BY <1>1, <1>6, EndFrame
  <2>2. QED
    BY <1>1, <2>1, LinesKept DEF FlowInv, FrameInv
<1>7. CASE /\ PostAcceptedHttp \/ (PostRedirected /\ inner = "http")
           /\ UNCHANGED proxyVars
  BY <1>7, AcceptHttpStep DEF PostAcceptedHttp
<1>r. PostRedirected => inner \in Wire
  BY <1>1 DEF PostRedirected, PostOnce, At, IInv, PlaceInv, SendTypeOK
<1>8. CASE PostAcceptedSse /\ UNCHANGED proxyVars
  BY <1>8, AcceptSseStep
<1>9. CASE (BodyEvent \/ BodyCut) /\ UNCHANGED proxyVars
  BY <1>9, BodyStep, CutStep
<1>10. ASSUME NEW t \in Wire, NEW n \in Notes, ReceiveNote(t, n), UNCHANGED proxyVars
       PROVE  FlowInv'
  BY <1>10, ReceiveStep DEF Events
<1>11. ASSUME NEW m \in Msgs, ReceiveResponse(m), UNCHANGED proxyVars
       PROVE  FlowInv'
  BY <1>11, ReceiveStep DEF Events, Wire
<1>p. ASSUME NEW t \in Wire, Reading(t), pc # "exit"
      PROVE  FlowInv'
  BY <1>p, PassStep, DropStep DEF Reading
<1>12. ASSUME NEW t \in Wire, Take(t) \/ Put(t), UNCHANGED proxyVars
       PROVE  FlowInv'
  BY <1>12, TakeStep
<1>13. CASE ForwardMsg
  BY <1>13, ForwardStep
<1>14. CASE MainStep
  BY <1>2, <1>3, <1>4, <1>5, <1>7, <1>r, <1>8, <1>9, <1>14 DEF MainStep, Sending, Wire
<1>15. CASE Streaming /\ UNCHANGED proxyVars
  BY <1>6, <1>10, <1>11, <1>15 DEF Streaming
<1>16. CASE pc # "exit" /\ \E t \in Wire : Reading(t) \/ Forward(t)
  BY <1>6, <1>12, <1>p, <1>16 DEF Forward
<1>17. QED
  BY <1>2, <1>6, <1>9, <1>13, <1>14, <1>15, <1>16 DEF Next, ForwarderStep

LEMMA FlowInit == Init => FlowInv
<1> SUFFICES ASSUME Init
             PROVE  FlowInv
  OBVIOUS
<1> USE DEF Init, TransportInit
<1>1. \A k \in Places : Line[k] = <<>>
  BY DEF Line, Places, Held, Wire
<1>2. Range(<<>>) = {} /\ IsInjective(<<>>) /\ Ascends(<<>>)
  BY DEF Range, IsInjective, Ascends
<1>3. FlowTypeOK
  <2>1. <<>> \in Seq(Events) /\ cfg.mode \in Modes
    OBVIOUS
  <2>2. /\ ch \in [Wire \cup {"out"} -> Seq(Events)]
        /\ fw \in [Wire -> {"off", "on", "cancelled"}]
        /\ hand \in [Wire -> Events \cup {NoMsg}]
        /\ reader \in [Wire -> {"off", "open", "ended"}]
        /\ got \in [Wire -> Seq(Events)]
    BY <2>1
  <2>3. QED
    BY <2>1, <2>2 DEF FlowTypeOK
<1>4. OnceInv /\ SourceInv /\ ReceivedInv
  BY <1>1, <1>2 DEF OnceInv, SourceInv, ReceivedInv
<1>5. UseInv /\ DrainInv /\ OutcomeInv /\ StopInv
  BY DEF UseInv, DrainInv, OutcomeInv, StopInv, Wire, Opening, Range
<1>6. OrderInv
  BY <1>1, <1>2, OnTheWay DEF OrderInv, Precedes
<1>7. QED
  BY <1>3, <1>4, <1>5, <1>6 DEF FlowInv

THEOREM FlowInvariance == Spec => [](IInv /\ FlowInv)
<1>1. Init => IInv /\ FlowInv
  BY InitInv, FlowInit
<1>2. IInv /\ FlowInv /\ [Next]_vars => (IInv /\ FlowInv)'
  BY NextInv, FlowNext
<1>3. QED
  BY <1>1, <1>2, PTL DEF Spec

(* What the server says reaches the client: nothing is written to stdout   *)
(* twice, though two forwarders work side by side after a fallback; what a *)
(* transport has received is under way until the shutdown, but for the     *)
(* notifications that a reader drops when a fallback cancels it; over      *)
(* Streamable HTTP every response survives the shutdown too; and without a *)
(* fallback responses come in the order of their requests.  For any number *)
(* of messages and notifications, any capacity of the channels and of the  *)
(* reader's buffer and in every mode.                                      *)
THEOREM NothingLostOrTwice == Spec => []ResponsesKept
<1> SUFFICES ASSUME IInv, FlowInv
             PROVE  ResponsesKept
  BY FlowInvariance, PTL
<1> USE DEF FlowInv
<1>1. TypeOK
  BY DEF TypeOK, TransportTypeOK, IInv, SendTypeOK, FlowTypeOK
<1>2. DeliveredOnce
  BY LineFields DEF DeliveredOnce, OnceInv, Places
<1>3. NoneLostWhileRunning
  <2> SUFFICES ASSUME NEW e \in answered \ dropped
               PROVE  e \in Delivered \/ InPipe(e)
    BY DEF NoneLostWhileRunning, StopInv
  <2>1. PICK k \in Places \ {"body"} : e \in Range(Line[k])
    BY DEF ReceivedInv
  <2>2. \A t \in {"http", "sse", "out"} : e \in Range(ch[t]) => InPipe(e)
    BY DEF InPipe, FlowTypeOK, Wire
  <2>3. \A t \in Wire : e \in Range(Held(hand[t])) \/ e \in Range(got[t]) => InPipe(e)
    <3>1. ASSUME NEW t \in Wire PROVE Range(Held(hand[t])) \subseteq {hand[t]}
      <4>1. hand[t] \in Events \cup {NoMsg}
        BY DEF FlowTypeOK
      <4>2. QED
        BY <4>1, HeldFacts
    <3>2. QED
      BY <3>1 DEF InPipe
  <2>4. QED
    BY <2>1, <2>2, <2>3, LineFields DEF Places, Delivered, Wire
<1>4. HttpLosesNothing
  <2> SUFFICES ASSUME pc = "exit", cfg.mode = "http", NEW m \in Msgs \cap answered
               PROVE  m \in Delivered
    BY DEF HttpLosesNothing
  <2>1. inner # "none" /\ fpc = "stopped" /\ m \notin dropped
    BY DEF UseInv, DrainInv
  <2>2. PICK k \in Places \ {"body"} : m \in Range(Line[k])
    BY <2>1 DEF ReceivedInv
  <2>3. /\ m \notin Range(ch["http"]) /\ ch["sse"] = <<>> /\ ch["out"] = <<>>
        /\ m \notin Range(got["http"]) /\ got["sse"] = <<>>
    BY <2>1 DEF DrainInv, UseInv
  <2>4. Held(hand["http"]) = <<>> /\ Held(hand["sse"]) = <<>>
    BY DEF UseInv, Held, Wire
  <2>5. Range(<<>>) = {}
    BY DEF Range
  <2>6. QED
    BY <2>2, <2>3, <2>4, <2>5, LineFields DEF Places, Delivered
<1>5. ResponsesInOrder
  <2>1. inner # "sse" => Ascends(delivered)
    BY LineFields DEF OrderInv, HttpWay
  <2>2. cfg.mode = "http" => inner # "sse"
    BY DEF UseInv
  <2>3. QED
    BY <2>1, <2>2 DEF ResponsesInOrder, Ascends
<1>6. QED
  BY <1>1, <1>2, <1>3, <1>4, <1>5 DEF ResponsesKept

(* The proxy ends without an error only when the server has accepted every *)
(* message that was read, or answered it with a redirect: those are lost   *)
(* and not reported, since Send takes any status below 400 for success.    *)
THEOREM SuccessMeansAccepted == Spec => []AcceptedOrReported
<1>1. ASSUME FlowInv PROVE AcceptedOrReported
  BY <1>1 DEF FlowInv, OutcomeInv, Settled, AcceptedOrReported
<1>2. QED
  BY <1>1, FlowInvariance, PTL
=============================================================================
