---------------------------- MODULE SecretService ----------------------------
(***************************************************************************)
(* What the daemon promises its clients about sessions and secrets, with   *)
(* no store, cache, clock or locks: a session opens once and ends once; a  *)
(* request is admitted only while its session is open; the secret it is    *)
(* answered with comes from a plugin call made by an admitted request of   *)
(* the same session; and a secret fetched by another request is handed out *)
(* only while that session is still open.  Module SecretServer implements  *)
(* this specification.                                                     *)
(***************************************************************************)
CONSTANTS Sids, Requests, Nobody, NoSource

VARIABLES
    phase,     \* of each session
    standing,  \* of each request
    who,       \* the session ID a request presents
    fetched,   \* requests whose own plugin call returned a secret
    source     \* the request whose plugin call answers this one

vars == <<phase, standing, who, fetched, source>>

Init ==
    /\ phase = [s \in Sids |-> "new"]
    /\ standing = [r \in Requests |-> "idle"]
    /\ who = [r \in Requests |-> Nobody]
    /\ fetched = {}
    /\ source = [r \in Requests |-> NoSource]

Open(s) ==
    /\ phase[s] = "new"
    /\ phase' = [phase EXCEPT ![s] = "open"]
    /\ UNCHANGED <<standing, who, fetched, source>>

Ended(S) == phase' = [s \in Sids |-> IF s \in S THEN "ended" ELSE phase[s]]

(* Sessions end because a client ends one or because their time is over.   *)
End(S) ==
    /\ \A s \in S : phase[s] = "open"
    /\ Ended(S)
    /\ UNCHANGED <<standing, who, fetched, source>>

Ask(r, s) ==
    /\ standing[r] = "idle"
    /\ standing' = [standing EXCEPT ![r] = "waiting"]
    /\ who' = [who EXCEPT ![r] = s]
    /\ UNCHANGED <<phase, fetched, source>>

Admit(r) ==
    /\ standing[r] = "waiting"
    /\ phase[who[r]] = "open"
    /\ standing' = [standing EXCEPT ![r] = "admitted"]
    /\ UNCHANGED <<phase, who, fetched, source>>

(* Refusing a request may end its session, when that turns out expired.    *)
Refuse(r) ==
    /\ standing[r] \in {"waiting", "admitted"}
    /\ standing' = [standing EXCEPT ![r] = "refused"]
    /\ \/ UNCHANGED phase
       \/ phase[who[r]] = "open" /\ Ended({who[r]})
    /\ UNCHANGED <<who, fetched, source>>

Fetch(r) ==
    /\ standing[r] = "admitted"
    /\ r \notin fetched
    /\ fetched' = fetched \cup {r}
    /\ UNCHANGED <<phase, standing, who, source>>

Serve(r, f) ==
    /\ standing[r] = "admitted"
    /\ f \in fetched
    /\ who[f] = who[r]
    /\ f # r => phase[who[r]] = "open"
    /\ standing' = [standing EXCEPT ![r] = "served"]
    /\ source' = [source EXCEPT ![r] = f]
    /\ UNCHANGED <<phase, who, fetched>>

Next ==
    \/ \E s \in Sids : Open(s)
    \/ \E S \in SUBSET Sids : End(S)
    \/ \E r \in Requests :
          \/ \E s \in Sids : Ask(r, s)
          \/ Admit(r)
          \/ Refuse(r)
          \/ Fetch(r)
          \/ \E f \in Requests : Serve(r, f)

Spec == Init /\ [][Next]_vars
=============================================================================
