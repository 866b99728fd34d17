---------------------------- MODULE PairingSession ----------------------------
(***************************************************************************)
(* Crypto::PairingSession and its ReplayProtectionCache on every device.   *)
(*                                                                         *)
(* A key stands for a freshly generated X25519 key pair, and the key of    *)
(* the initiator also for the session id made in the same call.  The       *)
(* secret two keys agree on is the set of the two.  Hashes are injective;  *)
(* a proof is verified exactly if both users entered the same password.    *)
(*                                                                         *)
(* The messages are carried by the application, which is external: they    *)
(* may be lost, delayed, reordered and delivered more than once.           *)
(***************************************************************************)
EXTENDS Integers, FiniteSets

CONSTANTS
    Devices,
    Keys,        \* bound: key pairs that are ever generated
    Passwords,   \* what users enter
    Window,      \* REPLAY_WINDOW_SECONDS
    Skew,        \* how far the clock of a device is off
    MaxTime,     \* bound of the model on time
    NoKey,
    NoResult

ASSUME PairingAssumption ==
    /\ Window \in Nat
    /\ Skew \in [Devices -> Int]
    /\ MaxTime \in Nat
    /\ NoKey \notin Keys

VARIABLES
    now,        \* real time
    state,      \* m_state
    sessionId,  \* m_sessionId, and the m_ephemeralKeyPair of an initiator
    peer,       \* m_peerDeviceId; the device itself when it is empty
    result,     \* m_result
    seen,       \* m_seenSessions of m_replayCache
    net,        \* messages handed to the application so far
    accepted,   \* history: messages a device has accepted
    replayed,   \* history: those it has accepted more than once
    derived     \* history: results a device has ever had

vars == <<now, state, sessionId, peer, result, seen, net, accepted, replayed, derived>>

PairingState == {"Idle", "AwaitingResponse", "Paired", "Failed"}

Messages == [type : {"request", "response"}, session : Keys, from : Devices,
             to : Devices, time : Int, key : Keys, password : Passwords]

Results == [peer : Devices, secret : SUBSET Keys, password : Passwords]

Init ==
    /\ now = 1
    /\ state = [d \in Devices |-> "Idle"]
    /\ sessionId = [d \in Devices |-> NoKey]
    /\ peer = [d \in Devices |-> d]
    /\ result = [d \in Devices |-> NoResult]
    /\ seen = [d \in Devices |-> {}]
    /\ net = {}
    /\ accepted = [d \in Devices |-> {}]
    /\ replayed = [d \in Devices |-> {}]
    /\ derived = [d \in Devices |-> {}]

\* Keys that have been generated: all of them went into a message.
Fresh(k) == \A m \in net : m.key # k

-----------------------------------------------------------------------------
(* ReplayProtectionCache.                                                  *)

Clock(d) == now + Skew[d]

InWindow(t, n) == n - t <= Window /\ t - n <= Window

\* Mistaken: only messages from the future are refused.
isTimestampNotFuture(t, n) == t > 0 /\ t - n <= Window

isTimestampValid(t, n) == t > 0 /\ InWindow(t, n)

\* The entry of a message: responses are kept under <session id>_resp.
Entry(m) == [id |-> <<m.session, m.type>>,
             transcript |-> <<m.from, m.to, m.time, m.key>>,
             time |-> m.time]

\* Mistaken: an entry is dropped one second before its message is too old.
PrunedEarly(d) == {x \in seen[d] : Clock(d) - x.time < Window}

\* The cache of d after pruneExpired.
Pruned(d) == {x \in seen[d] : InWindow(x.time, Clock(d))}

\* isReplayed, once the cache has been pruned.
isReplayed(d, m) ==
    \/ ~isTimestampValid(m.time, Clock(d))
    \/ \E x \in Pruned(d) :
          x.id = Entry(m).id \/ x.transcript = Entry(m).transcript

\* registerSession: an entry of the same id is replaced.
registerSession(cache, m) == {x \in cache : x.id # Entry(m).id} \cup {Entry(m)}

-----------------------------------------------------------------------------
\* reset(), with the state d is in afterwards.
ResetTo(d, s) ==
    /\ state' = [state EXCEPT ![d] = s]
    /\ sessionId' = [sessionId EXCEPT ![d] = NoKey]
    /\ peer' = [peer EXCEPT ![d] = d]
    /\ result' = [result EXCEPT ![d] = NoResult]

historyVars == <<accepted, replayed, derived>>

\* reset() from outside, and cancelPairing(), which ends in it.
Cancel(d) ==
    /\ state[d] # "Idle"
    /\ ResetTo(d, "Idle")
    /\ UNCHANGED <<now, seen, net, historyVars>>

\* initiatePairing when a cryptographic primitive fails: nothing is sent.  The
\* session id it may leave behind is never looked at in this state.
InitiateFails(d) == ResetTo(d, "Failed") /\ UNCHANGED <<now, seen, net, historyVars>>

\* initiatePairing.  Whatever d was doing is dropped.
InitiatePairing(d, e, k, p) ==
    /\ e # d
    /\ Fresh(k)
    /\ LET m == [type |-> "request", session |-> k, from |-> d, to |-> e,
                 time |-> Clock(d), key |-> k, password |-> p]
       IN  /\ seen' = [seen EXCEPT ![d] = registerSession(@, m)]
           /\ net' = net \cup {m}
    /\ state' = [state EXCEPT ![d] = "AwaitingResponse"]
    /\ sessionId' = [sessionId EXCEPT ![d] = k]
    /\ peer' = [peer EXCEPT ![d] = e]
    /\ result' = [result EXCEPT ![d] = NoResult]
    /\ UNCHANGED <<now, historyVars>>

\* History of an accepted message and of the result r it led to.
Record(d, m, r) ==
    /\ accepted' = [accepted EXCEPT ![d] = @ \cup {m}]
    /\ replayed' = [replayed EXCEPT ![d] = IF m \in accepted[d] THEN @ \cup {m} ELSE @]
    /\ derived' = [derived EXCEPT ![d] = @ \cup {r}]

-----------------------------------------------------------------------------
(* handleIncomingRequest: the session starts anew before anything is       *)
(* checked, even if d was waiting for a response or was paired.            *)

RequestIsForMe(d, m) == m.to = d /\ isTimestampValid(m.time, Clock(d))

\* A replay, a wrong proof, or a cryptographic primitive failed.
RejectRequest(d, m) ==
    /\ m \in net /\ m.type = "request"
    /\ \/ ~RequestIsForMe(d, m) /\ UNCHANGED seen
       \/ RequestIsForMe(d, m) /\ seen' = [seen EXCEPT ![d] = Pruned(d)]
    /\ ResetTo(d, "Failed")
    /\ UNCHANGED <<now, net, historyVars>>

\* A cryptographic primitive failed after the request was found good: it stays
\* registered.
RequestCryptoFails(d, m, p) ==
    /\ m \in net /\ m.type = "request"
    /\ RequestIsForMe(d, m) /\ ~isReplayed(d, m) /\ m.password = p
    /\ seen' = [seen EXCEPT ![d] = registerSession(Pruned(d), m)]
    /\ ResetTo(d, "Failed")
    /\ UNCHANGED <<now, net, historyVars>>

AcceptRequest(d, m, p, k) ==
    /\ m \in net /\ m.type = "request"
    /\ RequestIsForMe(d, m) /\ ~isReplayed(d, m) /\ m.password = p
    /\ Fresh(k)
    /\ LET resp == [type |-> "response", session |-> m.session, from |-> d,
                    to |-> m.from, time |-> Clock(d), key |-> k, password |-> p]
           r == [peer |-> m.from, secret |-> {k, m.key}, password |-> p]
       IN  /\ seen' = [seen EXCEPT ![d] =
                          registerSession(registerSession(Pruned(d), m), resp)]
           /\ net' = net \cup {resp}
           /\ result' = [result EXCEPT ![d] = r]
           /\ Record(d, m, r)
    /\ state' = [state EXCEPT ![d] = "Paired"]
    /\ sessionId' = [sessionId EXCEPT ![d] = NoKey]
    /\ peer' = [peer EXCEPT ![d] = d]
    /\ UNCHANGED now

-----------------------------------------------------------------------------
(* handleIncomingResponse.  A response that is not waited for fails the    *)
(* session too; what it had agreed on is kept in m_result.                 *)

\* Mistaken: any response of the peer is taken for that of this session.
ResponseOfPeer(d, m) ==
    m.to = d /\ m.from = peer[d] /\ isTimestampValid(m.time, Clock(d))

ResponseIsMine(d, m) ==
    /\ m.session = sessionId[d]
    /\ m.to = d /\ m.from = peer[d]
    /\ isTimestampValid(m.time, Clock(d))

\* A replay, a wrong proof, or a cryptographic primitive failed.
RejectResponse(d, m) ==
    /\ m \in net /\ m.type = "response"
    /\ \/ /\ state[d] # "AwaitingResponse" \/ ~ResponseIsMine(d, m)
          /\ UNCHANGED seen
       \/ /\ state[d] = "AwaitingResponse" /\ ResponseIsMine(d, m)
          /\ seen' = [seen EXCEPT ![d] = Pruned(d)]
    /\ state' = [state EXCEPT ![d] = "Failed"]
    /\ UNCHANGED <<now, sessionId, peer, result, net, historyVars>>

AcceptResponse(d, m, p) ==
    /\ m \in net /\ m.type = "response"
    /\ state[d] = "AwaitingResponse"
    /\ ResponseIsMine(d, m) /\ ~isReplayed(d, m) /\ m.password = p
    /\ LET r == [peer |-> m.from, secret |-> {sessionId[d], m.key}, password |-> p]
       IN  /\ result' = [result EXCEPT ![d] = r]
           /\ Record(d, m, r)
    /\ seen' = [seen EXCEPT ![d] = registerSession(Pruned(d), m)]
    /\ state' = [state EXCEPT ![d] = "Paired"]
    /\ UNCHANGED <<now, sessionId, peer, net>>

Tick ==
    /\ now < MaxTime
    /\ now' = now + 1
    /\ UNCHANGED <<state, sessionId, peer, result, seen, net, historyVars>>

Next ==
    \/ Tick
    \/ \E d \in Devices : \/ Cancel(d) \/ InitiateFails(d)
                          \/ \E m \in net : RejectRequest(d, m) \/ RejectResponse(d, m)
    \/ \E d \in Devices, p \in Passwords :
          \/ \E e \in Devices, k \in Keys : InitiatePairing(d, e, k, p)
          \/ \E m \in net : \/ RequestCryptoFails(d, m, p)
                            \/ \E k \in Keys : AcceptRequest(d, m, p, k)
                            \/ AcceptResponse(d, m, p)

Spec == Init /\ [][Next]_vars

-----------------------------------------------------------------------------
TypeOK ==
    /\ now \in Nat
    /\ state \in [Devices -> PairingState]
    /\ sessionId \in [Devices -> Keys \cup {NoKey}]
    /\ peer \in [Devices -> Devices]
    /\ result \in [Devices -> Results \cup {NoResult}]
    /\ net \subseteq Messages
    /\ seen \in [Devices -> SUBSET {Entry(m) : m \in net}]
    /\ accepted \in [Devices -> SUBSET net]
    /\ replayed \in [Devices -> SUBSET net]
    /\ derived \in [Devices -> SUBSET Results]

\* No message is accepted twice, although entries are pruned from the cache:
\* an entry goes only when its message is too old to be accepted.  While the
\* session object lives and its clock does not go back.
\* (isReplayed and pruneExpired, pairing_session.cpp:14-67)
NothingIsReplayed == \A d \in Devices : replayed[d] = {}

\* A device that is paired is paired with one that agreed on the same secret
\* with it, using the same password, however messages of this and of earlier
\* attempts are delayed, repeated or mixed.
\* (handleIncomingResponse, pairing_session.cpp:358-453)
AgreedWithPeer(d) ==
    LET r == result[d]
    IN  /\ r \in Results
        /\ IF sessionId[d] # NoKey
           THEN [r EXCEPT !.peer = d] \in derived[r.peer]
           ELSE \E m \in net : /\ m.type = "request" /\ m.password = r.password
                               /\ m.from = r.peer /\ m.to = d /\ m.key \in r.secret

PairedWasAgreed == \A d \in Devices : state[d] = "Paired" => AgreedWithPeer(d)

\* An initiator completes only an attempt at most two windows old: each of the
\* two devices checks one message against its own clock, and however far the
\* clocks differ the two checks together bound the age of the attempt.
\* (pairing_session.cpp:250-256, 386-391)
PairingIsRecent ==
    [][\A d \in Devices :
          /\ state[d] = "AwaitingResponse" /\ state'[d] = "Paired"
          /\ sessionId'[d] = sessionId[d]
          => \A m \in net : m.type = "request" /\ m.session = sessionId[d]
                               => Clock(d) - m.time <= 2 * Window]_vars

\* What makes the three properties inductive.  Of the messages: sessions are
\* named by generated keys, a session has one request, and a response was
\* made, in time, from a secret agreed on.
MessagesAreSound ==
    /\ \A m \in net : \E q \in net : q.key = m.session
    /\ \A m \in net : m.type = "request" => m.key = m.session
    /\ \A m, q \in net :
          m.type = "request" /\ q.type = "request" /\ m.session = q.session => m = q
    /\ \A m \in net : m.type = "response" =>
          /\ [peer |-> m.to, secret |-> {m.key, m.session}, password |-> m.password]
                \in derived[m.from]
          /\ \E q \in net : /\ q.type = "request" /\ q.session = m.session
                            /\ m.time - q.time <= Window

\* Of the cache: an accepted request is in it or too old, and is not from the
\* future.
RequestsAreRemembered ==
    \A d \in Devices : \A m \in accepted[d] : m.type = "request" =>
        /\ m.time - Clock(d) <= Window
        /\ Entry(m) \in seen[d] \/ Clock(d) - m.time > Window

\* Of the session: one that waits for a response has not accepted one yet.
AwaitingIsNew ==
    \A d \in Devices : state[d] = "AwaitingResponse" =>
        \A m \in accepted[d] : m.type = "response" => m.session # sessionId[d]

PairingInv ==
    /\ TypeOK /\ MessagesAreSound /\ RequestsAreRemembered /\ AwaitingIsNew
    /\ NothingIsReplayed /\ PairedWasAgreed

\* test_pairing.cpp:192-198: two devices paired with each other hold the same
\* secret.  When both have initiated, each answers the request of the other.
SecretsAgree ==
    \A d, e \in Devices :
        /\ state[d] = "Paired" /\ result[d].peer = e
        /\ state[e] = "Paired" /\ result[e].peer = d
        => result[d].secret = result[e].secret
=============================================================================
