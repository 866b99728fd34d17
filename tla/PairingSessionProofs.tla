------------------------- MODULE PairingSessionProofs -------------------------
(***************************************************************************)
(* Theorems about PairingSession for any devices, clocks, window and       *)
(* number of key pairs: PairingInv is inductive.                           *)
(***************************************************************************)
EXTENDS PairingSession, TLAPS

\* The types of a message and of its cache entry.
LEMMA MessageFields ==
    ASSUME NEW m \in Messages
    PROVE  /\ m.type \in {"request", "response"} /\ m.session \in Keys
           /\ m.from \in Devices /\ m.to \in Devices /\ m.time \in Int
           /\ m.key \in Keys /\ m.password \in Passwords
           /\ Entry(m).id = <<m.session, m.type>> /\ Entry(m).time = m.time
  BY DEF Messages, Entry

LEMMA ClockType ==
    ASSUME TypeOK, PairingAssumption, NEW d \in Devices
    PROVE  Clock(d) \in Int /\ Window \in Int
  BY DEF TypeOK, PairingAssumption, Clock

\* Whoever makes a message registers it: registering keeps every other entry.
LEMMA RegisterKeeps ==
    ASSUME NEW cache, NEW m, NEW x \in cache, x.id # Entry(m).id
    PROVE  x \in registerSession(cache, m)
  BY DEF registerSession

LEMMA RegisterType ==
    ASSUME NEW S \in SUBSET Messages, NEW m \in S,
           NEW cache \in SUBSET {Entry(q) : q \in S}
    PROVE  registerSession(cache, m) \in SUBSET {Entry(q) : q \in S}
  BY DEF registerSession

-----------------------------------------------------------------------------
(* Type correctness.                                                       *)

LEMMA TypeStep ==
    ASSUME TypeOK, PairingAssumption, [Next]_vars
    PROVE  TypeOK'
  <1> USE DEF TypeOK, PairingState, historyVars
  <1>1. CASE Tick
    BY <1>1 DEF Tick
  <1>2. ASSUME NEW d \in Devices, Cancel(d) \/ InitiateFails(d)
        PROVE  TypeOK'
    BY <1>2 DEF Cancel, InitiateFails, ResetTo
  <1>3. ASSUME NEW d \in Devices, NEW e \in Devices, NEW k \in Keys,
               NEW p \in Passwords, InitiatePairing(d, e, k, p)
        PROVE  TypeOK'
    <2>1. PICK m \in Messages :
             /\ m = [type |-> "request", session |-> k, from |-> d, to |-> e,
                     time |-> Clock(d), key |-> k, password |-> p]
             /\ seen' = [seen EXCEPT ![d] = registerSession(@, m)]
             /\ net' = net \cup {m}
      BY <1>3, ClockType DEF InitiatePairing, Messages
    <2>2. registerSession(seen[d], m) \in SUBSET {Entry(q) : q \in net'}
      BY <2>1, RegisterType
    <2>3. seen' \in [Devices -> SUBSET {Entry(q) : q \in net'}]
      BY <2>1, <2>2
    <2>4. QED
      BY <1>3, <2>1, <2>3 DEF InitiatePairing
  <1>4. ASSUME NEW d \in Devices, NEW m \in net,
               RejectRequest(d, m) \/ RejectResponse(d, m)
        PROVE  TypeOK'
    <2>1. seen' \in [Devices -> SUBSET {Entry(q) : q \in net}]
      BY <1>4 DEF RejectRequest, RejectResponse, Pruned
    <2>2. QED
      BY <1>4, <2>1 DEF RejectRequest, RejectResponse, ResetTo
  <1>5. ASSUME NEW d \in Devices, NEW m \in net, NEW p \in Passwords,
               RequestCryptoFails(d, m, p)
        PROVE  TypeOK'
    <2>1. registerSession(Pruned(d), m) \in SUBSET {Entry(q) : q \in net}
      BY RegisterType DEF Pruned
    <2>2. QED
      BY <1>5, <2>1 DEF RequestCryptoFails, ResetTo
  <1>6. ASSUME NEW d \in Devices, NEW m \in net, NEW p \in Passwords, NEW k \in Keys,
               AcceptRequest(d, m, p, k)
        PROVE  TypeOK'
    <2>1. PICK resp \in Messages :
             /\ resp = [type |-> "response", session |-> m.session, from |-> d,
                        to |-> m.from, time |-> Clock(d), key |-> k, password |-> p]
             /\ seen' = [seen EXCEPT ![d] =
                            registerSession(registerSession(Pruned(d), m), resp)]
             /\ net' = net \cup {resp}
      BY <1>6, MessageFields, ClockType DEF AcceptRequest, Messages
    <2>2. PICK r \in Results :
             /\ result' = [result EXCEPT ![d] = r]
             /\ Record(d, m, r)
      BY <1>6, MessageFields DEF AcceptRequest, Results
    <2>3. registerSession(Pruned(d), m) \in SUBSET {Entry(q) : q \in net'}
      BY <2>1, RegisterType DEF Pruned
    <2>4. registerSession(registerSession(Pruned(d), m), resp)
             \in SUBSET {Entry(q) : q \in net'}
      BY <2>1, <2>3, RegisterType
    <2>5. seen' \in [Devices -> SUBSET {Entry(q) : q \in net'}]
      BY <2>1, <2>4
    <2>6. QED
      BY <1>6, <2>1, <2>2, <2>5 DEF AcceptRequest, Record
  <1>7. ASSUME NEW d \in Devices, NEW m \in net, NEW p \in Passwords,
               AcceptResponse(d, m, p)
        PROVE  TypeOK'
    <2>1. PICK r \in Results :
             /\ result' = [result EXCEPT ![d] = r]
             /\ Record(d, m, r)
      <3>1. sessionId[d] \in Keys
        BY <1>7, MessageFields DEF AcceptResponse, ResponseIsMine
      <3>2. QED
        BY <1>7, <3>1, MessageFields DEF AcceptResponse, Results
    <2>2. registerSession(Pruned(d), m) \in SUBSET {Entry(q) : q \in net}
      BY RegisterType DEF Pruned
    <2>3. UNCHANGED <<now, sessionId, peer, net>> /\ state' \in [Devices -> PairingState]
      BY <1>7 DEF AcceptResponse
    <2>4. seen' \in [Devices -> SUBSET {Entry(q) : q \in net}]
      BY <1>7, <2>2 DEF AcceptResponse
    <2>5. /\ accepted' \in [Devices -> SUBSET net]
          /\ replayed' \in [Devices -> SUBSET net]
          /\ derived' \in [Devices -> SUBSET Results]
      BY <2>1 DEF Record
    <2>6. result' \in [Devices -> Results \cup {NoResult}]
      BY <2>1
    <2>7. QED
      BY <2>3, <2>4, <2>5, <2>6
  <1>8. CASE UNCHANGED vars
    BY <1>8 DEF vars
  <1>9. QED
    BY <1>1, <1>2, <1>3, <1>4, <1>5, <1>6, <1>7, <1>8 DEF Next

-----------------------------------------------------------------------------
(* Messages.                                                               *)

LEMMA SoundStep ==
    ASSUME TypeOK, PairingAssumption, MessagesAreSound, [Next]_vars
    PROVE  MessagesAreSound'
  <1> USE DEF MessagesAreSound
  <1>1. CASE /\ net' = net
             /\ \A e \in Devices : derived[e] \subseteq derived'[e]
    BY <1>1, MessageFields DEF TypeOK
  <1>2. CASE Tick \/ (\E d \in Devices : Cancel(d) \/ InitiateFails(d)) \/ UNCHANGED vars
    BY <1>1, <1>2 DEF Tick, Cancel, InitiateFails, vars, historyVars
  <1>3. ASSUME NEW d \in Devices, NEW m \in net,
               \/ RejectRequest(d, m) \/ RejectResponse(d, m)
               \/ \E p \in Passwords : RequestCryptoFails(d, m, p) \/ AcceptResponse(d, m, p)
        PROVE  MessagesAreSound'
    <2>1. net' = net
      BY <1>3 DEF RejectRequest, RequestCryptoFails, RejectResponse, AcceptResponse
    <2>2. UNCHANGED derived \/ \E r : derived' = [derived EXCEPT ![d] = @ \cup {r}]
      BY <1>3 DEF RejectRequest, RequestCryptoFails, RejectResponse, AcceptResponse,
                  Record, historyVars
    <2>3. \A e \in Devices : derived[e] \subseteq derived'[e]
      BY <2>2 DEF TypeOK
    <2>4. QED
      BY <1>1, <2>1, <2>3
  <1>4. ASSUME NEW d \in Devices, NEW e \in Devices, NEW k \in Keys,
               NEW p \in Passwords, InitiatePairing(d, e, k, p)
        PROVE  MessagesAreSound'
    <2>1. PICK m \in Messages :
             /\ m.type = "request" /\ m.key = k /\ m.session = k
             /\ net' = net \cup {m}
      BY <1>4, ClockType DEF InitiatePairing, Messages
    <2>2. UNCHANGED derived /\ \A q \in net : q.key # k
      BY <1>4 DEF InitiatePairing, historyVars, Fresh
    <2>3. \A q \in net : q.session # k
      BY <2>2
    <2>4. QED
      BY <2>1, <2>2, <2>3
  <1>5. ASSUME NEW d \in Devices, NEW m \in net, NEW p \in Passwords, NEW k \in Keys,
               AcceptRequest(d, m, p, k)
        PROVE  MessagesAreSound'
    <2>1. /\ m.type = "request" /\ m.key = m.session /\ m.password = p
          /\ Clock(d) - m.time <= Window /\ m \in Messages
      BY <1>5 DEF AcceptRequest, RequestIsForMe, isTimestampValid, InWindow, TypeOK
    <2>2. PICK resp \in Messages :
             /\ resp.type = "response" /\ resp.session = m.session /\ resp.from = d
             /\ resp.to = m.from /\ resp.time = Clock(d) /\ resp.key = k
             /\ resp.password = p
             /\ net' = net \cup {resp}
      <3>1. PICK resp : /\ resp = [type |-> "response", session |-> m.session,
                                  from |-> d, to |-> m.from, time |-> Clock(d),
                                  key |-> k, password |-> p]
                        /\ net' = net \cup {resp}
        BY <1>5 DEF AcceptRequest
      <3>2. resp \in Messages
        BY <2>1, <3>1, MessageFields, ClockType DEF Messages
      <3>3. QED
        BY <3>1, <3>2
    <2>3. PICK r : /\ r = [peer |-> m.from, secret |-> {k, m.key}, password |-> p]
                   /\ derived' = [derived EXCEPT ![d] = @ \cup {r}]
      BY <1>5 DEF AcceptRequest, Record
    <2>4. \A e \in Devices : derived[e] \subseteq derived'[e]
      BY <2>3 DEF TypeOK
    <2>5. /\ r \in derived'[d]
          /\ r = [peer |-> resp.to, secret |-> {resp.key, resp.session},
                  password |-> resp.password]
      BY <2>1, <2>2, <2>3 DEF TypeOK
    <2>6. \A q \in net' : q.type = "response" =>
             /\ [peer |-> q.to, secret |-> {q.key, q.session}, password |-> q.password]
                   \in derived'[q.from]
             /\ \E c \in net' : /\ c.type = "request" /\ c.session = q.session
                                /\ q.time - c.time <= Window
      <3> SUFFICES ASSUME NEW q \in net', q.type = "response"
                   PROVE  /\ [peer |-> q.to, secret |-> {q.key, q.session},
                               password |-> q.password] \in derived'[q.from]
                          /\ \E c \in net' : /\ c.type = "request"
                                             /\ c.session = q.session
                                             /\ q.time - c.time <= Window
        OBVIOUS
      <3>1. CASE q \in net
        <4>1. q.from \in Devices
          BY <3>1, MessageFields DEF TypeOK
        <4>2. QED
          BY <2>2, <2>4, <3>1, <4>1
      <3>2. CASE q = resp
        BY <2>1, <2>2, <2>5, <3>2
      <3>3. QED
        BY <2>2, <3>1, <3>2
    <2>7. /\ \A c \in net' : \E q \in net' : q.key = c.session
          /\ \A c \in net' : c.type = "request" => c \in net
      BY <2>1, <2>2
    <2>8. QED
      BY <2>6, <2>7
  <1>6. QED
    BY <1>2, <1>3, <1>4, <1>5 DEF Next

-----------------------------------------------------------------------------
(* The cache.                                                              *)

\* Pruning the cache of d forgets only what is too old.
LEMMA PrunedRemembers ==
    ASSUME TypeOK, PairingAssumption, RequestsAreRemembered,
           NEW d \in Devices, NEW m \in accepted[d], m.type = "request"
    PROVE  Entry(m) \in Pruned(d) \/ Clock(d) - m.time > Window
  <1>1. m \in Messages
    BY DEF TypeOK
  <1>2. m.time \in Int /\ Clock(d) \in Int /\ Entry(m).time = m.time
    BY <1>1, MessageFields, ClockType
  <1>3. QED
    BY <1>2 DEF RequestsAreRemembered, Pruned, InWindow, PairingAssumption

\* What keeps RequestsAreRemembered at the time of the step.
LEMMA RememberedKept ==
    ASSUME TypeOK, PairingAssumption, RequestsAreRemembered, UNCHANGED now,
           \A d \in Devices : \A m \in accepted'[d] : m.type = "request" =>
              \/ m \in accepted[d] /\ (Entry(m) \in Pruned(d) => Entry(m) \in seen'[d])
              \/ m.time - Clock(d) <= Window /\ Entry(m) \in seen'[d]
    PROVE  RequestsAreRemembered'
  <1> SUFFICES ASSUME NEW d \in Devices, NEW m \in accepted'[d], m.type = "request"
               PROVE  /\ m.time - Clock(d) <= Window
                      /\ Entry(m) \in seen'[d] \/ Clock(d) - m.time > Window
    BY DEF RequestsAreRemembered, Clock, Entry
  <1>1. CASE m \in accepted[d]
    BY <1>1, PrunedRemembers DEF RequestsAreRemembered
  <1>2. CASE m \notin accepted[d]
    BY <1>2
  <1>3. QED
    BY <1>1, <1>2

\* Registering a message whose id the pruned cache of d does not have.
LEMMA RegisterRemembers ==
    ASSUME NEW d \in Devices, NEW m, NEW x \in Pruned(d), x.id # Entry(m).id
    PROVE  x \in registerSession(Pruned(d), m)
  BY RegisterKeeps

LEMMA RememberedStep ==
    ASSUME TypeOK, PairingAssumption, MessagesAreSound, RequestsAreRemembered,
           [Next]_vars
    PROVE  RequestsAreRemembered'
  <1>1. CASE Tick
    <2> SUFFICES ASSUME NEW d \in Devices, NEW m \in accepted'[d], m.type = "request"
                 PROVE  /\ m.time - Clock(d)' <= Window
                        /\ Entry(m) \in seen'[d] \/ Clock(d)' - m.time > Window
      BY DEF RequestsAreRemembered, Entry
    <2>1. m \in accepted[d] /\ seen'[d] = seen[d] /\ Clock(d)' = Clock(d) + 1
      BY <1>1 DEF Tick, Clock, historyVars, TypeOK, PairingAssumption
    <2>2. m.time \in Int /\ Clock(d) \in Int /\ Window \in Int
      BY <2>1, MessageFields, ClockType DEF TypeOK
    <2>3. QED
      BY <2>1, <2>2 DEF RequestsAreRemembered
  <1>2. CASE (\E d \in Devices : Cancel(d) \/ InitiateFails(d)) \/ UNCHANGED vars
    BY <1>2 DEF Cancel, InitiateFails, vars, historyVars, RequestsAreRemembered, Clock
  <1>3. ASSUME NEW d \in Devices, NEW e \in Devices, NEW k \in Keys,
               NEW p \in Passwords, InitiatePairing(d, e, k, p)
        PROVE  RequestsAreRemembered'
    <2>1. PICK m \in Messages :
             /\ m.session = k
             /\ seen' = [seen EXCEPT ![d] = registerSession(@, m)]
      BY <1>3, ClockType DEF InitiatePairing, Messages
    <2>2. ASSUME NEW q \in net
          PROVE  Entry(q) \in seen[d] => Entry(q) \in seen'[d]
      <3>1. q.session # k
        BY <1>3 DEF InitiatePairing, Fresh, MessagesAreSound
      <3>2. Entry(q).id # Entry(m).id
        BY <2>1, <3>1 DEF Entry
      <3>3. QED
        BY <2>1, <3>2, RegisterKeeps DEF TypeOK
    <2>3. \A c \in Devices : c # d => seen'[c] = seen[c]
      BY <2>1 DEF TypeOK
    <2>4. UNCHANGED <<now, accepted>>
      BY <1>3 DEF InitiatePairing, historyVars
    <2>5. QED
      BY <2>2, <2>3, <2>4, RememberedKept DEF Pruned, TypeOK
  <1>4. ASSUME NEW d \in Devices, NEW m \in net,
               RejectRequest(d, m) \/ RejectResponse(d, m)
        PROVE  RequestsAreRemembered'
    <2>1. UNCHANGED <<now, accepted>>
      BY <1>4 DEF RejectRequest, RejectResponse, historyVars
    <2>2. \A c \in Devices : Pruned(c) \subseteq seen'[c]
      BY <1>4 DEF RejectRequest, RejectResponse, Pruned, TypeOK
    <2>3. QED
      BY <2>1, <2>2, RememberedKept
  <1>5. ASSUME NEW d \in Devices, NEW m \in net, NEW p \in Passwords,
               RequestCryptoFails(d, m, p)
        PROVE  RequestsAreRemembered'
    <2>1. UNCHANGED <<now, accepted>>
      BY <1>5 DEF RequestCryptoFails, historyVars
    <2>2. \A x \in Pruned(d) : x.id # Entry(m).id
      BY <1>5 DEF RequestCryptoFails, isReplayed
    <2>3. seen' = [seen EXCEPT ![d] = registerSession(Pruned(d), m)]
      BY <1>5 DEF RequestCryptoFails
    <2>4. \A c \in Devices : Pruned(c) \subseteq seen'[c]
      BY <2>2, <2>3, RegisterRemembers DEF TypeOK, Pruned
    <2>5. QED
      BY <2>1, <2>4, RememberedKept
  <1>6. ASSUME NEW d \in Devices, NEW m \in net, NEW p \in Passwords, NEW k \in Keys,
               AcceptRequest(d, m, p, k)
        PROVE  RequestsAreRemembered'
    <2>1. PICK resp :
             /\ resp.type = "response"
             /\ seen' = [seen EXCEPT ![d] =
                            registerSession(registerSession(Pruned(d), m), resp)]
      BY <1>6 DEF AcceptRequest
    <2>2. /\ UNCHANGED now
          /\ \A c \in Devices : accepted'[c] = IF c = d THEN accepted[c] \cup {m}
                                                      ELSE accepted[c]
      BY <1>6 DEF AcceptRequest, Record, TypeOK
    <2>3. /\ \A x \in Pruned(d) : x.id # Entry(m).id
          /\ m.type = "request" /\ m.time - Clock(d) <= Window
      BY <1>6 DEF AcceptRequest, isReplayed, RequestIsForMe, isTimestampValid, InWindow
    <2>4. Entry(m) \in registerSession(Pruned(d), m)
      BY DEF registerSession
    <2>5. ASSUME NEW q \in Messages, q.type = "request",
                 Entry(q) \in Pruned(d) \cup {Entry(m)}
          PROVE  Entry(q) \in seen'[d]
      <3>1. Entry(q) \in registerSession(Pruned(d), m)
        BY <2>3, <2>4, <2>5, RegisterRemembers
      <3>2. Entry(q).id # Entry(resp).id
        BY <2>1, <2>5 DEF Entry
      <3>3. QED
        BY <2>1, <3>1, <3>2, RegisterKeeps DEF TypeOK
    <2>6. \A c \in Devices : c # d => Pruned(c) \subseteq seen'[c]
      BY <2>1 DEF TypeOK, Pruned
    <2>7. QED
      <3>1. ASSUME NEW c \in Devices, NEW q \in accepted'[c], q.type = "request"
            PROVE  \/ /\ q \in accepted[c]
                      /\ Entry(q) \in Pruned(c) => Entry(q) \in seen'[c]
                   \/ q.time - Clock(c) <= Window /\ Entry(q) \in seen'[c]
        <4>1. q \in Messages
          BY <2>2 DEF TypeOK
        <4>2. CASE c # d
          BY <2>2, <2>6, <4>2
        <4>3. CASE c = d
          BY <2>2, <2>3, <2>5, <3>1, <4>1, <4>3
        <4>4. QED
          BY <4>2, <4>3
      <3>2. QED
        BY <2>2, <3>1, RememberedKept
  <1>7. ASSUME NEW d \in Devices, NEW m \in net, NEW p \in Passwords,
               AcceptResponse(d, m, p)
        PROVE  RequestsAreRemembered'
    <2>1. /\ UNCHANGED now
          /\ \A c \in Devices : accepted'[c] = IF c = d THEN accepted[c] \cup {m}
                                                      ELSE accepted[c]
      BY <1>7 DEF AcceptResponse, Record, TypeOK
    <2>2. m.type = "response" /\ \A x \in Pruned(d) : x.id # Entry(m).id
      BY <1>7 DEF AcceptResponse, isReplayed
    <2>3. seen' = [seen EXCEPT ![d] = registerSession(Pruned(d), m)]
      BY <1>7 DEF AcceptResponse
    <2>4. \A c \in Devices : Pruned(c) \subseteq seen'[c]
      BY <2>2, <2>3, RegisterRemembers DEF TypeOK, Pruned
    <2>5. \A c \in Devices : \A q \in accepted'[c] :
             q.type = "request" => q \in accepted[c]
      BY <2>1, <2>2
    <2>6. QED
      BY <2>1, <2>4, <2>5, RememberedKept
  <1>8. QED
    BY <1>1, <1>2, <1>3, <1>4, <1>5, <1>6, <1>7 DEF Next

-----------------------------------------------------------------------------
(* Nothing is accepted twice.                                              *)

\* A message in the window whose entry is not in the pruned cache is new.
LEMMA AcceptedIsNew ==
    ASSUME TypeOK, PairingAssumption, RequestsAreRemembered, NEW d \in Devices,
           NEW m \in net, m.type = "request", ~isReplayed(d, m)
    PROVE  m \notin accepted[d]
  <1>1. m \in Messages
    BY DEF TypeOK
  <1>2. m.time \in Int /\ Clock(d) \in Int /\ Window \in Int
    BY <1>1, MessageFields, ClockType
  <1>3. Entry(m) \notin Pruned(d) /\ ~(Clock(d) - m.time > Window)
    BY <1>2 DEF isReplayed, isTimestampValid, InWindow
  <1>4. QED
    BY <1>3, PrunedRemembers

LEMMA ReplayStep ==
    ASSUME TypeOK, PairingAssumption, RequestsAreRemembered, AwaitingIsNew,
           NothingIsReplayed, [Next]_vars
    PROVE  NothingIsReplayed'
  <1> USE DEF NothingIsReplayed
  <1>1. CASE UNCHANGED replayed
    BY <1>1
  <1>2. ASSUME NEW d \in Devices, NEW m \in net, m \notin accepted[d],
               \E r : Record(d, m, r)
        PROVE  NothingIsReplayed'
    BY <1>2 DEF Record, TypeOK
  <1>3. ASSUME NEW d \in Devices, NEW m \in net, NEW p \in Passwords, NEW k \in Keys,
               AcceptRequest(d, m, p, k)
        PROVE  NothingIsReplayed'
    <2>1. m \notin accepted[d]
      BY <1>3, AcceptedIsNew DEF AcceptRequest
    <2>2. \E r : Record(d, m, r)
      BY <1>3 DEF AcceptRequest
    <2>3. QED
      BY <1>2, <2>1, <2>2
  <1>4. ASSUME NEW d \in Devices, NEW m \in net, NEW p \in Passwords,
               AcceptResponse(d, m, p)
        PROVE  NothingIsReplayed'
    <2>1. m \notin accepted[d]
      BY <1>4 DEF AcceptResponse, ResponseIsMine, AwaitingIsNew
    <2>2. \E r : Record(d, m, r)
      BY <1>4 DEF AcceptResponse
    <2>3. QED
      BY <1>2, <2>1, <2>2
  <1>5. CASE Tick \/ (\E d \in Devices : Cancel(d) \/ InitiateFails(d)) \/ UNCHANGED vars
    BY <1>1, <1>5 DEF Tick, Cancel, InitiateFails, historyVars, vars
  <1>6. ASSUME NEW d \in Devices, NEW e \in Devices, NEW k \in Keys,
               NEW p \in Passwords, InitiatePairing(d, e, k, p)
        PROVE  NothingIsReplayed'
    BY <1>1, <1>6 DEF InitiatePairing, historyVars
  <1>7. ASSUME NEW d \in Devices, NEW m \in net,
               \/ RejectRequest(d, m) \/ RejectResponse(d, m)
               \/ \E p \in Passwords : RequestCryptoFails(d, m, p)
        PROVE  NothingIsReplayed'
    BY <1>1, <1>7 DEF RejectRequest, RequestCryptoFails, RejectResponse, historyVars
  <1>8. QED
    BY <1>3, <1>4, <1>5, <1>6, <1>7 DEF Next

LEMMA AwaitingStep ==
    ASSUME TypeOK, MessagesAreSound, AwaitingIsNew, [Next]_vars
    PROVE  AwaitingIsNew'
  <1> USE DEF AwaitingIsNew, TypeOK
  <1>1. CASE Tick \/ UNCHANGED vars
    BY <1>1 DEF Tick, vars, historyVars
  <1>2. ASSUME NEW d \in Devices, NEW s \in {"Idle", "Failed", "Paired"},
               state' = [state EXCEPT ![d] = s],
               \A c \in Devices \ {d} : /\ sessionId'[c] = sessionId[c]
                                       /\ accepted'[c] = accepted[c]
        PROVE  AwaitingIsNew'
    BY <1>2
  <1>3. ASSUME NEW d \in Devices, Cancel(d) \/ InitiateFails(d)
        PROVE  AwaitingIsNew'
    BY <1>2, <1>3 DEF Cancel, InitiateFails, ResetTo, historyVars
  <1>4. ASSUME NEW d \in Devices, NEW m \in net,
               \/ RejectRequest(d, m) \/ RejectResponse(d, m)
               \/ \E p \in Passwords : RequestCryptoFails(d, m, p)
        PROVE  AwaitingIsNew'
    BY <1>2, <1>4 DEF RejectRequest, RequestCryptoFails, RejectResponse, ResetTo,
                      historyVars
  <1>5. ASSUME NEW d \in Devices, NEW m \in net, NEW p \in Passwords, NEW k \in Keys,
               AcceptRequest(d, m, p, k)
        PROVE  AwaitingIsNew'
    BY <1>2, <1>5 DEF AcceptRequest, Record
  <1>6. ASSUME NEW d \in Devices, NEW m \in net, NEW p \in Passwords,
               AcceptResponse(d, m, p)
        PROVE  AwaitingIsNew'
    BY <1>2, <1>6 DEF AcceptResponse, Record
  <1>7. ASSUME NEW d \in Devices, NEW e \in Devices, NEW k \in Keys,
               NEW p \in Passwords, InitiatePairing(d, e, k, p)
        PROVE  AwaitingIsNew'
    <2>1. \A m \in net : m.session # k
      BY <1>7 DEF InitiatePairing, Fresh, MessagesAreSound
    <2>2. /\ \A c \in Devices : /\ c = d => sessionId'[c] = k
                                /\ c # d => /\ sessionId'[c] = sessionId[c]
                                            /\ state'[c] = state[c]
          /\ UNCHANGED accepted
      BY <1>7 DEF InitiatePairing, historyVars
    <2>3. QED
      BY <2>1, <2>2
  <1>8. QED
    BY <1>1, <1>3, <1>4, <1>5, <1>6, <1>7 DEF Next

-----------------------------------------------------------------------------
(* Who is paired agreed on it.                                             *)

\* What was sent stays sent, and what was agreed on stays agreed on.
LEMMA HistoryStep ==
    ASSUME TypeOK, [Next]_vars
    PROVE  net \subseteq net' /\ \A e \in Devices : derived[e] \subseteq derived'[e]
  <1>1. CASE net' = net /\ UNCHANGED derived
    BY <1>1
  <1>2. CASE Tick \/ (\E d \in Devices : Cancel(d) \/ InitiateFails(d)) \/ UNCHANGED vars
    BY <1>1, <1>2 DEF Tick, Cancel, InitiateFails, historyVars, vars
  <1>3. ASSUME NEW d \in Devices, NEW e \in Devices, NEW k \in Keys,
               NEW p \in Passwords, InitiatePairing(d, e, k, p)
        PROVE  net \subseteq net' /\ UNCHANGED derived
    BY <1>3 DEF InitiatePairing, historyVars
  <1>4. ASSUME NEW d \in Devices, NEW m \in net,
               \/ RejectRequest(d, m) \/ RejectResponse(d, m)
               \/ \E p \in Passwords : RequestCryptoFails(d, m, p)
        PROVE  net' = net /\ UNCHANGED derived
    BY <1>4 DEF RejectRequest, RequestCryptoFails, RejectResponse, historyVars
  <1>5. ASSUME NEW d \in Devices, NEW m \in net, NEW r, Record(d, m, r)
        PROVE  \A e \in Devices : derived[e] \subseteq derived'[e]
    BY <1>5 DEF Record, TypeOK
  <1>6. ASSUME NEW d \in Devices, NEW m \in net, NEW p \in Passwords, NEW k \in Keys,
               AcceptRequest(d, m, p, k)
        PROVE  net \subseteq net' /\ \E r : Record(d, m, r)
    BY <1>6 DEF AcceptRequest
  <1>7. ASSUME NEW d \in Devices, NEW m \in net, NEW p \in Passwords,
               AcceptResponse(d, m, p)
        PROVE  net' = net /\ \E r : Record(d, m, r)
    BY <1>7 DEF AcceptResponse
  <1>8. QED
    BY <1>2, <1>3, <1>4, <1>5, <1>6, <1>7 DEF Next

LEMMA AgreedStep ==
    ASSUME TypeOK, PairingAssumption, MessagesAreSound, PairedWasAgreed, [Next]_vars
    PROVE  PairedWasAgreed'
  <1> USE DEF PairedWasAgreed
  <1>1. ASSUME NEW c \in Devices, state[c] = "Paired",
               result'[c] = result[c], sessionId'[c] = sessionId[c]
        PROVE  AgreedWithPeer(c)'
    <2>1. result[c].peer \in Devices
      BY <1>1 DEF AgreedWithPeer, Results
    <2>2. QED
      BY <1>1, <2>1, HistoryStep DEF AgreedWithPeer
  \* A step of d concerns no other device.
  <1>2. ASSUME NEW d \in Devices,
               \A c \in Devices \ {d} : /\ state'[c] = state[c]
                                       /\ result'[c] = result[c]
                                       /\ sessionId'[c] = sessionId[c],
               state'[d] = "Paired" => AgreedWithPeer(d)'
        PROVE  PairedWasAgreed'
    BY <1>1, <1>2
  <1>3. CASE Tick \/ UNCHANGED vars
    BY <1>1, <1>3 DEF Tick, vars
  <1>4. ASSUME NEW d \in Devices, Cancel(d) \/ InitiateFails(d)
        PROVE  PairedWasAgreed'
    BY <1>2, <1>4 DEF Cancel, InitiateFails, ResetTo, TypeOK
  <1>5. ASSUME NEW d \in Devices, NEW e \in Devices, NEW k \in Keys,
               NEW p \in Passwords, InitiatePairing(d, e, k, p)
        PROVE  PairedWasAgreed'
    BY <1>2, <1>5 DEF InitiatePairing, TypeOK
  <1>6. ASSUME NEW d \in Devices, NEW m \in net,
               \/ RejectRequest(d, m) \/ RejectResponse(d, m)
               \/ \E p \in Passwords : RequestCryptoFails(d, m, p)
        PROVE  PairedWasAgreed'
    BY <1>2, <1>6 DEF RejectRequest, RequestCryptoFails, RejectResponse, ResetTo, TypeOK
  <1>7. ASSUME NEW d \in Devices, NEW m \in net, NEW p \in Passwords, NEW k \in Keys,
               AcceptRequest(d, m, p, k)
        PROVE  PairedWasAgreed'
    <2>1. PICK r :
             /\ r = [peer |-> m.from, secret |-> {k, m.key}, password |-> p]
             /\ result' = [result EXCEPT ![d] = r]
      BY <1>7 DEF AcceptRequest
    <2>2. m \in Messages /\ m \in net' /\ m.type = "request" /\ m.to = d /\ m.password = p
      BY <1>7, HistoryStep DEF AcceptRequest, RequestIsForMe, TypeOK
    <2>3. r \in Results
      BY <2>1, <2>2, MessageFields DEF Results
    <2>4. result'[d] = r /\ sessionId'[d] = NoKey
      BY <1>7, <2>1 DEF AcceptRequest, TypeOK
    <2>5. r.peer = m.from /\ r.password = p /\ m.key \in r.secret
      BY <2>1
    <2>6. AgreedWithPeer(d)'
      BY <2>2, <2>3, <2>4, <2>5 DEF AgreedWithPeer
    <2>7. \A c \in Devices \ {d} : /\ state'[c] = state[c]
                                   /\ result'[c] = result[c]
                                   /\ sessionId'[c] = sessionId[c]
      BY <1>7, <2>1 DEF AcceptRequest, TypeOK
    <2>8. QED
      BY <1>2, <2>6, <2>7
  <1>8. ASSUME NEW d \in Devices, NEW m \in net, NEW p \in Passwords,
               AcceptResponse(d, m, p)
        PROVE  PairedWasAgreed'
    <2>1. PICK r :
             /\ r = [peer |-> m.from, secret |-> {sessionId[d], m.key}, password |-> p]
             /\ result' = [result EXCEPT ![d] = r]
      BY <1>8 DEF AcceptResponse
    <2>2. /\ m \in Messages /\ m.type = "response" /\ m.to = d /\ m.password = p
          /\ m.session = sessionId[d]
      BY <1>8 DEF AcceptResponse, ResponseIsMine, TypeOK
    <2>3. r \in Results
      BY <2>1, <2>2, MessageFields DEF Results
    <2>4. result'[d] = r /\ sessionId'[d] = sessionId[d] /\ sessionId[d] # NoKey
      BY <1>8, <2>1, <2>2, MessageFields DEF AcceptResponse, TypeOK, PairingAssumption
    <2>5. /\ r.peer = m.from /\ r.peer \in Devices
          /\ [r EXCEPT !.peer = d] =
                [peer |-> m.to, secret |-> {m.key, m.session}, password |-> m.password]
      BY <2>1, <2>2, MessageFields
    <2>6. [r EXCEPT !.peer = d] \in derived'[r.peer]
      BY <2>2, <2>5, HistoryStep DEF MessagesAreSound
    <2>7. AgreedWithPeer(d)'
      BY <2>3, <2>4, <2>6 DEF AgreedWithPeer
    <2>8. \A c \in Devices \ {d} : /\ state'[c] = state[c]
                                   /\ result'[c] = result[c]
                                   /\ sessionId'[c] = sessionId[c]
      BY <1>8, <2>1 DEF AcceptResponse, TypeOK
    <2>9. QED
      BY <1>2, <2>7, <2>8
  <1>9. QED
    BY <1>3, <1>4, <1>5, <1>6, <1>7, <1>8 DEF Next

-----------------------------------------------------------------------------
(* The theorems.                                                           *)

LEMMA PairingInit == Init => PairingInv
  BY DEF Init, PairingInv, TypeOK, PairingState, MessagesAreSound,
         RequestsAreRemembered, AwaitingIsNew, NothingIsReplayed, PairedWasAgreed

\* The inductive invariant of pairing, for every behaviour.
\* (pairing_session.cpp, all handlers)
THEOREM PairingInvHolds == Spec => []PairingInv
  <1>1. PairingInv /\ [Next]_vars => PairingInv'
    BY PairingAssumption, TypeStep, SoundStep, RememberedStep, ReplayStep,
       AwaitingStep, AgreedStep DEF PairingInv
  <1>2. QED
    BY <1>1, PairingInit, PTL DEF Spec

\* No device accepts a message twice, however small the window and however the
\* clocks differ.  (isReplayed and pruneExpired, pairing_session.cpp:20-67)
THEOREM NoReplay == Spec => []NothingIsReplayed
  <1>1. PairingInv => NothingIsReplayed
    BY DEF PairingInv
  <1>2. QED
    BY <1>1, PairingInvHolds, PTL

\* A paired device shares its secret with the peer it names.
\* (handleIncomingRequest and handleIncomingResponse, pairing_session.cpp:234-453)
THEOREM PairedIsAgreed == Spec => []PairedWasAgreed
  <1>1. PairingInv => PairedWasAgreed
    BY DEF PairingInv
  <1>2. QED
    BY <1>1, PairingInvHolds, PTL

\* An initiator completes no attempt older than two windows, by its own clock
\* whatever the skew of its peer.  (the timestamp checks, pairing_session.cpp:
\* 250-256 and 386-391)
THEOREM RecentOnly == Spec => PairingIsRecent
  <1> DEFINE A == \A d \in Devices :
          /\ state[d] = "AwaitingResponse" /\ state'[d] = "Paired"
          /\ sessionId'[d] = sessionId[d]
          => \A m \in net : m.type = "request" /\ m.session = sessionId[d]
                               => Clock(d) - m.time <= 2 * Window
  <1>1. PairingInv /\ [Next]_vars => [A]_vars
    <2> SUFFICES ASSUME PairingInv, [Next]_vars
                 PROVE  A \/ UNCHANGED vars
      OBVIOUS
    <2> USE DEF PairingInv, TypeOK
    <2>0. ASSUME NEW d \in Devices, NEW s \in {"Idle", "Failed", "AwaitingResponse"},
                 \A c \in Devices : state'[c] = IF c = d THEN s ELSE state[c]
          PROVE  A
      BY <2>0
    <2>1. CASE Tick
      BY <2>1 DEF Tick
    <2>2. ASSUME NEW d \in Devices, Cancel(d) \/ InitiateFails(d)
          PROVE  A
      <3>1. PICK s \in {"Idle", "Failed"} : state' = [state EXCEPT ![d] = s]
        BY <2>2 DEF Cancel, InitiateFails, ResetTo
      <3>2. QED
        BY <2>0, <3>1
    <2>3. ASSUME NEW d \in Devices, NEW e \in Devices, NEW k \in Keys,
                 NEW p \in Passwords, InitiatePairing(d, e, k, p)
          PROVE  A
      BY <2>0, <2>3 DEF InitiatePairing
    <2>4. ASSUME NEW d \in Devices, NEW m \in net,
                 \/ RejectRequest(d, m) \/ RejectResponse(d, m)
                 \/ \E p \in Passwords : RequestCryptoFails(d, m, p)
          PROVE  A
      BY <2>0, <2>4 DEF RejectRequest, RequestCryptoFails, RejectResponse, ResetTo
    <2>5. ASSUME NEW d \in Devices, NEW m \in net, NEW p \in Passwords, NEW k \in Keys,
                 AcceptRequest(d, m, p, k)
          PROVE  A
      <3>1. /\ sessionId'[d] = NoKey
            /\ \A c \in Devices \ {d} : state'[c] = state[c]
        BY <2>5 DEF AcceptRequest
      <3>2. \A q \in net : q.session # NoKey
        BY PairingAssumption, MessageFields
      <3>3. QED
        BY <3>1, <3>2
    <2>6. ASSUME NEW d \in Devices, NEW m \in net, NEW p \in Passwords,
                 AcceptResponse(d, m, p)
          PROVE  A
      <3>1. ASSUME NEW q \in net, q.type = "request", q.session = sessionId[d]
            PROVE  Clock(d) - q.time <= 2 * Window
        <4>1. /\ m \in Messages /\ m.type = "response" /\ m.session = sessionId[d]
              /\ Clock(d) - m.time <= Window
          BY <2>6 DEF AcceptResponse, ResponseIsMine, isTimestampValid, InWindow
        <4>2. m.time - q.time <= Window
          BY <3>1, <4>1 DEF MessagesAreSound
        <4>3. m.time \in Int /\ q.time \in Int /\ Clock(d) \in Int /\ Window \in Int
          BY <4>1, PairingAssumption, MessageFields, ClockType
        <4>4. QED
          BY <4>1, <4>2, <4>3
      <3>2. \A c \in Devices \ {d} : state'[c] = state[c]
        BY <2>6 DEF AcceptResponse
      <3>3. QED
        BY <3>1, <3>2
    <2>7. QED
      BY <2>1, <2>2, <2>3, <2>4, <2>5, <2>6 DEF Next
  <1>2. QED
    BY <1>1, PairingInvHolds, PTL DEF Spec, PairingIsRecent
=============================================================================
