------------------------ MODULE WireGuardServiceProofs ------------------------
(***************************************************************************)
(* Theorems about WireGuardService for any interfaces, addresses and peers.*)
(***************************************************************************)
EXTENDS WireGuardService, TLAPS

\* No two listed peers have one address: the kernel routes it to one peer.
AddressesDiffer == \A k, j \in Listed : k # j => peers[k] # peers[j]

TunnelInv == TypeOK /\ AddressesDiffer /\ UpIsUp /\ PeersAreConfigured

LEMMA NoLinkType == NoLink \in Links
  BY DEF NoLink, Links

LEMMA TunnelInit == WireGuardAssumption /\ Init => TunnelInv
  <1> SUFFICES ASSUME WireGuardAssumption, Init
               PROVE  TunnelInv
    OBVIOUS
  <1>1. \A up \in BOOLEAN : [NoLink EXCEPT !.owner = "other", !.up = up] \in Links
    BY DEF NoLink, Links
  <1>2. link \in [Names -> Links]
    BY <1>1, NoLinkType DEF Init
  <1>3. Listed = {}
    BY DEF Init, NoPeers, Listed
  <1>4. QED
    BY <1>2, <1>3 DEF WireGuardAssumption, Init, TunnelInv, TypeOK, UpIsUp,
                      AddressesDiffer, PeersAreConfigured, Status, NoPeers

-----------------------------------------------------------------------------
(* What the requests make of an interface.                                 *)

\* An interface that is started is one, and keeps what it has.
LEMMA CreatedType ==
    ASSUME TypeOK, NEW n \in Names
    PROVE  /\ Created(n) \in Links /\ Created(n).owner # "nobody"
           /\ Exists(n) => Created(n) = link[n]
  BY DEF TypeOK, Created, Exists, Links, NoLink

\* Configuring peers changes nothing else, and its addresses lead to them.
LEMMA ConfiguredType ==
    ASSUME NEW l \in Links, NEW ks \in SUBSET Peers, NEW f
    PROVE  /\ Configured(l, ks, f) \in Links
           /\ Configured(l, ks, f).owner = l.owner
           /\ Configured(l, ks, f).up = l.up
           /\ Configured(l, ks, f).addresses = l.addresses
           /\ Configured(l, ks, f).peers = l.peers \cup ks
  <1> DEFINE r == [i \in Ips |-> IF \E k \in ks : f[k] = i THEN CHOOSE k \in ks : f[k] = i
                                 ELSE IF l.route[i] \in ks THEN NoPeer ELSE l.route[i]]
  <1>1. r \in [Ips -> Peers \cup {NoPeer}]
    <2>1. ASSUME NEW i \in Ips, \E k \in ks : f[k] = i
          PROVE  (CHOOSE k \in ks : f[k] = i) \in Peers
      BY <2>1
    <2>2. l.route \in [Ips -> Peers \cup {NoPeer}]
      BY DEF Links
    <2>3. QED
      BY <2>1, <2>2
  <1>2. Configured(l, ks, f) = [l EXCEPT !.peers = @ \cup ks, !.route = r]
    BY DEF Configured
  <1> HIDE DEF r
  <1>3. QED
    BY <1>1, <1>2 DEF Links

\* A peer that is configured with an address of its own gets what is sent
\* there; one that is not keeps its address unless it is given away.
LEMMA ConfiguredRoutes ==
    ASSUME NEW l \in Links, NEW ks \in SUBSET Peers, NEW f, NEW k \in Peers, f[k] \in Ips,
           \A j \in ks : j # k => f[j] # f[k],
           k \in ks \/ l.route[f[k]] = k
    PROVE  Configured(l, ks, f).route[f[k]] = k
  <1> DEFINE i == f[k]
  <1>1. Configured(l, ks, f).route[i] =
           (IF \E j \in ks : f[j] = i THEN CHOOSE j \in ks : f[j] = i
            ELSE IF l.route[i] \in ks THEN NoPeer ELSE l.route[i])
    BY DEF Configured, Links
  <1>2. CASE k \in ks
    <2>1. (CHOOSE j \in ks : f[j] = i) = k
      BY <1>2
    <2>2. QED
      BY <1>1, <1>2, <2>1
  <1>3. CASE k \notin ks
    BY <1>1, <1>3
  <1>4. QED
    BY <1>2, <1>3

LEMMA AddressedType ==
    ASSUME NEW l \in Links, NEW a \in Addresses
    PROVE  /\ Addressed(l, a) \in Links /\ Raised(l) \in Links
           /\ Addressed(l, a).owner = l.owner /\ a \in Addressed(l, a).addresses
           /\ Addressed(l, a).peers = l.peers /\ Addressed(l, a).route = l.route
           /\ Raised(l).owner = l.owner /\ Raised(l).addresses = l.addresses
           /\ Raised(l).peers = l.peers /\ Raised(l).route = l.route /\ Raised(l).up
  BY DEF Addressed, Raised, Links

LEMMA WithoutType ==
    ASSUME NEW l \in Links, NEW k \in Peers
    PROVE  /\ Without(l, k) \in Links
           /\ Without(l, k).owner = l.owner /\ Without(l, k).up = l.up
           /\ Without(l, k).addresses = l.addresses
           /\ Without(l, k).peers = l.peers \ {k}
           /\ \A i \in Ips : l.route[i] # k => Without(l, k).route[i] = l.route[i]
  <1> DEFINE r == [i \in Ips |-> IF l.route[i] = k THEN NoPeer ELSE l.route[i]]
  <1>1. r \in [Ips -> Peers \cup {NoPeer}] /\ \A i \in Ips : l.route[i] # k => r[i] = l.route[i]
    BY DEF Links
  <1>2. Without(l, k) = [l EXCEPT !.peers = @ \ {k}, !.route = r]
    BY DEF Without
  <1> HIDE DEF r
  <1>3. QED
    BY <1>1, <1>2 DEF Links
-----------------------------------------------------------------------------
(* TunnelInv is inductive.                                                 *)

LEMMA StartTunnelInv ==
    ASSUME TunnelInv, NEW n \in Names, NEW a \in Addresses, NEW key \in BOOLEAN,
           StartTunnel(n, a, key)
    PROVE  TunnelInv'
  <1> DEFINE ks == IF key THEN Listed ELSE {}
             device == Configured(Created(n), ks, peers)
             new == Raised(Addressed(device, a))
  <1>0. TypeOK /\ AddressesDiffer /\ Created(n) \in Links /\ Created(n).owner # "nobody"
    BY CreatedType DEF TunnelInv
  <1>1. ks \in SUBSET Peers /\ (key => ks = Listed) /\ \A j \in ks : j \in Listed
    BY DEF Listed
  <1> HIDE DEF ks
  <1>2. device \in Links /\ device.owner # "nobody" /\ device.peers = Created(n).peers \cup ks
    BY <1>0, <1>1, ConfiguredType
  <1>3. /\ Addressed(device, a) \in Links /\ Addressed(device, a).owner # "nobody"
        /\ a \in Addressed(device, a).addresses
        /\ Addressed(device, a).peers = device.peers
        /\ Addressed(device, a).route = device.route
    BY <1>2, AddressedType
  <1>4. /\ new \in Links /\ new.owner # "nobody" /\ new.up /\ a \in new.addresses
        /\ new.peers = device.peers /\ new.route = device.route
    BY <1>3, AddressedType
  <1>5. ASSUME key, NEW k \in Listed
        PROVE  k \in new.peers /\ new.route[peers[k]] = k
    <2>1. k \in Peers /\ k \in ks /\ peers[k] \in Ips
      BY <1>0, <1>1, <1>5 DEF Listed, TypeOK
    <2>2. \A j \in ks : j # k => peers[j] # peers[k]
      BY <1>0, <1>1, <1>5 DEF AddressesDiffer
    <2>3. device.route[peers[k]] = k
      BY <1>0, <1>1, <2>1, <2>2, ConfiguredRoutes
    <2>4. QED
      BY <1>2, <1>4, <2>1, <2>3
  <1>6. /\ name' = n /\ started' = n /\ virtualIp' = a /\ createdByUs' \in BOOLEAN
        /\ link' = [link EXCEPT ![n] = new] /\ status' = "Up" /\ keyed' = key
        /\ peers' = peers
    BY DEF StartTunnel, NewlyCreated, Exists, ks
  <1> HIDE DEF new, device
  <1>7. link' \in [Names -> Links] /\ link'[name'] = new
    BY <1>0, <1>4, <1>6 DEF TypeOK
  <1>8. TypeOK'
    BY <1>0, <1>6, <1>7 DEF TypeOK, Status
  <1>9. Listed' = Listed /\ AddressesDiffer'
    BY <1>0, <1>6 DEF Listed, AddressesDiffer
  <1>10. UpIsUp'
    BY <1>4, <1>6, <1>7 DEF UpIsUp, Exists
  <1>11. PeersAreConfigured'
    BY <1>5, <1>6, <1>7, <1>9 DEF PeersAreConfigured
  <1>12. QED
    BY <1>8, <1>9, <1>10, <1>11 DEF TunnelInv

LEMMA AddPeerInv ==
    ASSUME TunnelInv, WireGuardAssumption, NEW k \in Peers, NEW i \in Ips, AddPeer(k, i)
    PROVE  TunnelInv'
  <1> DEFINE f == [peers EXCEPT ![k] = i]
             new == Configured(link[name], {k}, f)
  <1>0. /\ TypeOK /\ AddressesDiffer /\ UpIsUp /\ PeersAreConfigured /\ link[name] \in Links
    BY DEF TunnelInv, TypeOK
  <1>1. /\ f \in [Peers -> Ips \cup {NoIp}] /\ f[k] = i /\ i # NoIp
        /\ \A j \in Peers \ {k} : f[j] = peers[j] /\ f[j] # i
    BY <1>0 DEF AddPeer, Free, TypeOK, WireGuardAssumption
  <1>2. /\ peers' = f /\ link' = IF status = "Up" THEN [link EXCEPT ![name] = new] ELSE link
        /\ UNCHANGED <<status, name, virtualIp, createdByUs, keyed, started>>
    BY DEF AddPeer
  <1> HIDE DEF f
  <1>3. /\ new \in Links /\ new.owner = link[name].owner /\ new.up = link[name].up
        /\ new.addresses = link[name].addresses /\ new.peers = link[name].peers \cup {k}
    BY <1>0, ConfiguredType
  <1>4. ASSUME status = "Up", keyed, NEW j \in Peers, f[j] # NoIp
        PROVE  j \in new.peers /\ new.route[f[j]] = j
    <2>1. f[j] \in Ips
      BY <1>1, <1>4
    <2>2. j = k \/ (j \in link[name].peers /\ link[name].route[f[j]] = j)
      BY <1>0, <1>1, <1>4 DEF PeersAreConfigured, Listed
    <2>3. \A c \in {k} : c # j => f[c] # f[j]
      BY <1>1, <1>4
    <2>4. new.route[f[j]] = j
      BY <1>0, <2>1, <2>2, <2>3, ConfiguredRoutes
    <2>5. QED
      BY <1>3, <2>2, <2>4
  <1> HIDE DEF new
  <1>5. TypeOK'
    BY <1>0, <1>1, <1>3, <1>2 DEF TypeOK
  <1>6. AddressesDiffer'
    BY <1>0, <1>1, <1>2 DEF AddressesDiffer, Listed
  <1>7. status = "Up" => link'[name] = new
    BY <1>0, <1>2 DEF TypeOK
  <1>8. UpIsUp'
    BY <1>0, <1>3, <1>2, <1>7 DEF UpIsUp, Exists
  <1>9. PeersAreConfigured'
    BY <1>4, <1>2, <1>7 DEF PeersAreConfigured, Listed
  <1>10. QED
    BY <1>5, <1>6, <1>8, <1>9 DEF TunnelInv

LEMMA RemovePeerInv ==
    ASSUME TunnelInv, WireGuardAssumption, NEW k \in Peers, RemovePeer(k)
    PROVE  TunnelInv'
  <1> DEFINE new == Without(link[name], k)
  <1>0. TypeOK /\ AddressesDiffer /\ UpIsUp /\ PeersAreConfigured /\ link[name] \in Links
    BY DEF TunnelInv, TypeOK
  <1>1. /\ new \in Links /\ new.owner = link[name].owner /\ new.up = link[name].up
        /\ new.addresses = link[name].addresses /\ new.peers = link[name].peers \ {k}
        /\ \A i \in Ips : link[name].route[i] # k => new.route[i] = link[name].route[i]
    BY <1>0, WithoutType
  <1>2. /\ peers' = [peers EXCEPT ![k] = NoIp]
        /\ link' = [link EXCEPT ![name] = new] \/ link' = link
        /\ UNCHANGED <<status, name, virtualIp, createdByUs, keyed, started>>
    BY DEF RemovePeer
  <1> HIDE DEF new
  <1>3. TypeOK'
    BY <1>0, <1>1, <1>2 DEF TypeOK
  <1>4. Listed' = Listed \ {k} /\ \A j \in Listed' : peers'[j] = peers[j] /\ peers[j] \in Ips
    BY <1>0, <1>2 DEF Listed, TypeOK
  <1>5. AddressesDiffer'
    BY <1>0, <1>4 DEF AddressesDiffer
  <1>6. link'[name] \in {new, link[name]}
    BY <1>0, <1>2 DEF TypeOK
  <1>7. UpIsUp'
    BY <1>0, <1>1, <1>2, <1>6 DEF UpIsUp, Exists
  <1>8. PeersAreConfigured'
    BY <1>0, <1>1, <1>2, <1>4, <1>6 DEF PeersAreConfigured
  <1>9. QED
    BY <1>3, <1>5, <1>7, <1>8 DEF TunnelInv

\* A step that leaves the list alone, or empties it, and does not end in Up
\* has only types to keep.
LEMMA NotUpInv ==
    ASSUME TunnelInv, WireGuardAssumption,
           status' \in Status \ {"Up"}, name' \in Names, started' \in Names,
           virtualIp' \in Addresses, createdByUs' \in BOOLEAN, keyed' \in BOOLEAN,
           peers' \in {peers, NoPeers}, link' \in [Names -> Links]
    PROVE  TunnelInv'
  <1>1. TypeOK'
    BY DEF TunnelInv, TypeOK, NoPeers
  <1>2. AddressesDiffer'
    BY DEF TunnelInv, AddressesDiffer, Listed, NoPeers
  <1>3. QED
    BY <1>1, <1>2 DEF TunnelInv, UpIsUp, PeersAreConfigured

LEMMA TunnelStep ==
    ASSUME TunnelInv, WireGuardAssumption, [Next]_vars
    PROVE  TunnelInv'
  <1>0. TypeOK
    BY DEF TunnelInv
  <1>1. ASSUME NEW n \in Names, NEW a \in Addresses, StartRefused(n, a)
        PROVE  TunnelInv'
    <2>1. link' \in [Names -> Links]
      BY <1>0, <1>1, CreatedType DEF StartRefused, TypeOK
    <2>2. QED
      BY <1>0, <1>1, <2>1, NotUpInv DEF StartRefused, TypeOK, Status
  <1>2. ASSUME NEW n \in Names, NEW a \in Addresses, NEW done \in SUBSET Listed,
               StartFails(n, a, done)
        PROVE  TunnelInv'
    <2> DEFINE device == Configured(Created(n), done, peers)
    <2>1. device \in Links
      BY <1>0, CreatedType, ConfiguredType DEF Listed
    <2>2. Addressed(device, a) \in Links /\ Raised(Addressed(device, a)) \in Links
      BY <2>1, AddressedType
    <2>3. \E l \in {device, Addressed(device, a), Raised(Addressed(device, a))} :
              link' = [link EXCEPT ![n] = l]
      BY <1>2 DEF StartFails
    <2> HIDE DEF device
    <2>4. link' \in [Names -> Links]
      BY <1>0, <2>1, <2>2, <2>3 DEF TypeOK
    <2>5. QED
      BY <1>0, <1>2, <2>4, NotUpInv DEF StartFails, NewlyCreated, TypeOK, Status, Exists
  <1>3. ASSUME NEW n \in Names, NEW a \in Addresses, NEW key \in BOOLEAN,
               StartTunnel(n, a, key)
        PROVE  TunnelInv'
    BY <1>3, StartTunnelInv
  <1>4. CASE StopTunnel
    <2>1. [link EXCEPT ![name].up = FALSE] \in [Names -> Links]
      BY <1>0 DEF Links, TypeOK
    <2>2. [link EXCEPT ![name] = NoLink] \in [Names -> Links]
      BY <1>0, NoLinkType DEF TypeOK
    <2>3. link' \in {link, [link EXCEPT ![name].up = FALSE], [link EXCEPT ![name] = NoLink]}
      BY <1>4 DEF StopTunnel
    <2>4. /\ status' = "Down" /\ createdByUs' \in BOOLEAN /\ peers' = NoPeers
          /\ UNCHANGED <<name, virtualIp, keyed, started>>
      BY <1>0, <1>4 DEF StopTunnel, TypeOK
    <2>5. QED
      BY <1>0, <2>1, <2>2, <2>3, <2>4, NotUpInv DEF TypeOK, Status
  <1>5. ASSUME NEW k \in Peers, NEW i \in Ips, AddPeer(k, i)
        PROVE  TunnelInv'
    BY <1>5, AddPeerInv
  <1>6. ASSUME NEW k \in Peers, NEW i \in Ips, AddPeerFails(k, i)
        PROVE  TunnelInv'
    <2>1. Configured(link[name], {k}, [peers EXCEPT ![k] = i]) \in Links
      BY <1>0, ConfiguredType DEF TypeOK
    <2>2. link' \in [Names -> Links]
      BY <1>0, <1>6, <2>1 DEF AddPeerFails, TypeOK
    <2>3. QED
      BY <1>0, <1>6, <2>2, NotUpInv DEF AddPeerFails, TypeOK, Status
  <1>7. ASSUME NEW k \in Peers, RemovePeer(k)
        PROVE  TunnelInv'
    BY <1>7, RemovePeerInv
  <1>8. CASE AddPeerRefused
    BY <1>0, <1>8, NotUpInv DEF AddPeerRefused, TypeOK, Status
  <1>9. CASE Restart
    BY <1>0, <1>9, NotUpInv DEF Restart, TypeOK, Status, WireGuardAssumption
  <1>10. CASE UNCHANGED vars
    BY <1>10 DEF vars, TunnelInv, TypeOK, AddressesDiffer, Listed, UpIsUp, Exists,
                 PeersAreConfigured
  <1>11. QED
    BY <1>1, <1>2, <1>3, <1>4, <1>5, <1>6, <1>7, <1>8, <1>9, <1>10 DEF Next

-----------------------------------------------------------------------------
\* A tunnel that is up is up in the kernel, under its name and its address.
\* (startTunnel and setError, wireguard_service.cpp:46-124)
THEOREM TunnelIsUp == Spec => [](TypeOK /\ UpIsUp)
  <1>1. TunnelInv => TypeOK /\ UpIsUp
    BY DEF TunnelInv
  <1>2. TunnelInv /\ [Next]_vars => TunnelInv'
    BY TunnelStep, WireGuardAssumption
  <1>3. QED
    BY <1>1, <1>2, TunnelInit, WireGuardAssumption, PTL DEF Spec

\* The peers the service lists are the kernel's while a keyed tunnel is up,
\* and their addresses lead to them.
\* (addPeer, removePeer and startTunnel, wireguard_service.cpp:98-106, 144-205)
THEOREM PeersInKernel == Spec => []PeersAreConfigured
  <1>1. TunnelInv => PeersAreConfigured
    BY DEF TunnelInv
  <1>2. TunnelInv /\ [Next]_vars => TunnelInv'
    BY TunnelStep, WireGuardAssumption
  <1>3. QED
    BY <1>1, <1>2, TunnelInit, WireGuardAssumption, PTL DEF Spec

-----------------------------------------------------------------------------
(* Who made an interface.  A request that is not a deletion makes an       *)
(* interface at most, and the flag is true only of one the service made.   *)

OwnersOnlyGrow ==
    \A n \in Names : \/ link'[n].owner = link[n].owner
                     \/ link[n].owner = "nobody" /\ link'[n].owner = "service"

LEMMA OwnersStep ==
    ASSUME TypeOK, [Next]_vars, ~StopTunnel
    PROVE  OwnersOnlyGrow
  <1> USE DEF OwnersOnlyGrow
  <1>0. ASSUME NEW n \in Names
        PROVE  /\ Created(n) \in Links
               /\ Created(n).owner = IF Exists(n) THEN link[n].owner ELSE "service"
    BY CreatedType DEF Created, NoLink
  <1>1. ASSUME NEW n \in Names, NEW new,
               new.owner = Created(n).owner, link' = [link EXCEPT ![n] = new]
        PROVE  OwnersOnlyGrow
    BY <1>0, <1>1 DEF TypeOK, Exists
  <1>2. ASSUME NEW n \in Names, NEW new, new.owner = link[n].owner,
               link' \in {link, [link EXCEPT ![n] = new]}
        PROVE  OwnersOnlyGrow
    BY <1>2 DEF TypeOK
  <1>3. ASSUME NEW n \in Names, NEW a \in Addresses, StartRefused(n, a)
        PROVE  OwnersOnlyGrow
    BY <1>1, <1>3 DEF StartRefused
  <1>4. ASSUME NEW n \in Names, NEW a \in Addresses, NEW done \in SUBSET Listed,
               StartFails(n, a, done)
        PROVE  OwnersOnlyGrow
    <2> DEFINE device == Configured(Created(n), done, peers)
    <2>1. device \in Links /\ device.owner = Created(n).owner
      BY <1>0, ConfiguredType DEF Listed
    <2>2. \E l \in {device, Addressed(device, a), Raised(Addressed(device, a))} :
              link' = [link EXCEPT ![n] = l]
      BY <1>4 DEF StartFails
    <2> HIDE DEF device
    <2>3. /\ Addressed(device, a).owner = device.owner /\ Addressed(device, a) \in Links
      BY <2>1, AddressedType
    <2>4. Raised(Addressed(device, a)).owner = device.owner
      BY <2>3, AddressedType
    <2>5. QED
      BY <1>1, <2>1, <2>2, <2>3, <2>4
  <1>5. ASSUME NEW n \in Names, NEW a \in Addresses, NEW key \in BOOLEAN,
               StartTunnel(n, a, key)
        PROVE  OwnersOnlyGrow
    <2> DEFINE device == Configured(Created(n), IF key THEN Listed ELSE {}, peers)
    <2>1. PICK ks \in SUBSET Peers : ks = IF key THEN Listed ELSE {}
      BY DEF Listed
    <2>2. device = Configured(Created(n), ks, peers)
      BY <2>1
    <2>3. link' = [link EXCEPT ![n] = Raised(Addressed(device, a))]
      BY <1>5 DEF StartTunnel
    <2> HIDE DEF device
    <2>4. device \in Links /\ device.owner = Created(n).owner
      BY <1>0, <2>2, ConfiguredType
    <2>5. Addressed(device, a).owner = device.owner /\ Addressed(device, a) \in Links
      BY <2>4, AddressedType
    <2>6. Raised(Addressed(device, a)).owner = device.owner
      BY <2>5, AddressedType
    <2>7. QED
      BY <1>1, <2>3, <2>4, <2>6
  <1>6. ASSUME NEW k \in Peers, NEW i \in Ips, AddPeer(k, i) \/ AddPeerFails(k, i)
        PROVE  OwnersOnlyGrow
    <2>0. PICK f : f = [peers EXCEPT ![k] = i]
      OBVIOUS
    <2> DEFINE new == Configured(link[name], {k}, f)
    <2>1. new.owner = link[name].owner
      <3>1. link[name] \in Links /\ {k} \in SUBSET Peers
        BY DEF TypeOK
      <3>2. QED
        BY <3>1, ConfiguredType
    <2>2. link' \in {link, [link EXCEPT ![name] = new]}
      BY <1>6, <2>0 DEF AddPeer, AddPeerFails
    <2> HIDE DEF new
    <2>3. QED
      BY <1>2, <2>1, <2>2 DEF TypeOK
  <1>7. ASSUME NEW k \in Peers, RemovePeer(k)
        PROVE  OwnersOnlyGrow
    <2>1. Without(link[name], k).owner = link[name].owner
      BY WithoutType DEF TypeOK
    <2>2. link' \in {link, [link EXCEPT ![name] = Without(link[name], k)]}
      BY <1>7 DEF RemovePeer
    <2>3. QED
      BY <1>2, <2>1, <2>2 DEF TypeOK
  <1>8. CASE AddPeerRefused \/ Restart \/ UNCHANGED vars
    BY <1>8 DEF AddPeerRefused, Restart, vars
  <1>9. QED
    BY <1>3, <1>4, <1>5, <1>6, <1>7, <1>8 DEF Next

\* The flag is never true of an interface that others made.
FlagIsOurs == createdByUs => link[started].owner # "other"

LEMMA FlagStep ==
    ASSUME TypeOK, FlagIsOurs, [Next]_vars
    PROVE  FlagIsOurs'
  <1> USE DEF FlagIsOurs, TypeOK
  <1>1. CASE StopTunnel
    BY <1>1 DEF StopTunnel, NoLink
  <1>2. CASE ~StopTunnel
    <2>1. OwnersOnlyGrow
      BY <1>2, OwnersStep
    <2>2. CASE \E n \in Names, a \in Addresses :
                  \/ \E done \in SUBSET Listed : StartFails(n, a, done)
                  \/ \E key \in BOOLEAN : StartTunnel(n, a, key)
      <3>1. PICK n \in Names : createdByUs' = ~Exists(n) /\ started' = n
        BY <2>2 DEF StartFails, StartTunnel, NewlyCreated
      <3>2. QED
        BY <2>1, <3>1 DEF OwnersOnlyGrow, Exists
    <2>3. CASE UNCHANGED <<createdByUs, started>>
      BY <2>1, <2>3 DEF OwnersOnlyGrow
    <2>4. CASE Restart
      BY <2>4 DEF Restart
    <2>5. QED
      BY <1>2, <2>2, <2>3, <2>4
         DEF Next, StartRefused, AddPeer, AddPeerFails, RemovePeer, AddPeerRefused, vars
  <1>3. QED
    BY <1>1, <1>2

\* An interface that others made is deleted only when the flag was decided
\* for another interface.  (startTunnel and stopTunnel,
\* wireguard_service.cpp:59, 96, 132-138)
THEOREM OthersKept == Spec => OthersAreKept
  <1> DEFINE A == \A n \in Names : link[n].owner = "other" /\ link'[n].owner # "other"
                                   => name # started
  <1>1. TypeOK /\ FlagIsOurs /\ [Next]_vars => [A]_vars
    <2> SUFFICES ASSUME TypeOK, FlagIsOurs, [Next]_vars, NEW n \in Names,
                        link[n].owner = "other", link'[n].owner # "other"
                 PROVE  name # started
      OBVIOUS
    <2>1. StopTunnel
      BY OwnersStep DEF OwnersOnlyGrow
    <2>2. createdByUs /\ n = name
      <3>1. [link EXCEPT ![name].up = FALSE][n].owner = link[n].owner
        BY DEF TypeOK, Links
      <3>2. link' # link /\ link' # [link EXCEPT ![name].up = FALSE]
        BY <3>1
      <3>3. createdByUs /\ link' = [link EXCEPT ![name] = NoLink]
        BY <2>1, <3>2 DEF StopTunnel
      <3>4. QED
        BY <3>3 DEF TypeOK
    <2>3. QED
      BY <2>2 DEF FlagIsOurs
  <1>2. Init => FlagIsOurs
    BY DEF Init, FlagIsOurs
  <1>3. TunnelInv => TypeOK
    BY DEF TunnelInv
  <1>4. TunnelInv /\ FlagIsOurs /\ [Next]_vars => TunnelInv' /\ FlagIsOurs'
    BY TunnelStep, FlagStep, <1>3, WireGuardAssumption
  <1>5. QED
    BY <1>1, <1>2, <1>3, <1>4, TunnelInit, WireGuardAssumption, PTL
       DEF Spec, OthersAreKept
=============================================================================
