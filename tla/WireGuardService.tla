--------------------------- MODULE WireGuardService ---------------------------
(***************************************************************************)
(* Network::WireGuardService: one tunnel interface and its peers, and what *)
(* the requests of NetlinkWireGuard do to the interfaces of the kernel.    *)
(*                                                                         *)
(* The kernel is external: an interface is who made it, whether it is up,  *)
(* its addresses, the peers it is configured with and the peer each of     *)
(* their addresses is routed to.  Every netlink request may fail, and one  *)
(* whose answer is lost fails although it was carried out; a failed        *)
(* WG_CMD_SET_DEVICE may have applied some of its peers.  Nobody but the   *)
(* service changes interfaces while it runs, but some are there before.    *)
(* Keys, endpoints and ports matter only for being valid.                  *)
(***************************************************************************)
EXTENDS FiniteSets

CONSTANTS
    Names,       \* interface names
    Default,     \* "wg-meckchat"
    Addresses,   \* virtual addresses for the device itself
    Peers,       \* public keys of peers
    Ips,         \* virtual addresses of peers
    NoPeer,      \* an address that is routed to no peer
    NoIp         \* the peer is not listed

ASSUME WireGuardAssumption ==
    /\ Default \in Names
    /\ Addresses # {}
    /\ NoPeer \notin Peers
    /\ NoIp \notin Ips

VARIABLES
    status,      \* m_status
    name,        \* m_interfaceName
    virtualIp,   \* m_virtualIp
    createdByUs, \* m_interfaceCreatedByUs
    peers,       \* m_peers: the address of each listed peer
    link,        \* the interfaces of the kernel
    keyed,       \* history: the last start that succeeded had a private key
    started      \* history: the interface createdByUs was decided for

vars == <<status, name, virtualIp, createdByUs, peers, link, keyed, started>>

Status == {"Down", "Up", "Error"}

Links ==
    [owner : {"nobody", "service", "other"}, up : BOOLEAN, addresses : SUBSET Addresses,
     peers : SUBSET Peers, route : [Ips -> Peers \cup {NoPeer}]]

NoLink ==
    [owner |-> "nobody", up |-> FALSE, addresses |-> {}, peers |-> {},
     route |-> [i \in Ips |-> NoPeer]]

Exists(n) == link[n].owner # "nobody"

\* The keys of m_peers.
Listed == {k \in Peers : peers[k] # NoIp}

NoPeers == [k \in Peers |-> NoIp]

\* The interfaces there before were made for something else.
Init ==
    /\ status = "Down"
    /\ name = Default
    /\ virtualIp \in Addresses
    /\ createdByUs = FALSE
    /\ peers = NoPeers
    /\ link \in [Names -> {NoLink} \cup {[NoLink EXCEPT !.owner = "other", !.up = up] : up \in BOOLEAN}]
    /\ keyed = FALSE
    /\ started = Default

-----------------------------------------------------------------------------
(* The requests of NetlinkWireGuard, by what is made of an interface.      *)

\* createInterface
Created(n) == IF Exists(n) THEN link[n] ELSE [NoLink EXCEPT !.owner = "service"]

\* setInterfaceAddress: an address is added to those that are there.
Addressed(l, a) == [l EXCEPT !.addresses = @ \cup {a}]

\* setInterfaceUp
Raised(l) == [l EXCEPT !.up = TRUE]

\* setWireGuardDevice for the listed peers of ks, with the addresses of the
\* list f: a peer loses the addresses it had (REPLACE_ALLOWEDIPS), and an
\* address is taken from the peer that had it.  Other peers are left alone.
Configured(l, ks, f) ==
    [l EXCEPT !.peers = @ \cup ks,
              !.route = [i \in Ips |->
                  IF \E k \in ks : f[k] = i THEN CHOOSE k \in ks : f[k] = i
                  ELSE IF l.route[i] \in ks THEN NoPeer
                  ELSE l.route[i]]]

\* setWireGuardDevice with REMOVE_ME.
Without(l, k) ==
    [l EXCEPT !.peers = @ \ {k},
              !.route = [i \in Ips |-> IF l.route[i] = k THEN NoPeer ELSE l.route[i]]]

-----------------------------------------------------------------------------
(* startTunnel, by how far it gets.  Configuring is left before it returns.*)

\* Mistaken: every interface that is started counts as created.
CreatedAnyway(n) == TRUE

\* What m_interfaceCreatedByUs is set to: the interface did not exist before.
NewlyCreated(n) == ~Exists(n)

\* Mistaken: the error is reported, the status is left.
StartRefusedQuietly(n, a) ==
    /\ name' = n
    /\ virtualIp' = a
    /\ UNCHANGED <<status, createdByUs, peers, link, keyed, started>>

\* The address or the key is not valid, the kernel has no WireGuard, or the
\* interface is not created, as far as the answer says.
StartRefused(n, a) ==
    /\ name' = n
    /\ virtualIp' = a
    /\ status' = "Error"
    /\ link' \in {link, [link EXCEPT ![n] = Created(n)]}
    /\ UNCHANGED <<createdByUs, peers, keyed, started>>

\* The interface is there, but a later request fails: that for the peers,
\* when some of them were done, or one that follows it.
StartFails(n, a, done) ==
    /\ name' = n
    /\ virtualIp' = a
    /\ createdByUs' = NewlyCreated(n)
    /\ started' = n
    /\ LET device == Configured(Created(n), done, peers)
           later  == {Addressed(device, a), Raised(Addressed(device, a))}
       IN  \E l \in {device} \cup (IF done \in {{}, Listed} THEN later ELSE {}) :
               link' = [link EXCEPT ![n] = l]
    /\ status' = "Error"
    /\ UNCHANGED <<peers, keyed>>

\* The peers are configured together with the private key, if there is one.
StartTunnel(n, a, key) ==
    /\ name' = n
    /\ virtualIp' = a
    /\ createdByUs' = NewlyCreated(n)
    /\ started' = n
    /\ link' = [link EXCEPT ![n] = Raised(Addressed(
                   Configured(Created(n), IF key THEN Listed ELSE {}, peers), a))]
    /\ status' = "Up"
    /\ keyed' = key
    /\ UNCHANGED peers

\* Neither request of stopTunnel is checked for success.
StopTunnel ==
    /\ status # "Down"
    /\ IF Exists(name)
       THEN /\ \/ UNCHANGED link
               \/ link' = [link EXCEPT ![name].up = FALSE]
               \/ createdByUs /\ link' = [link EXCEPT ![name] = NoLink]
            /\ createdByUs' = FALSE
       ELSE UNCHANGED <<link, createdByUs>>
    /\ peers' = NoPeers
    /\ status' = "Down"
    /\ UNCHANGED <<name, virtualIp, keyed, started>>

-----------------------------------------------------------------------------
\* The application gives a peer an address that no other listed peer has.
Free(k, i) == \A j \in Peers \ {k} : peers[j] # i

\* addPeer, also for a listed peer whose address changes.
AddPeer(k, i) ==
    /\ Free(k, i)
    /\ peers' = [peers EXCEPT ![k] = i]
    /\ link' = IF status = "Up"
               THEN [link EXCEPT ![name] = Configured(@, {k}, [peers EXCEPT ![k] = i])]
               ELSE link
    /\ UNCHANGED <<status, name, virtualIp, createdByUs, keyed, started>>

\* The key or the address of the peer is not valid, whatever the status is.
AddPeerRefused ==
    /\ status' = "Error"
    /\ UNCHANGED <<name, virtualIp, createdByUs, peers, link, keyed, started>>

\* Mistaken: the failure is ignored, as that of a removal is.
AddPeerRegardless(k, i) ==
    /\ status = "Up"
    /\ Free(k, i)
    /\ peers' = [peers EXCEPT ![k] = i]
    /\ UNCHANGED <<status, name, virtualIp, createdByUs, link, keyed, started>>

\* The kernel refuses the peer, or made it although the answer is lost.
AddPeerFails(k, i) ==
    /\ status = "Up"
    /\ Free(k, i)
    /\ link' \in {link, [link EXCEPT ![name] = Configured(@, {k}, [peers EXCEPT ![k] = i])]}
    /\ status' = "Error"
    /\ UNCHANGED <<name, virtualIp, createdByUs, peers, keyed, started>>

\* That the kernel fails to remove the peer is ignored.
RemovePeer(k) ==
    /\ k \in Listed
    /\ \/ /\ status = "Up"
          /\ link' = [link EXCEPT ![name] = Without(@, k)]
       \/ UNCHANGED link
    /\ peers' = [peers EXCEPT ![k] = NoIp]
    /\ UNCHANGED <<status, name, virtualIp, createdByUs, keyed, started>>

\* The process is killed and starts again: the kernel keeps its interfaces.
Restart ==
    /\ status' = "Down"
    /\ name' = Default
    /\ virtualIp' \in Addresses
    /\ createdByUs' = FALSE
    /\ peers' = NoPeers
    /\ keyed' = FALSE
    /\ started' = Default
    /\ UNCHANGED link

Next ==
    \/ \E n \in Names, a \in Addresses :
          \/ StartRefused(n, a)
          \/ \E done \in SUBSET Listed : StartFails(n, a, done)
          \/ \E key \in BOOLEAN : StartTunnel(n, a, key)
    \/ StopTunnel
    \/ \E k \in Peers, i \in Ips : AddPeer(k, i) \/ AddPeerFails(k, i)
    \/ \E k \in Peers : RemovePeer(k)
    \/ AddPeerRefused
    \/ Restart

Spec == Init /\ [][Next]_vars

-----------------------------------------------------------------------------
TypeOK ==
    /\ status \in Status
    /\ name \in Names /\ started \in Names
    /\ virtualIp \in Addresses
    /\ createdByUs \in BOOLEAN
    /\ peers \in [Peers -> Ips \cup {NoIp}]
    /\ link \in [Names -> Links]
    /\ keyed \in BOOLEAN

\* While the service says the tunnel is up, the interface it names is there,
\* is up and has the address it names, whatever was started, stopped or
\* failed before.  (startTunnel and setError, wireguard_service.cpp:46-124)
UpIsUp ==
    status = "Up" => /\ Exists(name) /\ link[name].up
                     /\ virtualIp \in link[name].addresses

\* Every peer the service lists while the tunnel is up is configured in the
\* kernel and gets what is sent to its address, also when it was added before
\* the tunnel came up or while it was in error, when the kernel still routed
\* the address to another peer, and when its address changed; provided the
\* tunnel was started with a private key: without one the start does not
\* configure peers.
\* (wireguard_service.cpp:98-106, 171-205; netlink_wireguard.cpp:466-520)
PeersAreConfigured ==
    status = "Up" /\ keyed =>
        \A k \in Listed : /\ k \in link[name].peers
                          /\ link[name].route[peers[k]] = k

\* An interface the service did not make is deleted in one case only: the
\* flag it goes by was decided for another interface, because a start that
\* was refused had replaced the name.
\* (wireguard_service.h:72, wireguard_service.cpp:59, 96, 132-138)
OthersAreKept ==
    [][\A n \in Names : link[n].owner = "other" /\ link'[n].owner # "other"
                         => name # started]_vars
=============================================================================
