------------------------------ MODULE Services -------------------------------
(***************************************************************************)
(* A node's services around messaging and isolation: the relay mailbox,    *)
(* federated resolution, gossip about anomalies, proposals to isolate,     *)
(* attention tokens, wills and backups, and the WebSocket and libp2p       *)
(* connections.                                                            *)
(*                                                                         *)
(* Each keeps its state to itself, in a store or a map that no other reads *)
(* or writes, so their interleavings show nothing that each does not show  *)
(* alone: a behaviour exercises one of them.                               *)
(***************************************************************************)
EXTENDS Relay, Federation, AnomalyGossip, Consensus, AttentionTokens, Backups, WebSocket,
        PeerStream

VARIABLE service   \* the service a behaviour exercises

servicesVars == <<service, relayVars, federationVars, gossipVars, consensusVars, tokenVars,
                  backupVars, socketVars, streamVars>>

ServicesInit ==
  /\ service \in {"relay", "federation", "gossip", "consensus", "tokens", "backups", "socket",
                  "stream"}
  /\ RelayInit /\ FederationInit /\ GossipInit /\ ConsensusInit
  /\ TokensInit /\ BackupsInit /\ SocketInit /\ PeerStreamInit

Only(name) == service = name /\ UNCHANGED service

InRelay ==
  /\ Only("relay")
  /\ UNCHANGED <<federationVars, gossipVars, consensusVars, tokenVars,
                 backupVars, socketVars, streamVars>>
InFederation ==
  /\ Only("federation")
  /\ UNCHANGED <<relayVars, gossipVars, consensusVars, tokenVars,
                 backupVars, socketVars, streamVars>>
InGossip ==
  /\ Only("gossip")
  /\ UNCHANGED <<relayVars, federationVars, consensusVars, tokenVars,
                 backupVars, socketVars, streamVars>>
InConsensus ==
  /\ Only("consensus")
  /\ UNCHANGED <<relayVars, federationVars, gossipVars, tokenVars,
                 backupVars, socketVars, streamVars>>
InTokens ==
  /\ Only("tokens")
  /\ UNCHANGED <<relayVars, federationVars, gossipVars, consensusVars,
                 backupVars, socketVars, streamVars>>
InBackups ==
  /\ Only("backups")
  /\ UNCHANGED <<relayVars, federationVars, gossipVars, consensusVars,
                 tokenVars, socketVars, streamVars>>
InSocket ==
  /\ Only("socket")
  /\ UNCHANGED <<relayVars, federationVars, gossipVars, consensusVars,
                 tokenVars, backupVars, streamVars>>
InStream ==
  /\ Only("stream")
  /\ UNCHANGED <<relayVars, federationVars, gossipVars, consensusVars,
                 tokenVars, backupVars, socketVars>>

ServicesNext ==
  \/ RelayNext /\ InRelay
  \/ FederationNext /\ InFederation
  \/ GossipNext /\ InGossip
  \/ ConsensusNext /\ InConsensus
  \/ TokensNext /\ InTokens
  \/ BackupsNext /\ InBackups
  \/ SocketNext /\ InSocket
  \/ PeerStreamNext /\ InStream

\* Node runs every timer in the end: that of a request to a registry and that of
\* a request on a socket.  Nothing makes an answer come.
Timeouts ==
  /\ \A i \in 1..MaxResolutions : WF_servicesVars(Fail(i) /\ InFederation)
  /\ \A r \in Requests : WF_servicesVars(TimesOut(r) /\ InSocket)

Spec == ServicesInit /\ [][ServicesNext]_servicesVars /\ Timeouts

\* The state of each service keeps its shape; trust stays in its range, and at
\* most one proposal about a DID takes votes.
TypeOK ==
  /\ RelayTypeOK /\ FederationTypeOK /\ GossipTypeOK
  /\ ConsensusTypeOK /\ SocketTypeOK
  /\ PeerStreamTypeOK /\ TokensTypeOK /\ BackupsTypeOK

=============================================================================
