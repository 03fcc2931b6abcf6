------------------------------ MODULE VpnPeers ------------------------------
(***************************************************************************)
(* The WireGuard peers of modules/vpn/wireguard.py: a JSON list of peers, a *)
(* configuration file for each, the key pair of the server and wg0.conf.   *)
(* No operation awaits, so those of one worker follow each other; those of *)
(* two workers interleave between any two file operations.                 *)
(***************************************************************************)
EXTENDS FiniteSets, Naturals

CONSTANTS
  VpnWorkers,  \* processes that manage the peers
  PeerNames,   \* safe names; any other is refused before anything is read
  MaxHost,     \* the hosts of the subnet but the server's are 1..MaxHost
  NoFile       \* a file that does not exist, or is not whole

Peer == [name : PeerNames, ip : 1..MaxHost]

ASSUME VpnAssumption ==
  /\ MaxHost \in Nat
  /\ NoFile \notin VpnWorkers /\ \A S \in SUBSET Peer : S # NoFile
  /\ IsFiniteSet(VpnWorkers) /\ IsFiniteSet(PeerNames)

Conf == [ip : 1..MaxHost, server : VpnWorkers]

VARIABLES
  vpnFile,     \* peers.json: a set of peers, or NoFile while it is truncated
  vpnConf,     \* the .conf file of each name
  vpnPriv,     \* server_private.key and server_public.key: who generated them
  vpnPub,
  vpnOp,       \* what each worker is at: its operation and its next file
  vpnCopy,     \* the list it has loaded, with its change
  vpnPeer,     \* the peer that it adds or removes, as a set of at most one
  vpnServer,   \* the public key of the server it was given
  vpnMet       \* history: two operations overlapped, or one died

vpnVars == <<vpnFile, vpnConf, vpnPriv, vpnPub, vpnOp,
             vpnCopy, vpnPeer, vpnServer, vpnMet>>

Idle == <<"none", "idle">>

Steps ==
  {Idle} \cup
  ({"add"} \X {"keys", "public", "truncate", "write", "conf"}) \cup
  ({"remove"} \X {"truncate", "write", "unlink"}) \cup
  ({"generate"} \X {"keys", "public", "config"})

VpnTypeOK ==
  /\ vpnFile = NoFile \/ vpnFile \subseteq Peer
  /\ vpnConf \in [PeerNames -> Conf \cup {NoFile}]
  /\ vpnPriv \in VpnWorkers \cup {NoFile}
  /\ vpnPub \in VpnWorkers \cup {NoFile}
  /\ vpnOp \in [VpnWorkers -> Steps]
  /\ vpnCopy \in [VpnWorkers -> SUBSET Peer]
  /\ vpnPeer \in [VpnWorkers -> SUBSET Peer]
  /\ vpnServer \in [VpnWorkers -> VpnWorkers \cup {NoFile}]
  /\ vpnMet \in BOOLEAN

VpnInit ==
  /\ vpnFile = {}
  /\ vpnConf = [n \in PeerNames |-> NoFile]
  /\ vpnPriv = NoFile
  /\ vpnPub = NoFile
  /\ vpnOp = [w \in VpnWorkers |-> Idle]
  /\ vpnCopy = [w \in VpnWorkers |-> {}]
  /\ vpnPeer = [w \in VpnWorkers |-> {}]
  /\ vpnServer = [w \in VpnWorkers |-> NoFile]
  /\ vpnMet = FALSE

files == <<vpnFile, vpnConf, vpnPriv, vpnPub>>
At(w, step) == vpnOp[w] = step
Goes(w, step) == vpnOp' = [vpnOp EXCEPT ![w] = step]

Begins(w, step) ==
  /\ At(w, Idle)
  /\ Goes(w, step)
  /\ vpnMet' = (vpnMet \/ \E v \in VpnWorkers : ~At(v, Idle))

Ends(w) ==
  /\ Goes(w, Idle)
  /\ vpnCopy' = [vpnCopy EXCEPT ![w] = {}]
  /\ vpnPeer' = [vpnPeer EXCEPT ![w] = {}]
  /\ vpnServer' = [vpnServer EXCEPT ![w] = NoFile]

Holds(w, peers, p) ==
  /\ vpnCopy' = [vpnCopy EXCEPT ![w] = peers]
  /\ vpnPeer' = [vpnPeer EXCEPT ![w] = {p}]

-----------------------------------------------------------------------------

\* Mutant of NextPeerIp.
NextPeerIpCounted(peers) == (1..MaxHost) \cap {Cardinality(peers) + 1}

\* _next_peer_ip: the first host that no listed peer has.  None: ValueError.
NextPeerIp(peers) ==
  LET free == (1..MaxHost) \ {p.ip : p \in peers} IN
  {i \in free : \A j \in free : i <= j}

\* add_peer loads the list (an unreadable one raises) and refuses a name in it.
AddPeer(w, n) ==
  /\ vpnFile # NoFile
  /\ \A p \in vpnFile : p.name # n
  /\ Begins(w, <<"add", "keys">>)
  /\ \E ip \in NextPeerIp(vpnFile) :
       LET p == [name |-> n, ip |-> ip] IN
       Holds(w, vpnFile \cup {p}, p)
  /\ UNCHANGED <<files, vpnServer>>

\* _get_or_create_server_keys: both files are there, or a pair is generated and
\* its private key is written first.
ServerKeys(w, op, next) ==
  /\ At(w, <<op, "keys">>)
  /\ IF vpnPriv # NoFile /\ vpnPub # NoFile
     THEN /\ Goes(w, <<op, next>>)
          /\ vpnServer' = [vpnServer EXCEPT ![w] = vpnPub]
          /\ UNCHANGED vpnPriv
     ELSE /\ Goes(w, <<op, "public">>)
          /\ vpnPriv' = w
          /\ UNCHANGED vpnServer
  /\ UNCHANGED <<vpnFile, vpnConf, vpnPub, vpnCopy,
                 vpnPeer, vpnMet>>

ServerPublicKey(w, op, next) ==
  /\ At(w, <<op, "public">>)
  /\ vpnPub' = w
  /\ vpnServer' = [vpnServer EXCEPT ![w] = w]
  /\ Goes(w, <<op, next>>)
  /\ UNCHANGED <<vpnFile, vpnConf, vpnPriv, vpnCopy,
                 vpnPeer, vpnMet>>

\* _save_peers: the list is truncated, then written.
SavePeers(w, op, next) ==
  /\ \/ At(w, <<op, "truncate">>) /\ vpnFile' = NoFile /\ Goes(w, <<op, "write">>)
     \/ At(w, <<op, "write">>) /\ vpnFile' = vpnCopy[w] /\ Goes(w, <<op, next>>)
  /\ UNCHANGED <<vpnConf, vpnPriv, vpnPub, vpnCopy,
                 vpnPeer, vpnServer, vpnMet>>

\* The configuration names the public key that the operation was given.
WriteConf(w) ==
  /\ At(w, <<"add", "conf">>)
  /\ \E p \in vpnPeer[w] :
       vpnConf' = [vpnConf EXCEPT ![p.name] =
                     [ip |-> p.ip, server |-> vpnServer[w]]]
  /\ Ends(w)
  /\ UNCHANGED <<vpnFile, vpnPriv, vpnPub, vpnMet>>

RemovePeer(w, p) ==
  /\ vpnFile # NoFile
  /\ p \in vpnFile
  /\ Begins(w, <<"remove", "truncate">>)
  /\ Holds(w, {q \in vpnFile : q.name # p.name}, p)
  /\ UNCHANGED <<files, vpnServer>>

Unlink(w) ==
  /\ At(w, <<"remove", "unlink">>)
  /\ \E p \in vpnPeer[w] : vpnConf' = [vpnConf EXCEPT ![p.name] = NoFile]
  /\ Ends(w)
  /\ UNCHANGED <<vpnFile, vpnPriv, vpnPub, vpnMet>>

\* generate_server_config: the keys, then the list, then wg0.conf, which no
\* other operation reads and which is left out with the peers' own key pairs.
GenerateServerConfig(w) ==
  /\ Begins(w, <<"generate", "keys">>)
  /\ UNCHANGED <<files, vpnCopy, vpnPeer, vpnServer>>

WriteWg0(w) ==
  /\ At(w, <<"generate", "config">>)
  /\ Ends(w)
  /\ UNCHANGED <<files, vpnMet>>

VpnCrash(w) ==
  /\ ~At(w, Idle)
  /\ Ends(w)
  /\ vpnMet' = TRUE
  /\ UNCHANGED files

VpnNext ==
  \E w \in VpnWorkers :
    \/ \E n \in PeerNames : AddPeer(w, n)
    \/ ServerKeys(w, "add", "truncate")
    \/ ServerPublicKey(w, "add", "truncate")
    \/ SavePeers(w, "add", "conf")
    \/ WriteConf(w)
    \/ \E p \in Peer : RemovePeer(w, p)
    \/ SavePeers(w, "remove", "unlink")
    \/ Unlink(w)
    \/ GenerateServerConfig(w)
    \/ ServerKeys(w, "generate", "config")
    \/ ServerPublicKey(w, "generate", "config")
    \/ WriteWg0(w)
    \/ VpnCrash(w)

VpnSpec == VpnInit /\ [][VpnNext]_vpnVars

-----------------------------------------------------------------------------
(* Properties                                                              *)

Distinct(peers) ==
  \A p, q \in peers : p.name = q.name \/ p.ip = q.ip => p = q

\* Whatever overlaps and whoever dies, no list that is written has two peers of
\* one name or address; and as long as nothing overlapped and nobody died,
\* there is between operations one configuration for each listed peer, with its
\* address, and the server's two key files are of one pair.
PeersAreConsistent ==
  /\ vpnFile # NoFile => Distinct(vpnFile)
  /\ ~vpnMet /\ (\A w \in VpnWorkers : At(w, Idle)) =>
       /\ vpnPriv = vpnPub
       /\ \A n \in PeerNames :
            IF \E p \in vpnFile : p.name = n
            THEN \E p \in vpnFile : /\ p.name = n
                                    /\ vpnConf[n] = [ip |-> p.ip, server |-> vpnPub]
            ELSE vpnConf[n] = NoFile

=============================================================================
