------------------------------ MODULE MCServices ------------------------------
(***************************************************************************)
(* The services that keep state of their own, each with its files, rows or *)
(* memory, checked together: a behaviour is one of a single service, and   *)
(* which one is chosen at the start.  The services share no state, so that *)
(* nothing is lost by checking them side by side rather than interleaved.  *)
(***************************************************************************)
EXTENDS IocStore, DarkWatch, Federation, JsonStores, TrafficLog, VpnPeers,
        Quotas, SlidingWindow, ProgressSockets, InstanceLicense, EternalArchive, TLC

VARIABLE part

servicesVars == <<part, iocVars, darkVars, fedVars, jsonVars, trafficVars, vpnVars,
                  quotaVars, windowVars, socketVars, licenseVars, archiveVars>>

CapOfEach == [m \in Meters |-> 2]
TierOfEach == [k \in LicenseKeys |-> IF k = "p1" THEN "pro" ELSE "enterprise"]
ExpiryOfEach == [k \in LicenseKeys |-> IF k = "p1" THEN 1 ELSE 2]

ServicesInit ==
  /\ part \in {"ioc", "dark", "fed", "json", "traffic", "vpn", "quota", "window",
               "sockets", "license", "archive"}
  /\ IocInit /\ DarkInit /\ FedInit /\ JsonInit /\ TrafficInit /\ VpnInit
  /\ QuotaInit /\ WindowInit /\ SocketInit /\ LicenseInit /\ ArchiveInit
  /\ part # "json" => jsonKind = Predictions

Stays(which, vars) == IF part = which THEN TRUE ELSE UNCHANGED vars

ServicesNext ==
  /\ \/ part = "ioc" /\ IocNext
     \/ part = "dark" /\ DarkNext
     \/ part = "fed" /\ FedNext
     \/ part = "json" /\ JsonNext
     \/ part = "traffic" /\ TrafficNext
     \/ part = "vpn" /\ VpnNext
     \/ part = "quota" /\ QuotaNext
     \/ part = "window" /\ WindowNext
     \/ part = "sockets" /\ SocketNext
     \/ part = "license" /\ LicenseNext
     \/ part = "archive" /\ ArchiveNext
  /\ UNCHANGED part
  /\ Stays("ioc", iocVars) /\ Stays("dark", darkVars) /\ Stays("fed", fedVars)
  /\ Stays("json", jsonVars) /\ Stays("traffic", trafficVars) /\ Stays("vpn", vpnVars)
  /\ Stays("quota", quotaVars) /\ Stays("window", windowVars)
  /\ Stays("sockets", socketVars) /\ Stays("license", licenseVars)
  /\ Stays("archive", archiveVars)

\* Once two VPN operations have overlapped, or one has died, PeersAreConsistent
\* and the next steps of the list depend no more on the configurations, on whose
\* keys are there, or on whose were read.
VpnView ==
  IF vpnMet THEN <<vpnFile, vpnPriv # NoFile, vpnPub # NoFile, vpnOp, vpnCopy, vpnPeer>>
            ELSE vpnVars

ServicesView ==
  <<part, iocVars, darkVars, fedVars, jsonVars, trafficVars, VpnView,
    quotaVars, windowVars, socketVars, licenseVars, archiveVars>>

Symmetry == Permutations(Peers)

ServicesSpec == ServicesInit /\ [][ServicesNext]_servicesVars

-----------------------------------------------------------------------------

\* The service's state has its shape.
ServicesTypeOK ==
  CASE part = "ioc" -> IocTypeOK
    [] part = "dark" -> DarkTypeOK
    [] part = "fed" -> FedTypeOK
    [] part = "json" -> JsonTypeOK
    [] part = "traffic" -> TrafficTypeOK
    [] part = "vpn" -> VpnTypeOK
    [] part = "quota" -> QuotaTypeOK
    [] part = "window" -> WindowTypeOK
    [] part = "sockets" -> SocketTypeOK
    [] part = "license" -> LicenseTypeOK
    [] part = "archive" -> ArchiveTypeOK

\* What the stores hold is what they were given: whole batches of indicators,
\* alerts of leaks that exist, every archived event in one store or the other,
\* the marks of the traffic log, VPN peers whose addresses, keys and
\* configurations agree, and in the JSON files what an operation stored that met
\* no other (BatchesAreWhole, AlertsBounded, ArchiveKeepsAll, MarksAreExact,
\* PeersAreConsistent, StoredAloneStays of the services' modules).
StoresAreExact ==
  CASE part = "ioc" -> BatchesAreWhole
    [] part = "dark" -> AlertsBounded
    [] part = "archive" -> ArchiveKeepsAll
    [] part = "traffic" -> MarksAreExact
    [] part = "vpn" -> PeersAreConsistent
    [] part = "json" -> StoredAloneStays
    [] OTHER -> TRUE

\* What the limits let through beyond themselves is what was under way when they
\* were reached (OvershootIsInFlight, AdmittedInWindow, ListsStayShort,
\* SocketsAreCounted of the services' modules).
LimitsHold ==
  CASE part = "quota" -> OvershootIsInFlight
    [] part = "window" -> ListsStayShort /\ AdmittedInWindow
    [] part = "sockets" -> SocketsAreCounted
    [] OTHER -> TRUE
=============================================================================
