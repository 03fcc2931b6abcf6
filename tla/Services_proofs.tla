---------------------------- MODULE Services_proofs ----------------------------
(***************************************************************************)
(* Theorems about the services that MCServices checks side by side, for    *)
(* any values of their constants: the limits (Quotas), the sockets of a    *)
(* scan (ProgressSockets), the license of the installation                 *)
(* (InstanceLicense), the file of the federation (Federation), then the    *)
(* other stores and the request limiter, and from all of their invariants  *)
(* those of the composition.                                               *)
(***************************************************************************)
EXTENDS MCServices, FiniteSetTheorems, SequenceTheorems, TLAPS

-----------------------------------------------------------------------------
(* Quotas                                                                  *)

\* The requests in flight for a meter are finitely many, no more than there are
\* requests.
LEMMA FlightIsBounded ==
  ASSUME NEW m
  PROVE  /\ IsFiniteSet(InFlight(m)) /\ IsFiniteSet(Requesters)
         /\ Cardinality(InFlight(m)) \in Nat /\ Cardinality(Requesters) \in Nat
         /\ Cardinality(InFlight(m)) <= Cardinality(Requesters)
  BY QuotaAssumption, FS_Subset, FS_CardinalityType DEF InFlight

\* A request that passes a check is in flight for that meter and no other.
LEMMA PassingTakesOff ==
  ASSUME NEW r \in Requesters, NEW n \in Meters, NEW m \in Meters,
         QuotaTypeOK, Passes(r, n), n # m
  PROVE  InFlight(m)' = InFlight(m)
  BY WaitingAssumption DEF QuotaTypeOK, Passes, InFlight

\* A request that settles leaves the flight of its meter, and no other's changes.
LEMMA SettlingLands ==
  ASSUME NEW r \in Requesters, NEW k \in Nat, NEW m \in Meters,
         QuotaTypeOK, passed[r] \in Meters, Settles(r, k)
  PROVE  /\ m = passed[r] => /\ used'[m] = k
                             /\ r \in InFlight(m)
                             /\ InFlight(m)' = InFlight(m) \ {r}
         /\ m # passed[r] => /\ used'[m] = used[m]
                             /\ InFlight(m)' = InFlight(m)
  BY WaitingAssumption DEF QuotaTypeOK, Settles, InFlight

\* The counters, the requests and the confirmations keep their types.
THEOREM QuotaTypeCorrect == QuotaSpec => []QuotaTypeOK
<1>1. QuotaInit => QuotaTypeOK
  BY DEF QuotaInit, QuotaTypeOK
<1>2. QuotaTypeOK /\ [QuotaNext]_quotaVars => QuotaTypeOK'
  <2> SUFFICES ASSUME QuotaTypeOK, [QuotaNext]_quotaVars PROVE QuotaTypeOK'
    OBVIOUS
  <2> USE DEF QuotaTypeOK, Meters
  <2>1. ASSUME NEW r \in Requesters,
               CountTargets(r) \/ CheckRateLimit(r) \/ WouldExceed(r)
               \/ EnforceSubmissionQuota(r) \/ RequireConfirmation(r)
        PROVE  QuotaTypeOK'
    BY <2>1, WaitingAssumption
       DEF CountTargets, CheckRateLimit, WouldExceed, EnforceSubmissionQuota,
           RequireConfirmation, Passes
  <2>2. ASSUME NEW r \in Requesters, InsertTarget(r) PROVE QuotaTypeOK'
    BY <2>2, QuotaAssumption DEF InsertTarget, Settles
  <2>3. ASSUME NEW r \in Requesters, RecordSubmission(r) PROVE QuotaTypeOK'
    BY <2>3 DEF RecordSubmission, Settles
  <2>4. ASSUME NEW r \in Requesters,
               RecordFailedAttempt(r) \/ ClearAttempts(r) \/ RecordTokens(r)
        PROVE  QuotaTypeOK'
    BY <2>4, QuotaAssumption
       DEF RecordFailedAttempt, ClearAttempts, RecordTokens, Settles
  <2>5. ASSUME NEW r \in Requesters, Abandon(r) PROVE QuotaTypeOK'
    <3>1. passed[r] \in Meters
      BY <2>5 DEF Abandon
    <3>2. QED
      BY <2>5, <3>1 DEF Abandon, Settles
  <2>6. ASSUME NEW m \in Meters, DeleteTarget(m) \/ WindowPasses(m)
        PROVE  QuotaTypeOK'
    BY <2>6 DEF DeleteTarget, WindowPasses, OneLess
  <2>7. CASE UNCHANGED quotaVars
    BY <2>7 DEF quotaVars
  <2>8. QED
    BY <2>1, <2>2, <2>3, <2>4, <2>5, <2>6, <2>7 DEF QuotaNext
<1>3. QED
  BY <1>1, <1>2, PTL DEF QuotaSpec

\* No limit is overshot by more than the requests that may be between their
\* check and their record: the inductive invariant counts those too, because a
\* check leaves the counter alone and a record moves a request from the one to
\* the other.
THEOREM OvershootBounded == QuotaSpec => []OvershootIsInFlight
<1>1. QuotaInit => OvershootIsInFlight
  <2> SUFFICES ASSUME QuotaInit, NEW m \in Meters
               PROVE  used[m] + Cardinality(InFlight(m))
                        < QuotaCap[m] + Cardinality(Requesters)
    BY DEF OvershootIsInFlight
  <2>1. used[m] = 0 /\ InFlight(m) = {}
    BY WaitingAssumption DEF QuotaInit, InFlight
  <2>2. Cardinality(InFlight(m)) = 0
    BY <2>1, FS_EmptySet
  <2>3. QuotaCap[m] \in Nat \ {0}
    BY QuotaAssumption
  <2>4. QED
    BY <2>1, <2>2, <2>3, FlightIsBounded
<1>2. QuotaTypeOK /\ QuotaTypeOK' /\ OvershootIsInFlight /\ [QuotaNext]_quotaVars
        => OvershootIsInFlight'
  <2> SUFFICES ASSUME QuotaTypeOK, QuotaTypeOK', OvershootIsInFlight,
                      [QuotaNext]_quotaVars, NEW m \in Meters
               PROVE  used'[m] + Cardinality(InFlight(m)')
                        < QuotaCap[m] + Cardinality(Requesters)
    BY DEF OvershootIsInFlight
  <2>0. /\ used[m] \in Nat /\ used'[m] \in Nat /\ QuotaCap[m] \in Nat \ {0}
        /\ used[m] + Cardinality(InFlight(m)) < QuotaCap[m] + Cardinality(Requesters)
        /\ Cardinality(InFlight(m)) \in Nat /\ Cardinality(Requesters) \in Nat
        /\ IsFiniteSet(InFlight(m))
    BY QuotaAssumption, FlightIsBounded DEF QuotaTypeOK, OvershootIsInFlight
  <2>1. /\ Cardinality(InFlight(m)') \in Nat
        /\ Cardinality(InFlight(m)') <= Cardinality(Requesters)
    BY QuotaAssumption, FS_Subset, FS_CardinalityType DEF InFlight
  <2> DEFINE Goal == used'[m] + Cardinality(InFlight(m)')
                       < QuotaCap[m] + Cardinality(Requesters)
  <2>2. ASSUME NEW r \in Requesters, NEW n \in Meters, Passes(r, n)
        PROVE  Goal
    <3>1. used' = used /\ used[n] < QuotaCap[n]
      BY <2>2 DEF Passes, Free
    <3>2. CASE n = m
      BY <3>1, <3>2, <2>0, <2>1
    <3>3. CASE n # m
      BY <3>1, <3>3, <2>0, <2>2, PassingTakesOff
    <3>4. QED
      BY <3>2, <3>3
  <2>3. ASSUME NEW r \in Requesters, NEW k \in Nat, passed[r] \in Meters,
               Settles(r, k), k <= used[passed[r]] + 1
        PROVE  Goal
    <3>1. CASE m = passed[r]
      <4>1. /\ used'[m] = k /\ r \in InFlight(m)
            /\ InFlight(m)' = InFlight(m) \ {r}
        BY <2>3, <3>1, SettlingLands
      <4>2. Cardinality(InFlight(m)') = Cardinality(InFlight(m)) - 1
        BY <4>1, <2>0, FS_RemoveElement
      <4>3. QED
        BY <4>1, <4>2, <2>0, <2>3, <3>1
    <3>2. CASE m # passed[r]
      <4>1. used'[m] = used[m] /\ InFlight(m)' = InFlight(m)
        BY <2>3, <3>2, SettlingLands
      <4>2. QED
        BY <4>1, <2>0
    <3>3. QED
      BY <3>1, <3>2
  <2>4. ASSUME NEW r \in Requesters,
               CountTargets(r) \/ CheckRateLimit(r) \/ WouldExceed(r)
               \/ EnforceSubmissionQuota(r)
        PROVE  Goal
    BY <2>2, <2>4
       DEF CountTargets, CheckRateLimit, WouldExceed, EnforceSubmissionQuota, Meters
  <2>5. ASSUME NEW r \in Requesters,
               InsertTarget(r) \/ RecordSubmission(r) \/ RecordFailedAttempt(r)
               \/ ClearAttempts(r) \/ RecordTokens(r) \/ Abandon(r)
        PROVE  Goal
    <3>1. passed[r] \in Meters
      BY <2>5, WaitingAssumption
         DEF InsertTarget, RecordSubmission, RecordFailedAttempt, ClearAttempts,
             RecordTokens, Abandon, QuotaTypeOK, Meters
    <3>2. used[passed[r]] \in Nat
      BY <3>1 DEF QuotaTypeOK
    <3>3. \E k \in {0, used[passed[r]], used[passed[r]] + 1} : Settles(r, k)
      BY <2>5 DEF InsertTarget, RecordSubmission, RecordFailedAttempt, ClearAttempts,
                  RecordTokens, Abandon
    <3>4. QED
      BY <2>3, <3>1, <3>2, <3>3
  <2>6. ASSUME NEW n \in Meters, OneLess(n)
        PROVE  Goal
    <3>1. used'[m] <= used[m] /\ InFlight(m)' = InFlight(m)
      BY <2>6, <2>0 DEF OneLess, InFlight, QuotaTypeOK
    <3>2. QED
      BY <3>1, <2>0
  <2>7. ASSUME used' = used, passed' = passed
        PROVE  Goal
    BY <2>7, <2>0 DEF InFlight
  <2>8. QED
    BY <2>4, <2>5, <2>6, <2>7
       DEF QuotaNext, DeleteTarget, WindowPasses, RequireConfirmation, quotaVars
<1>3. QED
  BY <1>1, <1>2, QuotaTypeCorrect, PTL DEF QuotaSpec

-----------------------------------------------------------------------------
(* ProgressSockets                                                         *)

\* The type, and who may be in the lists: one that is listed is open or its peer has
\* left, a socket that is sent to was connected, and one that is taken for dead has
\* left.
SocketInv ==
  /\ SocketTypeOK
  /\ connections \subseteq {s \in Sockets : stage[s] \in {"open", "gone"}}
  /\ sending \subseteq {s \in Sockets : stage[s] \in {"open", "gone", "closed"}}
  /\ dead \subseteq {s \in Sockets : stage[s] \in {"gone", "closed"}}

\* Only sockets that were connected are sent to, only those that have left are taken
\* for dead, and none of these is listed as if it were waiting for its handshake.
THEOREM SocketsStayDead == SocketSpec => []SocketInv
<1>1. SocketInit => SocketInv
  BY SocketAssumption DEF SocketInit, SocketInv, SocketTypeOK
<1>2. SocketInv /\ [SocketNext]_socketVars => SocketInv'
  <2> SUFFICES ASSUME SocketInv, [SocketNext]_socketVars PROVE SocketInv'
    OBVIOUS
  <2> USE DEF SocketInv, SocketTypeOK
  <2>0. LastStep \in Nat
    BY SocketAssumption
  <2>1. ASSUME NEW s \in Sockets, Handshake(s) PROVE SocketInv'
    BY <2>1 DEF Handshake
  <2>2. ASSUME NEW s \in Sockets, Connect(s) PROVE SocketInv'
    BY <2>2 DEF Connect
  <2>3. ASSUME NEW s \in Sockets, AcceptFails(s) PROVE SocketInv'
    BY <2>3 DEF AcceptFails
  <2>4. ASSUME NEW s \in Sockets, PeerLeaves(s) PROVE SocketInv'
    BY <2>4 DEF PeerLeaves
  <2>5. ASSUME NEW s \in Sockets, Disconnect(s) PROVE SocketInv'
    BY <2>5 DEF Disconnect
  <2>6. ASSUME NEW s \in Sockets, Send(s) PROVE SocketInv'
    <3>1. shown' \in [Sockets -> 0..LastStep]
      BY <2>6 DEF Send, Heard
    <3>2. casting' \in 0..LastStep
      BY <2>0, <2>6 DEF Send
    <3>3. /\ UNCHANGED <<stage, progress, connections, userSockets>>
          /\ sending' \subseteq sending
          /\ dead' \subseteq dead \cup {t \in {s} : stage[t] # "open"}
          /\ s \in sending
      BY <2>6 DEF Send
    <3>4. QED
      BY <3>1, <3>2, <3>3
  <2>7. CASE PushCommits
    BY <2>0, <2>7 DEF PushCommits
  <2>8. CASE BroadcastBegins
    BY <2>8 DEF BroadcastBegins
  <2>9. CASE BroadcastToNobody
    BY <2>0, <2>9 DEF BroadcastToNobody
  <2>10. CASE DisconnectDead
    BY <2>0, <2>10 DEF DisconnectDead, Dropped
  <2>11. CASE UNCHANGED socketVars
    BY <2>11 DEF socketVars
  <2>12. QED
    BY <2>1, <2>2, <2>3, <2>4, <2>5, <2>6, <2>7, <2>8, <2>9, <2>10, <2>11
       DEF SocketNext
<1>3. QED
  BY <1>1, <1>2, PTL DEF SocketSpec

\* The two lists name the same sockets, the open ones and at most those whose peer
\* has left besides, and a user has more than its limit only by handshakes under
\* way together: the handshakes count from the check on, so that registering one
\* changes nothing of the sum.
THEOREM SocketsCounted == SocketSpec => []SocketsAreCounted
<1> DEFINE Bound == MaxConnectionsPerUser + MaxHandshakes
<1>1. SocketInit => SocketsAreCounted
  <2> SUFFICES ASSUME SocketInit PROVE SocketsAreCounted
    OBVIOUS
  <2>1. connections = {} /\ userSockets = {} /\ InStage("open") = {}
        /\ InStage("accepting") = {}
    BY DEF SocketInit, InStage
  <2>2. Cardinality({}) = 0
    BY FS_EmptySet
  <2>3. MaxConnectionsPerUser \in Nat \ {0} /\ MaxHandshakes \in Nat \ {0}
    BY SocketAssumption
  <2>4. 0 + 0 < Bound
    BY <2>3
  <2>5. QED
    BY <2>1, <2>2, <2>4 DEF SocketsAreCounted
<1>2. SocketInv /\ SocketInv' /\ SocketsAreCounted /\ [SocketNext]_socketVars
        => SocketsAreCounted'
  <2> SUFFICES ASSUME SocketInv, SocketInv', SocketsAreCounted,
                      [SocketNext]_socketVars
               PROVE  SocketsAreCounted'
    OBVIOUS
  <2> USE DEF SocketInv, SocketTypeOK
  <2> DEFINE Listed == Cardinality(connections)
             Waits == Cardinality(InStage("accepting"))
             Lists == /\ connections' = userSockets'
                      /\ InStage("open")' \subseteq connections'
                      /\ connections' \subseteq InStage("open")' \cup InStage("gone")'
  <2>1. /\ IsFiniteSet(connections) /\ IsFiniteSet(InStage("accepting"))
        /\ Listed \in Nat /\ Waits \in Nat
        /\ Listed + Waits < Bound
        /\ MaxConnectionsPerUser \in Nat \ {0} /\ MaxHandshakes \in Nat \ {0}
    BY SocketAssumption, FS_Subset, FS_CardinalityType
       DEF InStage, SocketsAreCounted
  <2>2. /\ connections = userSockets
        /\ InStage("open") \subseteq connections
        /\ connections \subseteq InStage("open") \cup InStage("gone")
    BY DEF SocketsAreCounted
  <2>3. ASSUME Lists, Cardinality(connections') \in Nat,
               Cardinality(InStage("accepting")') \in Nat,
               Cardinality(connections') + Cardinality(InStage("accepting")') < Bound
        PROVE  SocketsAreCounted'
    BY <2>3 DEF SocketsAreCounted
  <2>4. ASSUME NEW s \in Sockets, Handshake(s) PROVE SocketsAreCounted'
    <3>1. /\ connections' = connections /\ userSockets' = userSockets
          /\ Waits < MaxHandshakes /\ Listed < MaxConnectionsPerUser
          /\ InStage("accepting")' = InStage("accepting") \cup {s}
          /\ s \notin InStage("accepting")
          /\ InStage("open")' = InStage("open") /\ InStage("gone")' = InStage("gone")
      BY <2>2, <2>4 DEF Handshake, HasCapacity, InStage
    <3>2. Cardinality(InStage("accepting")') = Waits + 1
      BY <2>1, <3>1, FS_AddElement
    <3>3. QED
      BY <2>1, <2>2, <2>3, <3>1, <3>2
  <2>5. ASSUME NEW s \in Sockets, Connect(s) PROVE SocketsAreCounted'
    <3>1. /\ connections' = connections \cup {s} /\ userSockets' = userSockets \cup {s}
          /\ s \notin connections
          /\ InStage("accepting")' = InStage("accepting") \ {s}
          /\ s \in InStage("accepting")
          /\ InStage("open")' = InStage("open") \cup {s}
          /\ InStage("gone")' = InStage("gone")
      BY <2>2, <2>5 DEF Connect, InStage
    <3>2. Cardinality(InStage("accepting")') = Waits - 1
      BY <2>1, <3>1, FS_RemoveElement
    <3>3. Cardinality(connections') = Listed + 1
      BY <2>1, <3>1, FS_AddElement
    <3>4. Waits - 1 \in Nat
      BY <2>1, <3>1, <3>2, FS_RemoveElement, FS_CardinalityType
    <3>5. QED
      BY <2>1, <2>2, <2>3, <3>1, <3>2, <3>3, <3>4
  <2>6. ASSUME NEW s \in Sockets, AcceptFails(s) PROVE SocketsAreCounted'
    <3>1. /\ connections' = connections /\ userSockets' = userSockets
          /\ InStage("accepting")' \subseteq InStage("accepting")
          /\ InStage("open")' = InStage("open") /\ InStage("gone")' = InStage("gone")
      BY <2>6 DEF AcceptFails, InStage
    <3>2. Cardinality(InStage("accepting")') \in Nat
          /\ Cardinality(InStage("accepting")') <= Waits
      BY <2>1, <3>1, FS_Subset, FS_CardinalityType
    <3>3. QED
      BY <2>1, <2>2, <2>3, <3>1, <3>2
  <2>7. ASSUME NEW s \in Sockets, PeerLeaves(s) PROVE SocketsAreCounted'
    <3>1. /\ connections' = connections /\ userSockets' = userSockets
          /\ InStage("accepting")' = InStage("accepting")
          /\ InStage("open")' = InStage("open") \ {s}
          /\ InStage("gone")' = InStage("gone") \cup {s}
      BY <2>7 DEF PeerLeaves, InStage
    <3>2. QED
      BY <2>1, <2>2, <2>3, <3>1
  <2>8. ASSUME NEW s \in Sockets, Disconnect(s) PROVE SocketsAreCounted'
    <3>1. /\ connections' = connections \ {s} /\ userSockets' = userSockets \ {s}
          /\ InStage("accepting")' = InStage("accepting")
          /\ InStage("open")' = InStage("open") /\ s \notin InStage("open")
          /\ InStage("gone")' = InStage("gone") \ {s}
      BY <2>8 DEF Disconnect, InStage
    <3>2. Cardinality(connections') \in Nat /\ Cardinality(connections') <= Listed
      BY <2>1, <3>1, FS_Subset, FS_CardinalityType
    <3>3. QED
      BY <2>1, <2>2, <2>3, <3>1, <3>2
  <2>9. CASE DisconnectDead
    <3>1. /\ connections' = connections \ dead /\ userSockets' = userSockets \ dead
          /\ stage' = stage
          /\ InStage("accepting")' = InStage("accepting")
          /\ InStage("open")' = InStage("open") /\ InStage("open") \cap dead = {}
          /\ InStage("gone")' = InStage("gone")
      BY <2>9 DEF DisconnectDead, Dropped, InStage
    <3>2. Cardinality(connections') \in Nat /\ Cardinality(connections') <= Listed
      BY <2>1, <3>1, FS_Subset, FS_CardinalityType
    <3>3. QED
      BY <2>1, <2>2, <2>3, <3>1, <3>2
  <2>10. ASSUME stage' = stage, connections' = connections, userSockets' = userSockets
         PROVE  SocketsAreCounted'
    <3>1. /\ InStage("accepting")' = InStage("accepting")
          /\ InStage("open")' = InStage("open") /\ InStage("gone")' = InStage("gone")
      BY <2>10 DEF InStage
    <3>2. QED
      BY <2>1, <2>2, <2>3, <2>10, <3>1
  <2>11. QED
    BY <2>4, <2>5, <2>6, <2>7, <2>8, <2>9, <2>10
       DEF SocketNext, Send, PushCommits, BroadcastBegins, BroadcastToNobody, socketVars
<1>3. QED
  BY <1>1, <1>2, SocketsStayDead, PTL DEF SocketSpec

-----------------------------------------------------------------------------
(* InstanceLicense                                                         *)

\* What a worker keeps or is about to save was signed here, and a copy that nothing
\* has overtaken is the file's license, or free because the file grants nothing.
CopyIsTheFiles(w) ==
  \/ licenseCache[w] = licenseFile /\ licenseFile \in Signed
  \/ /\ licenseCache[w] = FreePlan
     /\ licenseFile \notin Signed \/ LicenseExpired(licenseFile)

LicenseInv ==
  /\ LicenseTypeOK
  /\ \A w \in WebWorkers :
       /\ licenseCache[w] \in Signed \cup {FreePlan, Unset}
       /\ saving[w] \in Signed \cup {FreePlan, Unset}
       /\ fresh[w] => CopyIsTheFiles(w)

\* A license and the words for the states of the file and the copies differ.
LEMMA WordsAreNoKeys ==
  /\ FreePlan \notin LicenseKeys /\ EmptyFile \notin LicenseKeys
  /\ TornLicense \notin LicenseKeys /\ AbsentFile \notin LicenseKeys
  /\ Unset \notin LicenseKeys /\ FreePlan # Unset
  /\ Signed \subseteq LicenseKeys
  BY LicenseAssumption DEF FreePlan, EmptyFile, TornLicense, AbsentFile, Unset

\* load_license gives a signed key that has not expired, or the free plan.
LEMMA LoadedIsSigned ==
  ASSUME NEW f
  PROVE  \/ LoadLicense(f) = f /\ f \in Signed /\ ~LicenseExpired(f)
         \/ /\ LoadLicense(f) = FreePlan
            /\ f \notin Signed \/ LicenseExpired(f)
  BY WordsAreNoKeys DEF LoadLicense, Verifies

\* A license that has expired stays expired.
LEMMA ExpiredForGood ==
  ASSUME NEW lic \in Signed, today \in Nat, today' \in Nat, today <= today',
         LicenseExpired(lic)
  PROVE  LicenseExpired(lic)'
<1>1. ExpiryOf[lic] \in Nat
  BY WordsAreNoKeys, LicenseAssumption
<1>2. QED
  BY <1>1 DEF LicenseExpired

\* The file, the copies and the saves keep this form.
THEOREM LicensesAreSigned == LicenseSpec => []LicenseInv
<1> USE DEF LicenseInv, LicenseTypeOK
<1>1. LicenseInit => LicenseInv
  BY LicenseAssumption DEF LicenseInit
<1>2. LicenseInv /\ [LicenseNext]_licenseVars => LicenseInv'
  <2> SUFFICES ASSUME LicenseInv, [LicenseNext]_licenseVars PROVE LicenseInv'
    OBVIOUS
  <2>0. today \in Nat /\ LastDay \in Nat
    BY LicenseAssumption
  <2>1. ASSUME NEW w \in WebWorkers, GetLicense(w) PROVE LicenseInv'
    <3>1. LoadLicense(licenseFile) \in Signed \cup {FreePlan}
      BY LoadedIsSigned
    <3>2. LicenseTypeOK'
      BY <2>1, <3>1, WordsAreNoKeys DEF GetLicense
    <3>3. CopyIsTheFiles(w)'
      BY <2>1, LoadedIsSigned DEF GetLicense, CopyIsTheFiles, LicenseExpired
    <3>4. ASSUME NEW v \in WebWorkers, v # w
          PROVE  /\ licenseCache'[v] = licenseCache[v] /\ fresh'[v] = fresh[v]
                 /\ CopyIsTheFiles(v)' <=> CopyIsTheFiles(v)
      BY <2>1, <3>4 DEF GetLicense, CopyIsTheFiles, LicenseExpired
    <3>5. saving' = saving /\ licenseCache'[w] \in Signed \cup {FreePlan}
      BY <2>1, <3>1 DEF GetLicense
    <3>6. QED
      BY <3>2, <3>3, <3>4, <3>5
  <2>2. ASSUME NEW w \in WebWorkers, NEW k \in Signed \cup {FreePlan}, BeginSave(w, k)
        PROVE  LicenseInv'
    BY <2>2, WordsAreNoKeys DEF BeginSave
  <2>3. ASSUME NEW w \in WebWorkers, ActivateLicense(w) \/ DeactivateLicense(w)
        PROVE  LicenseInv'
    BY <2>2, <2>3 DEF ActivateLicense, DeactivateLicense, Verifies
  <2>4. ASSUME NEW w \in WebWorkers, EndSave(w) PROVE LicenseInv'
    <3>1. saving[w] \in Signed \cup {FreePlan}
      BY <2>4 DEF EndSave
    <3>2. LicenseTypeOK'
      BY <2>4, <3>1, WordsAreNoKeys DEF EndSave
    <3>3. \A v \in WebWorkers : /\ licenseCache'[v] \in Signed \cup {FreePlan, Unset}
                               /\ saving'[v] \in Signed \cup {FreePlan, Unset}
      BY <2>4, <3>1 DEF EndSave
    <3>4. ASSUME NEW v \in WebWorkers, fresh'[v] PROVE CopyIsTheFiles(v)'
      <4>1. v = w /\ licenseFile' = saving[w] /\ licenseCache'[w] = saving[w]
        BY <2>4, <3>4 DEF EndSave
      <4>2. QED
        BY <4>1, <3>1, WordsAreNoKeys DEF CopyIsTheFiles
    <3>5. QED
      BY <3>2, <3>3, <3>4
  <2>5. ASSUME NEW w \in WebWorkers, SaveFails(w) PROVE LicenseInv'
    BY <2>5 DEF SaveFails, CopyIsTheFiles, LicenseExpired
  <2>6. ASSUME NEW w \in WebWorkers, RestartWorker(w) PROVE LicenseInv'
    <3>1. ASSUME NEW v \in WebWorkers, v # w
          PROVE  /\ licenseCache'[v] = licenseCache[v] /\ fresh'[v] = fresh[v]
                 /\ saving'[v] = saving[v]
                 /\ CopyIsTheFiles(v)' <=> CopyIsTheFiles(v)
      BY <2>6, <3>1 DEF RestartWorker, CopyIsTheFiles, LicenseExpired
    <3>2. licenseCache'[w] = Unset /\ saving'[w] = Unset /\ fresh'[w] = FALSE
      BY <2>6 DEF RestartWorker
    <3>3. LicenseTypeOK'
      BY <2>6 DEF RestartWorker
    <3>4. QED
      BY <3>1, <3>2, <3>3
  <2>7. CASE DayPasses
    <3>1. today' \in 0..LastDay /\ today <= today' /\ today' \in Nat
      BY <2>0, <2>7 DEF DayPasses
    <3>2. ASSUME NEW w \in WebWorkers, CopyIsTheFiles(w) PROVE CopyIsTheFiles(w)'
      BY <2>0, <2>7, <3>1, <3>2, ExpiredForGood DEF DayPasses, CopyIsTheFiles
    <3>3. QED
      BY <2>7, <3>1, <3>2 DEF DayPasses
  <2>8. CASE UNCHANGED licenseVars
    BY <2>8 DEF licenseVars, CopyIsTheFiles, LicenseExpired
  <2>9. QED
    BY <2>1, <2>3, <2>4, <2>5, <2>6, <2>7, <2>8 DEF LicenseNext
<1>3. QED
  BY <1>1, <1>2, PTL DEF LicenseSpec

\* More than the free features are granted only for a signed key that has not
\* expired, and a copy grants what the file would unless the file was touched.
THEOREM LicenseHonest == LicenseSpec => []LicenseIsHonest
<1>1. LicenseInv => LicenseIsHonest
  <2> SUFFICES ASSUME LicenseInv PROVE LicenseIsHonest
    OBVIOUS
  <2>1. today \in Nat
    BY LicenseAssumption DEF LicenseInv, LicenseTypeOK
  <2>2. PaidNeedsALiveKey
    <3> SUFFICES ASSUME NEW w \in WebWorkers,
                        FeaturesOf(CurrentLicense(w)) # TierFeatures["free"]
                 PROVE  /\ CurrentLicense(w) \in Signed
                        /\ today <= ExpiryOf[CurrentLicense(w)]
      BY DEF PaidNeedsALiveKey
    <3>1. CurrentLicense(w) \in Signed \cup {FreePlan}
      BY LoadedIsSigned DEF LicenseInv, CurrentLicense
    <3>2. CurrentLicense(w) # FreePlan /\ ~LicenseExpired(CurrentLicense(w))
      BY DEF FeaturesOf
    <3>3. CurrentLicense(w) \in Signed /\ ExpiryOf[CurrentLicense(w)] \in Nat
      BY <3>1, <3>2, LicenseAssumption
    <3>4. QED
      BY <2>1, <3>2, <3>3 DEF LicenseExpired
  <2>3. FreshCachesAgree
    <3> SUFFICES ASSUME NEW w \in WebWorkers, fresh[w]
                 PROVE  FeaturesOf(licenseCache[w]) = FeaturesOf(LoadLicense(licenseFile))
      BY DEF FreshCachesAgree
    <3>1. CASE licenseCache[w] = licenseFile /\ licenseFile \in Signed
      BY <3>1, LoadedIsSigned DEF FeaturesOf
    <3>2. CASE /\ licenseCache[w] = FreePlan
               /\ licenseFile \notin Signed \/ LicenseExpired(licenseFile)
      BY <3>2, LoadedIsSigned
    <3>3. QED
      BY <3>1, <3>2 DEF LicenseInv, CopyIsTheFiles
  <2>4. QED
    BY <2>2, <2>3 DEF LicenseIsHonest
<1>2. QED
  BY <1>1, LicensesAreSigned, PTL

-----------------------------------------------------------------------------
(* Federation                                                              *)

\* Contents that can be written: a bounded list of tasks that have been drawn, each
\* listed once.
Sound(c, sent) ==
  /\ c \in Contents /\ Len(c.tasks) <= MaxStoredTasks
  /\ \A i \in DOMAIN c.tasks : c.tasks[i].id <= sent
  /\ \A i, j \in DOMAIN c.tasks : c.tasks[i].id = c.tasks[j].id => i = j

\* What the copy of one operation keeps until it is written.
OpKeeps(o) ==
  /\ Sound(fedCopy[o], fedSent)
  /\ fedStage[o] # "idle" /\ o \notin fedStale => KeepsTheRest(o, fedLast, fedCopy[o])
  /\ fedStage[o] = "awaiting" /\ o[1] = "ping" => fedCopy[o].peer[o[2]] # "absent"
  /\ fedStage[o] = "awaiting" /\ o[1] = "dispatch" =>
       StatusIn(fedCopy[o], o[2]) = {"dispatched"}

\* The file is the last contents written, or torn, and every copy that no write has
\* overtaken takes away nothing of them but what its operation is for.
FedInv ==
  /\ fedFile = Torn \/ fedFile = fedLast
  /\ fedStage \in [FedOps -> {"idle", "awaiting", "saving", "writing"}]
  /\ fedCopy \in [FedOps -> Contents]
  /\ fedSent \in Nat
  /\ Sound(fedLast, fedSent)
  /\ \A o \in FedOps : OpKeeps(o)

\* r is s with e at its end, and d of its oldest entries dropped.
TrimmedBy(S, s, e, r, d) ==
  /\ r \in Seq(S) /\ Len(r) <= MaxStoredTasks /\ Len(r) = Len(s) + 1 - d
  /\ \A i \in 1..Len(r) : r[i] = IF i + d <= Len(s) THEN s[i + d] ELSE e
  /\ d = 1 => Len(s) = MaxStoredTasks

\* Trimming after an append drops the oldest entry, and only of a full list.
LEMMA TrimmedList ==
  ASSUME NEW S, NEW s \in Seq(S), NEW e \in S, Len(s) <= MaxStoredTasks
  PROVE  \E d \in {0, 1} : TrimmedBy(S, s, e, TrimTasks(Append(s, e)), d)
<1> USE FedAssumption DEF TrimmedBy
<1> DEFINE a == Append(s, e)
           r == TrimTasks(Append(s, e))
<1>1. a \in Seq(S) /\ Len(a) = Len(s) + 1 /\ Len(s) \in Nat
      /\ \A i \in 1..Len(a) : a[i] = IF i <= Len(s) THEN s[i] ELSE e
  OBVIOUS
<1>2. CASE Len(a) <= MaxStoredTasks
  <2>1. r = a
    BY <1>1, <1>2 DEF TrimTasks
  <2>2. QED
    BY <1>1, <1>2, <2>1
<1>3. CASE Len(a) > MaxStoredTasks
  <2>1. Len(s) = MaxStoredTasks /\ Len(a) - MaxStoredTasks + 1 = 2
    BY <1>1, <1>3
  <2>2. r = SubSeq(a, Len(a) - MaxStoredTasks + 1, Len(a))
    BY <1>3, Zenon DEF TrimTasks
  <2>3. r = SubSeq(a, 2, Len(a))
    BY <2>1, <2>2
  <2>4. 2 \in Int /\ Len(a) \in Int /\ \A i \in 2..Len(a) : a[i] \in S
    BY <1>1
  <2>5. r \in Seq(S) /\ Len(r) = Len(s) /\ \A i \in 1..Len(r) : r[i] = a[i + 1]
    BY <1>1, <2>1, <2>3, <2>4, SubSeqProperties
  <2>6. QED
    BY <1>1, <2>1, <2>5
<1>4. QED
  BY <1>1, <1>2, <1>3

\* In sound contents a task has one status.
LEMMA OneStatus ==
  ASSUME NEW c, NEW sent, Sound(c, sent), NEW i \in DOMAIN c.tasks
  PROVE  StatusIn(c, c.tasks[i].id) = {c.tasks[i].status}
BY DEF Sound, StatusIn

\* Contents keep themselves.
LEMMA KeepsItself ==
  ASSUME NEW c, NEW sent, Sound(c, sent), NEW o \in FedOps,
         o[1] = "dispatch" => TaskIn(c, o[2])
  PROVE  KeepsTheRest(o, c, c)
<1>1. \A t \in Tasks : \A s, u \in StatusIn(c, t) : Ranked(s) <= Ranked(u)
  <2> SUFFICES ASSUME NEW t \in Tasks, NEW s \in StatusIn(c, t), NEW u \in StatusIn(c, t)
               PROVE  Ranked(s) <= Ranked(u)
    OBVIOUS
  <2>1. s = u
    BY DEF StatusIn, Sound
  <2>2. Ranked(s) \in Nat
    BY DEF Ranked
  <2>3. QED
    BY <2>1, <2>2
<1>2. QED
  BY <1>1 DEF KeepsTheRest

\* A change of one task's status leaves the rest of the contents alone.
LEMMA StatusChanged ==
  ASSUME NEW c, NEW sent, Sound(c, sent), NEW t, NEW s \in TaskStates,
         NEW d, d = WithStatus(c, t, s)
  PROVE  /\ Sound(d, sent) /\ d.peer = c.peer
         /\ \A u : TaskIn(d, u) <=> TaskIn(c, u)
         /\ \A u : u # t => StatusIn(d, u) = StatusIn(c, u)
         /\ StatusIn(d, t) \subseteq {s}
<1> DEFINE f == [i \in DOMAIN c.tasks |->
                   IF c.tasks[i].id = t THEN [c.tasks[i] EXCEPT !.status = s] ELSE c.tasks[i]]
<1>1. c \in Contents /\ c.tasks \in Seq(StoredTask) /\ c.peer \in [Peers -> PeerStates]
  BY DEF Sound, Contents
<1>2. DOMAIN c.tasks = 1..Len(c.tasks) /\ Len(c.tasks) \in Nat
      /\ \A i \in DOMAIN c.tasks : c.tasks[i] \in StoredTask
  BY <1>1
<1>3. \A i \in DOMAIN c.tasks :
        /\ f[i] \in StoredTask /\ f[i].id = c.tasks[i].id
        /\ f[i].status = IF c.tasks[i].id = t THEN s ELSE c.tasks[i].status
  BY <1>2 DEF StoredTask
<1>4. f \in Seq(StoredTask) /\ Len(f) = Len(c.tasks) /\ DOMAIN f = DOMAIN c.tasks
  <2>1. f \in [1..Len(c.tasks) -> StoredTask]
    BY <1>2, <1>3
  <2>2. f \in Seq(StoredTask)
    BY <1>2, <2>1, SeqDef
  <2>3. QED
    BY <1>2, <2>1, <2>2
<1>5. d = [c EXCEPT !.tasks = f] /\ d.tasks = f /\ d.peer = c.peer /\ d \in Contents
  BY <1>1, <1>4 DEF WithStatus, Contents
<1> HIDE DEF f
<1>6. Sound(d, sent)
  BY <1>3, <1>4, <1>5 DEF Sound
<1>7. \A u : TaskIn(d, u) <=> TaskIn(c, u)
  BY <1>3, <1>4, <1>5 DEF TaskIn
<1>8. \A u : u # t => StatusIn(d, u) = StatusIn(c, u)
  BY <1>3, <1>4, <1>5 DEF StatusIn
<1>9. StatusIn(d, t) \subseteq {s}
  BY <1>3, <1>4, <1>5 DEF StatusIn
<1>10. QED
  BY <1>5, <1>6, <1>7, <1>8, <1>9

\* The entries of contents have their form, and their ids are numbers.
LEMMA ListedTasks ==
  ASSUME NEW c \in Contents
  PROVE  /\ c.tasks \in Seq(StoredTask)
         /\ DOMAIN c.tasks = 1..Len(c.tasks) /\ Len(c.tasks) \in Nat
         /\ \A i \in 1..Len(c.tasks) : c.tasks[i] \in StoredTask /\ c.tasks[i].id \in Nat
<1>1. c.tasks \in Seq(StoredTask)
  BY DEF Contents
<1>2. /\ DOMAIN c.tasks = 1..Len(c.tasks) /\ Len(c.tasks) \in Nat
      /\ \A i \in 1..Len(c.tasks) : c.tasks[i] \in StoredTask
  BY <1>1
<1>3. \A e \in StoredTask : e.id \in Nat
  BY FedAssumption DEF StoredTask, Tasks
<1>4. QED
  BY <1>1, <1>2, <1>3

\* What was sound remains so when more tasks have been drawn.
LEMMA SoundLater ==
  ASSUME NEW c, NEW sent \in Nat, NEW later \in Nat, sent <= later, Sound(c, sent)
  PROVE  Sound(c, later)
<1>1. \A i \in DOMAIN c.tasks : c.tasks[i].id \in Nat
  BY ListedTasks DEF Sound
<1>2. QED
  BY <1>1 DEF Sound

\* A new task takes away none but the oldest of a full list.
LEMMA AppendedKeeps ==
  ASSUME NEW c, NEW sent \in Nat, Sound(c, sent), NEW t \in Tasks, t = sent + 1,
         NEW to \in SUBSET Peers, NEW d, d = Appended(c, t, to)
  PROVE  Sound(d, t) /\ KeepsTheRest(<<"dispatch", t>>, c, d)
<1> DEFINE e == NewTask(c, t, to)
           r == TrimTasks(Append(c.tasks, e))
<1>1. c.tasks \in Seq(StoredTask) /\ c \in Contents /\ Len(c.tasks) <= MaxStoredTasks
      /\ DOMAIN c.tasks = 1..Len(c.tasks) /\ Len(c.tasks) \in Nat
  BY DEF Sound, Contents
<1>2. e \in StoredTask /\ e.id = t
  BY DEF NewTask, StoredTask, TaskStates
<1>3. d = [c EXCEPT !.tasks = r] /\ d.tasks = r /\ d.peer = c.peer
  BY <1>1 DEF Appended, Contents
<1>4. r = TrimTasks(Append(c.tasks, e)) /\ MaxStoredTasks \in Nat \ {0}
  BY FedAssumption
<1> HIDE DEF e, r
<1>5. \E k \in {0, 1} : TrimmedBy(StoredTask, c.tasks, e, r, k)
  BY <1>1, <1>2, <1>4, TrimmedList, Zenon
<1>6. PICK k \in {0, 1} :
        /\ r \in Seq(StoredTask) /\ Len(r) <= MaxStoredTasks
        /\ Len(r) = Len(c.tasks) + 1 - k
        /\ \A i \in 1..Len(r) : r[i] = IF i + k <= Len(c.tasks) THEN c.tasks[i + k] ELSE e
        /\ k = 1 => Len(c.tasks) = MaxStoredTasks
  BY <1>5 DEF TrimmedBy
<1>7. DOMAIN r = 1..Len(r) /\ Len(r) \in Nat /\ Len(r) > 0
  <2>1. Len(r) \in Nat /\ DOMAIN r = 1..Len(r)
    BY <1>6
  <2>2. CASE k = 0
    BY <1>1, <1>6, <2>1, <2>2
  <2>3. CASE k = 1
    BY <1>1, <1>6, <1>4, <2>1, <2>3
  <2>4. QED
    BY <2>1, <2>2, <2>3
<1>8. \A i \in 1..Len(c.tasks) : c.tasks[i].id \in Nat /\ c.tasks[i].id <= sent
                               /\ c.tasks[i].id # t
  <2>1. \A i \in 1..Len(c.tasks) : c.tasks[i].id \in Nat /\ c.tasks[i].id <= sent
    BY <1>1, ListedTasks DEF Sound
  <2>2. QED
    BY <2>1
<1>9. \A i, j \in 1..Len(c.tasks) : c.tasks[i].id = c.tasks[j].id => i = j
  BY <1>1 DEF Sound
<1>10. d \in Contents
  BY <1>1, <1>3, <1>6 DEF Contents
<1>11. \A i \in 1..Len(r) : r[i].id <= t
  BY <1>1, <1>2, <1>6, <1>8, SMTT(30)
<1>12. \A i, j \in 1..Len(r) : r[i].id = r[j].id => i = j
  <2>1. \A i \in 1..Len(r) :
          \/ i + k \in 1..Len(c.tasks) /\ r[i].id = c.tasks[i + k].id
          \/ i = Len(r) /\ r[i].id = t
    BY <1>1, <1>2, <1>6, <1>7
  <2>2. SUFFICES ASSUME NEW i \in 1..Len(r), NEW j \in 1..Len(r), r[i].id = r[j].id
                 PROVE  i = j
    OBVIOUS
  <2>3. CASE i + k \in 1..Len(c.tasks) /\ r[i].id = c.tasks[i + k].id
    <3>1. r[j].id # t
      BY <1>8, <2>2, <2>3
    <3>2. j + k \in 1..Len(c.tasks) /\ r[j].id = c.tasks[j + k].id
      BY <2>1, <3>1
    <3>3. i + k = j + k
      BY <1>9, <2>2, <2>3, <3>2
    <3>4. QED
      BY <3>3
  <2>4. CASE i = Len(r) /\ r[i].id = t
    <3>1. j = Len(r)
      BY <1>8, <2>1, <2>2, <2>4
    <3>2. QED
      BY <2>4, <3>1
  <2>5. QED
    BY <2>1, <2>3, <2>4
<1>13. Sound(d, t)
  BY <1>3, <1>6, <1>7, <1>10, <1>11, <1>12 DEF Sound
<1>14. TaskIn(d, t)
  BY <1>1, <1>2, <1>3, <1>6, <1>7 DEF TaskIn
<1>15. ASSUME NEW u \in Tasks, TaskIn(c, u)
       PROVE  \/ /\ TaskIn(d, u)
                 /\ \A x \in StatusIn(c, u), y \in StatusIn(d, u) : Ranked(x) <= Ranked(y)
              \/ Len(c.tasks) = MaxStoredTasks /\ c.tasks[1].id = u
  <2>1. PICK i \in 1..Len(c.tasks) : c.tasks[i].id = u
    BY <1>1, <1>15 DEF TaskIn
  <2>2. CASE i - k = 0
    BY <1>1, <1>6, <2>1, <2>2
  <2>3. CASE i - k > 0
    <3>1. i - k \in 1..Len(r) /\ r[i - k] = c.tasks[i]
      BY <1>1, <1>6, <2>1, <2>3, SMTT(30)
    <3>2. TaskIn(d, u)
      BY <1>3, <1>7, <2>1, <3>1 DEF TaskIn
    <3>3. StatusIn(c, u) = {c.tasks[i].status}
      BY <1>1, <2>1, OneStatus
    <3>4. StatusIn(d, u) = {c.tasks[i].status}
      <4>1. i - k \in DOMAIN d.tasks /\ d.tasks[i - k].id = u
            /\ d.tasks[i - k].status = c.tasks[i].status
        BY <1>3, <1>7, <2>1, <3>1
      <4>2. StatusIn(d, d.tasks[i - k].id) = {d.tasks[i - k].status}
        BY <1>13, <4>1, OneStatus
      <4>3. QED
        BY <4>1, <4>2
    <3>5. Ranked(c.tasks[i].status) \in Nat
      BY DEF Ranked
    <3>6. QED
      BY <3>2, <3>3, <3>4, <3>5
  <2>4. QED
    BY <2>1, <2>2, <2>3
<1>16. QED
  BY <1>3, <1>13, <1>14, <1>15 DEF KeepsTheRest

\* The moves of one operation before its write are sound if its copy is.
LEMMA OneOpMoves ==
  ASSUME FedInv, NEW o \in FedOps, NEW g \in {"idle", "awaiting", "saving", "writing"},
         NEW c, Moved(o, g, c), UNCHANGED fedLast, fedFile' = fedFile \/ fedFile' = Torn,
         fedStale' = fedStale \/ fedStale' = fedStale \ {o},
         fedSent' \in Nat, fedSent <= fedSent', Sound(c, fedSent'),
         g # "idle" /\ o \notin fedStale => KeepsTheRest(o, fedLast, c),
         g # "idle" => fedStale' = fedStale,
         g = "awaiting" /\ o[1] = "ping" => c.peer[o[2]] # "absent",
         g = "awaiting" /\ o[1] = "dispatch" => StatusIn(c, o[2]) = {"dispatched"}
  PROVE  FedInv'
<1>1. /\ fedStage' \in [FedOps -> {"idle", "awaiting", "saving", "writing"}]
      /\ fedCopy' \in [FedOps -> Contents]
      /\ fedStage'[o] = g /\ fedCopy'[o] = c
      /\ \A p \in FedOps \ {o} : fedStage'[p] = fedStage[p] /\ fedCopy'[p] = fedCopy[p]
  BY DEF FedInv, Moved, Sound
<1>2. Sound(fedLast, fedSent)'
  BY SoundLater DEF FedInv
<1>3. OpKeeps(o)'
  BY <1>1 DEF OpKeeps
<1>4. ASSUME NEW p \in FedOps \ {o} PROVE OpKeeps(p)'
  <2>1. OpKeeps(p)
    BY DEF FedInv
  <2>2. Sound(fedCopy[p], fedSent')
    BY <2>1, SoundLater DEF FedInv, OpKeeps
  <2>3. fedStage'[p] = fedStage[p] /\ fedCopy'[p] = fedCopy[p]
        /\ (p \in fedStale' <=> p \in fedStale)
    BY <1>1
  <2>4. QED
    BY <2>1, <2>2, <2>3 DEF OpKeeps
<1>5. QED
  BY <1>1, <1>2, <1>3, <1>4 DEF FedInv

\* The state of one peer changes: by its removal, its registration or a ping.
LEMMA PeerChanges ==
  ASSUME NEW last, NEW c, NEW sent, Sound(c, sent), NEW o \in FedOps,
         KeepsTheRest(o, last, c), NEW n \in Peers, NEW s \in PeerStates,
         s = "absent" /\ c.peer[n] # "absent" => o = <<"remove", n>>,
         s # "absent" /\ c.peer[n] = "absent" => o = <<"register", n>>,
         NEW d, d = [c EXCEPT !.peer[n] = s]
  PROVE  Sound(d, sent) /\ KeepsTheRest(o, last, d)
<1>1. c.peer \in [Peers -> PeerStates] /\ c.tasks \in Seq(StoredTask)
  BY DEF Sound, Contents
<1>2. d \in Contents /\ d.tasks = c.tasks
      /\ \A m \in Peers : d.peer[m] = IF m = n THEN s ELSE c.peer[m]
  BY <1>1 DEF Sound, Contents
<1>3. Sound(d, sent)
  BY <1>2 DEF Sound
<1>4. \A t : (TaskIn(d, t) <=> TaskIn(c, t)) /\ StatusIn(d, t) = StatusIn(c, t)
  BY <1>2 DEF TaskIn, StatusIn
<1>5. QED
  BY <1>2, <1>3, <1>4 DEF KeepsTheRest

\* The status of one task moves forward.
LEMMA StatusMoves ==
  ASSUME NEW last, NEW c, NEW sent, Sound(c, sent), NEW o \in FedOps,
         KeepsTheRest(o, last, c), NEW t, NEW s \in TaskStates,
         \A u \in StatusIn(c, t) : Ranked(u) <= Ranked(s),
         NEW d, d = WithStatus(c, t, s)
  PROVE  Sound(d, sent) /\ KeepsTheRest(o, last, d)
<1>1. /\ Sound(d, sent) /\ d.peer = c.peer
      /\ \A u : TaskIn(d, u) <=> TaskIn(c, u)
      /\ \A u : u # t => StatusIn(d, u) = StatusIn(c, u)
      /\ StatusIn(d, t) \subseteq {s}
  BY StatusChanged
<1>2. \A x : Ranked(x) \in Nat
  BY DEF Ranked
<1>3. ASSUME TaskIn(c, t), NEW x, \A u \in StatusIn(c, t) : Ranked(x) <= Ranked(u),
             NEW y \in StatusIn(d, t)
      PROVE  Ranked(x) <= Ranked(y)
  <2>1. PICK u : u \in StatusIn(c, t)
    BY <1>3 DEF TaskIn, StatusIn
  <2>2. Ranked(x) <= Ranked(u) /\ Ranked(u) <= Ranked(s) /\ y = s
    BY <1>1, <1>3, <2>1
  <2>3. QED
    BY <1>2, <2>2
<1>4. ASSUME NEW v \in Tasks, TaskIn(last, v)
      PROVE  \/ /\ TaskIn(d, v)
                /\ \A x \in StatusIn(last, v), y \in StatusIn(d, v) : Ranked(x) <= Ranked(y)
             \/ Len(last.tasks) = MaxStoredTasks /\ last.tasks[1].id = v /\ o[1] = "dispatch"
  <2>1. CASE v # t
    BY <1>1, <1>4, <2>1 DEF KeepsTheRest
  <2>2. CASE v = t
    BY <1>1, <1>3, <1>4, <2>2 DEF KeepsTheRest
  <2>3. QED
    BY <2>1, <2>2
<1>5. QED
  BY <1>1, <1>4 DEF KeepsTheRest

\* What an operation loads is what was written last.
LEMMA LoadsTheLast ==
  ASSUME FedInv, NEW o \in FedOps, Loads(o)
  PROVE  fedFile = fedLast /\ Sound(fedFile, fedSent)
BY DEF FedInv, Loads

\* The contents of a new file are sound.
LEMMA EmptyIsSound ==
  ASSUME NEW sent \in Nat
  PROVE  Sound(Empty, sent) /\ Empty \in Contents
<1>1. Empty.tasks \in Seq(StoredTask) /\ Len(Empty.tasks) = 0 /\ DOMAIN Empty.tasks = {}
  BY DEF Empty
<1>2. Empty \in Contents
  BY <1>1 DEF Empty, Contents, PeerStates
<1>3. QED
  BY <1>1, <1>2, FedAssumption DEF Sound

\* Every operation keeps the invariant of the copies, whatever the others do.
LEMMA FedInvStep == FedInv /\ [FedNext]_fedVars => FedInv'
<1> SUFFICES ASSUME FedInv, [FedNext]_fedVars PROVE FedInv'
  OBVIOUS
<1>0. fedSent \in Nat /\ fedSent <= fedSent
  BY DEF FedInv
<1>1. ASSUME InitializeNode PROVE FedInv'
  <2> DEFINE o == <<"initialize", "self">>
  <2>1. o \in FedOps /\ o[1] = "initialize"
    BY DEF FedOps
  <2>2. Loads(o) /\ Moved(o, "saving", fedFile) /\ UNCHANGED <<fedFile, fedSent, fedStale, fedLast>>
    BY <1>1 DEF InitializeNode
  <2>3. fedFile = fedLast /\ Sound(fedFile, fedSent)
    BY <2>1, <2>2, LoadsTheLast
  <2>4. KeepsTheRest(o, fedLast, fedFile)
    BY <2>1, <2>3, KeepsItself
  <2> HIDE DEF o
  <2>5. QED
    BY <1>0, <2>1, <2>2, <2>3, <2>4, OneOpMoves
<1>2. ASSUME NEW n \in Peers, RegisterPeer(n) PROVE FedInv'
  <2> DEFINE o == <<"register", n>>
             c == [fedFile EXCEPT !.peer[n] = "unknown"]
  <2>1. o \in FedOps /\ o[1] = "register"
    BY DEF FedOps, PeerOps
  <2>2. Loads(o) /\ Moved(o, "saving", c) /\ UNCHANGED <<fedFile, fedSent, fedStale, fedLast>>
    BY <1>2 DEF RegisterPeer
  <2>3. fedFile = fedLast /\ Sound(fedFile, fedSent)
    BY <2>1, <2>2, LoadsTheLast
  <2>4. KeepsTheRest(o, fedLast, fedFile)
    BY <2>1, <2>3, KeepsItself
  <2>5. Sound(c, fedSent) /\ KeepsTheRest(o, fedLast, c)
    BY <2>1, <2>3, <2>4, PeerChanges DEF PeerStates
  <2> HIDE DEF o, c
  <2>6. QED
    BY <1>0, <2>1, <2>2, <2>5, OneOpMoves
<1>3. ASSUME NEW n \in Peers, RemoveNode(n) PROVE FedInv'
  <2> DEFINE o == <<"remove", n>>
             c == [fedFile EXCEPT !.peer[n] = "absent"]
  <2>1. o \in FedOps /\ o[1] = "remove"
    BY DEF FedOps, PeerOps
  <2>2. Loads(o) /\ Moved(o, "saving", c) /\ UNCHANGED <<fedFile, fedSent, fedStale, fedLast>>
    BY <1>3 DEF RemoveNode
  <2>3. fedFile = fedLast /\ Sound(fedFile, fedSent)
    BY <2>1, <2>2, LoadsTheLast
  <2>4. KeepsTheRest(o, fedLast, fedFile)
    BY <2>1, <2>3, KeepsItself
  <2>5. Sound(c, fedSent) /\ KeepsTheRest(o, fedLast, c)
    BY <2>1, <2>3, <2>4, PeerChanges DEF PeerStates
  <2> HIDE DEF o, c
  <2>6. QED
    BY <1>0, <2>1, <2>2, <2>5, OneOpMoves
<1>4. ASSUME NEW n \in Peers, PingNode(n) PROVE FedInv'
  <2> DEFINE o == <<"ping", n>>
  <2>1. o \in FedOps /\ o[1] = "ping" /\ o[2] = n
    BY DEF FedOps, PeerOps
  <2>2. /\ Loads(o) /\ Moved(o, "awaiting", fedFile) /\ fedFile.peer[n] # "absent"
        /\ UNCHANGED <<fedFile, fedSent, fedStale, fedLast>>
    BY <1>4 DEF PingNode
  <2>3. fedFile = fedLast /\ Sound(fedFile, fedSent)
    BY <2>1, <2>2, LoadsTheLast
  <2>4. KeepsTheRest(o, fedLast, fedFile)
    BY <2>1, <2>3, KeepsItself
  <2> HIDE DEF o
  <2>5. QED
    BY <1>0, <2>1, <2>2, <2>3, <2>4, OneOpMoves
<1>5. ASSUME NEW n \in Peers, PingAnswered(n) PROVE FedInv'
  <2> DEFINE o == <<"ping", n>>
  <2>1. o \in FedOps /\ o[1] = "ping" /\ o[2] = n
    BY DEF FedOps, PeerOps
  <2>2. PICK s \in {"online", "down"} : Moved(o, "saving", [fedCopy[o] EXCEPT !.peer[n] = s])
    BY <1>5 DEF PingAnswered
  <2> DEFINE c == [fedCopy[o] EXCEPT !.peer[n] = s]
  <2>3. fedStage[o] = "awaiting" /\ UNCHANGED <<fedFile, fedSent, fedStale, fedLast>>
    BY <1>5 DEF PingAnswered
  <2>4. Sound(fedCopy[o], fedSent) /\ fedCopy[o].peer[n] # "absent"
        /\ (o \notin fedStale => KeepsTheRest(o, fedLast, fedCopy[o]))
    BY <2>1, <2>3 DEF FedInv, OpKeeps
  <2>5. o \notin fedStale => Sound(c, fedSent) /\ KeepsTheRest(o, fedLast, c)
    BY <2>1, <2>4, PeerChanges DEF PeerStates
  <2>6. Sound(c, fedSent)
    BY <2>4 DEF Sound, Contents, PeerStates
  <2> HIDE DEF o, c
  <2>7. QED
    BY <1>0, <2>1, <2>2, <2>3, <2>5, <2>6, OneOpMoves DEF c
<1>6. ASSUME PingAllNodes PROVE FedInv'
  <2>1. /\ \A o \in FedOps : fedStage[o] = "idle"
        /\ UNCHANGED <<fedFile, fedSent, fedStale, fedLast>>
    BY <1>6 DEF PingAllNodes
  <2>2. fedFile # Torn /\ fedFile = fedLast /\ Sound(fedLast, fedSent) /\ fedLast \in Contents
    BY <1>6 DEF PingAllNodes, FedInv, Sound
  <2> DEFINE Pinged(o) == o[1] = "ping" /\ o[2] \in Peers /\ fedLast.peer[o[2]] # "absent"
  <2>3. /\ fedStage' = [o \in FedOps |-> IF Pinged(o) THEN "awaiting" ELSE fedStage[o]]
        /\ fedCopy' = [o \in FedOps |-> IF Pinged(o) THEN fedLast ELSE fedCopy[o]]
    BY <1>6, <2>2 DEF PingAllNodes
  <2>4. ASSUME NEW o \in FedOps, Pinged(o) PROVE OpKeeps(o)'
    <3>1. KeepsTheRest(o, fedLast, fedLast)
      BY <2>2, <2>4, KeepsItself
    <3>2. QED
      BY <2>1, <2>2, <2>3, <2>4, <3>1 DEF OpKeeps
  <2>5. ASSUME NEW o \in FedOps, ~Pinged(o) PROVE OpKeeps(o)'
    BY <2>1, <2>3, <2>5 DEF OpKeeps, FedInv
  <2>6. fedStage' \in [FedOps -> {"idle", "awaiting", "saving", "writing"}]
        /\ fedCopy' \in [FedOps -> Contents]
    BY <2>2, <2>3 DEF FedInv
  <2> HIDE DEF Pinged
  <2>7. QED
    BY <2>1, <2>4, <2>5, <2>6 DEF FedInv
<1>7. ASSUME NEW t \in Tasks, DispatchScan(t) PROVE FedInv'
  <2> DEFINE o == <<"dispatch", t>>
  <2>1. o \in FedOps /\ o[1] = "dispatch" /\ o[2] = t
    BY DEF FedOps, TaskOps
  <2>2. /\ Loads(o) /\ t = fedSent + 1 /\ fedSent' = t
        /\ UNCHANGED <<fedFile, fedStale, fedLast>>
    BY <1>7 DEF DispatchScan
  <2>3. PICK to \in SUBSET Peers : Moved(o, "saving", Appended(fedFile, t, to))
    BY <1>7 DEF DispatchScan, Assigned, Online
  <2> DEFINE c == Appended(fedFile, t, to)
  <2>4. fedFile = fedLast /\ Sound(fedFile, fedSent)
    BY <2>1, <2>2, LoadsTheLast
  <2>5. Sound(c, t) /\ KeepsTheRest(o, fedLast, c)
    BY <1>0, <2>2, <2>3, <2>4, AppendedKeeps
  <2>6. fedSent' \in Nat /\ fedSent <= fedSent' /\ Sound(c, fedSent') /\ Moved(o, "saving", c)
    BY <1>0, <2>2, <2>3, <2>5
  <2> HIDE DEF o, c
  <2>7. QED
    BY <2>1, <2>2, <2>5, <2>6, OneOpMoves
<1>8. ASSUME NEW t \in Tasks, SendToNodes(t) PROVE FedInv'
  <2> DEFINE o == <<"dispatch", t>>
             c == WithStatus(fedCopy[o], t, "running")
  <2>1. o \in FedOps /\ o[1] = "dispatch" /\ o[2] = t
    BY DEF FedOps, TaskOps
  <2>2. /\ fedStage[o] = "awaiting" /\ Moved(o, "saving", c)
        /\ UNCHANGED <<fedFile, fedSent, fedStale, fedLast>>
    BY <1>8 DEF SendToNodes
  <2>3. /\ Sound(fedCopy[o], fedSent) /\ StatusIn(fedCopy[o], t) = {"dispatched"}
        /\ o \notin fedStale => KeepsTheRest(o, fedLast, fedCopy[o])
    BY <2>1, <2>2 DEF FedInv, OpKeeps
  <2>4. \A u \in StatusIn(fedCopy[o], t) : Ranked(u) <= Ranked("running")
    BY <2>3 DEF Ranked
  <2>5. o \notin fedStale => KeepsTheRest(o, fedLast, c)
    BY <2>1, <2>3, <2>4, StatusMoves DEF TaskStates
  <2>6. Sound(c, fedSent)
    BY <2>3, StatusChanged DEF TaskStates
  <2> HIDE DEF o, c
  <2>7. QED
    BY <1>0, <2>1, <2>2, <2>5, <2>6, OneOpMoves
<1>9. ASSUME NEW t \in Tasks, CollectResults(t) PROVE FedInv'
  <2> DEFINE o == <<"collect", t>>
  <2>1. o \in FedOps /\ o[1] = "collect"
    BY DEF FedOps, TaskOps
  <2>2. Loads(o) /\ Moved(o, "awaiting", fedFile) /\ UNCHANGED <<fedFile, fedSent, fedStale, fedLast>>
    BY <1>9 DEF CollectResults
  <2>3. fedFile = fedLast /\ Sound(fedFile, fedSent)
    BY <2>1, <2>2, LoadsTheLast
  <2>4. KeepsTheRest(o, fedLast, fedFile)
    BY <2>1, <2>3, KeepsItself
  <2> HIDE DEF o
  <2>5. QED
    BY <1>0, <2>1, <2>2, <2>3, <2>4, OneOpMoves
<1>10. ASSUME NEW t \in Tasks, ResultsArrive(t) PROVE FedInv'
  <2> DEFINE o == <<"collect", t>>
  <2>1. o \in FedOps /\ o[1] = "collect"
    BY DEF FedOps, TaskOps
  <2>2. fedStage[o] = "awaiting" /\ UNCHANGED <<fedFile, fedSent, fedStale, fedLast>>
    BY <1>10 DEF ResultsArrive
  <2>3. PICK s \in {"completed_stub", "completed"} :
          Moved(o, "saving", WithStatus(fedCopy[o], t, s))
    BY <1>10 DEF ResultsArrive
  <2> DEFINE c == WithStatus(fedCopy[o], t, s)
  <2>4. /\ Sound(fedCopy[o], fedSent)
        /\ o \notin fedStale => KeepsTheRest(o, fedLast, fedCopy[o])
    BY <2>1, <2>2 DEF FedInv, OpKeeps
  <2>5. \A u \in StatusIn(fedCopy[o], t) : Ranked(u) <= Ranked(s)
    BY DEF Ranked
  <2>6. o \notin fedStale => KeepsTheRest(o, fedLast, c)
    BY <2>1, <2>4, <2>5, StatusMoves DEF TaskStates
  <2>7. Sound(c, fedSent)
    BY <2>4, StatusChanged DEF TaskStates
  <2>8. Moved(o, "saving", c)
    BY <2>3
  <2> HIDE DEF o, c
  <2>9. QED
    BY <1>0, <2>1, <2>2, <2>6, <2>7, <2>8, OneOpMoves
<1>11. ASSUME NEW o \in FedOps, TruncateFile(o) PROVE FedInv'
  <2>1. /\ fedStage[o] = "saving" /\ fedFile' = Torn
        /\ UNCHANGED <<fedCopy, fedSent, fedStale, fedLast>>
    BY <1>11 DEF TruncateFile
  <2>2. Moved(o, "writing", fedCopy[o])
    BY <1>11, <2>1 DEF TruncateFile, Moved, FedInv
  <2>3. /\ Sound(fedCopy[o], fedSent)
        /\ o \notin fedStale => KeepsTheRest(o, fedLast, fedCopy[o])
    BY <2>1 DEF FedInv, OpKeeps
  <2>4. QED
    BY <1>0, <2>1, <2>2, <2>3, OneOpMoves
<1>12. ASSUME NEW o \in FedOps, WriteFile(o) PROVE FedInv'
  <2> DEFINE sends == o[1] = "dispatch" /\ StatusIn(fedCopy[o], o[2]) = {"dispatched"}
             c == IF sends THEN fedCopy[o] ELSE Empty
  <2>1. /\ fedFile' = fedCopy[o] /\ fedLast' = fedCopy[o] /\ fedSent' = fedSent
        /\ fedStale' = {p \in FedOps \ {o} : fedStage[p] # "idle"}
        /\ Moved(o, IF sends THEN "awaiting" ELSE "idle", c)
    BY <1>12 DEF WriteFile
  <2>2. Sound(fedCopy[o], fedSent) /\ Sound(c, fedSent) /\ c \in Contents
    BY <1>0, EmptyIsSound DEF FedInv, OpKeeps, Sound
  <2>3. /\ fedStage' \in [FedOps -> {"idle", "awaiting", "saving", "writing"}]
        /\ fedCopy' \in [FedOps -> Contents]
        /\ fedStage'[o] = (IF sends THEN "awaiting" ELSE "idle") /\ fedCopy'[o] = c
        /\ \A p \in FedOps \ {o} : fedStage'[p] = fedStage[p] /\ fedCopy'[p] = fedCopy[p]
    BY <2>1, <2>2 DEF FedInv, Moved
  <2>4. sends => KeepsTheRest(o, fedCopy[o], fedCopy[o])
    <3>1. sends => TaskIn(fedCopy[o], o[2])
      BY DEF StatusIn, TaskIn
    <3>2. QED
      BY <2>2, <3>1, KeepsItself
  <2>5. sends => o[1] = "dispatch" /\ StatusIn(fedCopy[o], o[2]) = {"dispatched"}
                 /\ c = fedCopy[o]
    OBVIOUS
  <2>6. OpKeeps(o)'
    <3> HIDE DEF sends, c
    <3>1. CASE sends
      BY <2>1, <2>2, <2>3, <2>4, <2>5, <3>1 DEF OpKeeps
    <3>2. CASE ~sends
      BY <2>1, <2>2, <2>3, <3>2 DEF OpKeeps
    <3>3. QED
      BY <3>1, <3>2
  <2>7. ASSUME NEW p \in FedOps \ {o} PROVE OpKeeps(p)'
    <3>1. OpKeeps(p)
      BY DEF FedInv
    <3>2. fedStage'[p] = fedStage[p] /\ fedCopy'[p] = fedCopy[p]
          /\ (fedStage[p] # "idle" => p \in fedStale')
      BY <2>1, <2>3
    <3>3. QED
      BY <2>1, <3>1, <3>2 DEF OpKeeps
  <2> HIDE DEF sends, c
  <2>8. QED
    BY <1>0, <2>1, <2>2, <2>3, <2>6, <2>7 DEF FedInv
<1>13. ASSUME NEW o \in FedOps, FedCrash(o) PROVE FedInv'
  <2>1. /\ Moved(o, "idle", Empty) /\ fedStale' = fedStale \ {o}
        /\ UNCHANGED <<fedFile, fedSent, fedLast>>
    BY <1>13 DEF FedCrash
  <2>2. Sound(Empty, fedSent)
    BY <1>0, EmptyIsSound
  <2>3. QED
    BY <1>0, <2>1, <2>2, OneOpMoves
<1>14. CASE UNCHANGED fedVars
  BY <1>14 DEF fedVars, FedInv, OpKeeps
<1>15. QED
  BY <1>1, <1>2, <1>3, <1>4, <1>5, <1>6, <1>7, <1>8, <1>9, <1>10, <1>11, <1>12, <1>13,
     <1>14 DEF FedNext

\* The file, and the copies of the operations under way, stay sound.
THEOREM CopiesStaySound == FedSpec => []FedInv
<1>1. FedInit => FedInv
  <2> SUFFICES ASSUME FedInit PROVE FedInv
    OBVIOUS
  <2>1. Sound(Empty, 0) /\ Empty \in Contents
    BY EmptyIsSound
  <2>2. QED
    BY <2>1 DEF FedInit, FedInv, OpKeeps
<1>2. QED
  BY <1>1, FedInvStep, PTL DEF FedSpec

\* A save whose copy no other write has overtaken takes away, brings back and forgets
\* nothing but what its operation is for.
THEOREM SavesKeepTheRest == FedSpec => OnlyStaleSavesForget
<1>1. FedInv /\ [FedNext]_fedVars =>
        [\A o \in FedOps : WriteFile(o) /\ o \notin fedStale =>
                           KeepsTheRest(o, fedLast, fedLast')]_fedVars
  <2> SUFFICES ASSUME FedInv, NEW o \in FedOps, WriteFile(o), o \notin fedStale
               PROVE  KeepsTheRest(o, fedLast, fedLast')
    OBVIOUS
  <2>1. fedStage[o] = "writing" /\ fedLast' = fedCopy[o]
    BY DEF WriteFile
  <2>2. KeepsTheRest(o, fedLast, fedCopy[o])
    BY <2>1 DEF FedInv, OpKeeps
  <2>3. QED
    BY <2>1, <2>2
<1>2. QED
  BY <1>1, CopiesStaySound, PTL DEF FedSpec, OnlyStaleSavesForget

-----------------------------------------------------------------------------
(* IocStore                                                                *)

\* An open batch has written or has still to write all it was given, what it has
\* written is new or was there, and what it believes to be there is; a batch that is
\* done has a row for everything it was given, and every row has its batch.
IocInv ==
  /\ IocTypeOK
  /\ \A b \in Batches :
        /\ iocNew[b] \subseteq iocWrote[b]
        /\ iocStage[b] = "storing" =>
              iocItems[b] \cap Iocs \subseteq iocLeft[b] \cup iocWrote[b]
        /\ iocStage[b] = "done" => \A i \in iocItems[b] \cap Iocs : iocRow[i] # NoRow
        /\ iocFound[b] => \A i \in iocLooked[b] : iocRow[i] # NoRow \/ i \in iocNew[b]
        /\ \A i \in iocWrote[b] : iocRow[i] # NoRow \/ i \in iocNew[b]
  /\ \A i \in Iocs : iocRow[i] # NoRow =>
        iocMaker[i] \in Batches /\ iocStage[iocMaker[i]] = "done"

LEMMA IocInvStep == IocInv /\ [IocNext]_iocVars => IocInv'
<1> SUFFICES ASSUME IocInv, [IocNext]_iocVars PROVE IocInv'
  OBVIOUS
<1> USE DEF IocInv, IocTypeOK
<1>1. ASSUME NEW f \in Feeds, LapseSyncLock(f) PROVE IocInv'
  BY <1>1 DEF LapseSyncLock
<1>2. ASSUME NEW b \in Batches, BeginSync(b) PROVE IocInv'
  BY <1>2 DEF BeginSync
<1>3. ASSUME NEW b \in Batches, AcquireSyncLock(b) PROVE IocInv'
  BY <1>3 DEF AcquireSyncLock, FeedOf, Feeds
<1>4. ASSUME NEW b \in Batches, NEW items \in SUBSET (Iocs \cup OtherTypes),
             Fetched(b, items)
      PROVE  IocInv'
  BY <1>4 DEF Fetched
<1>5. ASSUME NEW b \in Batches, ReleaseSyncLock(b) PROVE IocInv'
  BY <1>5 DEF ReleaseSyncLock, FeedOf, Feeds
<1>6. ASSUME NEW b \in Batches, BeginMining(b) PROVE IocInv'
  BY <1>6 DEF BeginMining, ExtractIocs
<1>7. ASSUME NEW b \in Batches, GetByValue(b) PROVE IocInv'
  <2>1. PICK i \in iocLeft[b] :
              /\ iocLooked' = [iocLooked EXCEPT ![b] = {i}]
              /\ iocFound' = [iocFound EXCEPT ![b] = iocRow[i] # NoRow \/ i \in iocNew[b]]
    BY <1>7 DEF GetByValue
  <2>2. UNCHANGED <<iocRow, iocLock, iocMaker, iocStage, iocItems, iocLeft, iocWrote, iocNew>>
    BY <1>7 DEF GetByValue
  <2>3. i \in Iocs /\ (iocRow[i] # NoRow \/ i \in iocNew[b]) \in BOOLEAN
    OBVIOUS
  <2>4. IocTypeOK'
    BY <2>1, <2>2, <2>3
  <2>5. ASSUME NEW c \in Batches, iocFound'[c], NEW j \in iocLooked'[c]
        PROVE  iocRow[j] # NoRow \/ j \in iocNew[c]
    <3>1. CASE c = b
      BY <2>1, <2>3, <2>5, <3>1
    <3>2. CASE c # b
      BY <2>1, <2>5, <3>2
    <3>3. QED
      BY <3>1, <3>2
  <2>6. QED
    BY <2>2, <2>4, <2>5
<1>8. ASSUME NEW b \in Batches, NEW i \in Iocs, UpdateLastSeen(b, i) PROVE IocInv'
  BY <1>8 DEF UpdateLastSeen, Written
<1>9. ASSUME NEW b \in Batches, NEW i \in Iocs, CreateIoc(b, i) PROVE IocInv'
  BY <1>9 DEF CreateIoc, Written
<1>10. ASSUME NEW b \in Batches, FlushError(b) PROVE IocInv'
  BY <1>10 DEF FlushError, RolledBack
<1>11. ASSUME NEW b \in Batches, CommitRaises(b) PROVE IocInv'
  BY <1>11 DEF CommitRaises
<1>12. ASSUME NEW b \in Batches, CommitBatch(b) PROVE IocInv'
  <2>1. SourceOf(b) \in Feeds \cup {"scan_finding"} /\ SourceOf(b) # NoRow
    BY IocAssumption DEF SourceOf, FeedOf, Feeds
  <2>2. \A i \in Iocs : iocRow'[i] = IF i \in iocWrote[b] THEN SourceOf(b) ELSE iocRow[i]
    BY <1>12 DEF CommitBatch
  <2>3. \A i \in Iocs : iocRow[i] # NoRow => iocRow'[i] # NoRow
    BY <2>1, <2>2
  <2>4. IocTypeOK'
    BY <1>12, <2>1 DEF CommitBatch
  <2>5. ASSUME NEW c \in Batches
        PROVE  /\ iocNew'[c] \subseteq iocWrote'[c]
               /\ iocStage'[c] = "storing" =>
                     iocItems'[c] \cap Iocs \subseteq iocLeft'[c] \cup iocWrote'[c]
               /\ iocStage'[c] = "done" => \A i \in iocItems'[c] \cap Iocs : iocRow'[i] # NoRow
               /\ iocFound'[c] => \A i \in iocLooked'[c] : iocRow'[i] # NoRow \/ i \in iocNew'[c]
               /\ \A i \in iocWrote'[c] : iocRow'[i] # NoRow \/ i \in iocNew'[c]
    <3>1. CASE c = b
      BY <1>12, <2>1, <2>2, <3>1 DEF CommitBatch
    <3>2. CASE c # b
      BY <1>12, <2>3, <3>2 DEF CommitBatch
    <3>3. QED
      BY <3>1, <3>2
  <2>6. ASSUME NEW i \in Iocs, iocRow'[i] # NoRow
        PROVE  iocMaker'[i] \in Batches /\ iocStage'[iocMaker'[i]] = "done"
    <3>1. CASE i \in iocNew[b]
      BY <1>12, <3>1 DEF CommitBatch
    <3>2. CASE i \notin iocNew[b]
      <4>1. iocRow[i] # NoRow
        BY <2>2, <2>6, <3>2
      <4>2. QED
        BY <1>12, <3>2, <4>1 DEF CommitBatch
    <3>3. QED
      BY <3>1, <3>2
  <2>7. QED
    BY <2>4, <2>5, <2>6
<1>13. ASSUME NEW b \in Batches, CrashBatch(b) PROVE IocInv'
  BY <1>13 DEF CrashBatch, RolledBack
<1>14. CASE UNCHANGED iocVars
  BY <1>14 DEF iocVars
<1>15. QED
  BY <1>1, <1>2, <1>3, <1>4, <1>5, <1>6, <1>7, <1>8, <1>9, <1>10, <1>11, <1>12,
     <1>13, <1>14 DEF IocNext, FetchOtx, FetchUrlhaus

\* Every batch is stored whole or not at all: the lookups, writes, commits, errors and
\* deaths of modules/ioc/ioc_engine.py keep IocInv, for any indicators and batches.
THEOREM BatchesStoredWhole == IocSpec => [](IocTypeOK /\ BatchesAreWhole)
<1>1. IocInit => IocInv
  BY IocAssumption DEF IocInit, IocInv, IocTypeOK, Feeds
<1>2. IocInv => IocTypeOK /\ BatchesAreWhole
  BY DEF IocInv, IocTypeOK, BatchesAreWhole, MatchScanResults
<1>3. QED
  BY <1>1, <1>2, IocInvStep, PTL DEF IocSpec

-----------------------------------------------------------------------------
(* EternalArchive                                                          *)

ArtifactOrNone == Artifacts \cup {""}
JobRecords ==
  [stage : {"idle", "put", "summarise", "delete"}, picked : SUBSET Artifacts,
   put : SUBSET Artifacts, last : ArtifactOrNone]
ReadRecords ==
  [stage : {"idle", "rows", "answered"}, of : ArtifactOrNone, known : BOOLEAN,
   row : BOOLEAN, copy : BOOLEAN, failed : BOOLEAN]

\* What the job has put is in the object store, and it deletes only when that is all
\* it read; a reader that knows an artifact and has no row of it finds its object.
ArchiveInv ==
  /\ ArchiveTypeOK
  /\ job \in JobRecords
  /\ timeline \in [Readers -> ReadRecords]
  /\ job.put \subseteq objects
  /\ job.stage = "summarise" => job.last \in objects
  /\ job.stage = "delete" => job.put = job.picked
  /\ NothingIsLost
  /\ \A r \in Readers :
        (timeline[r].stage = "rows" /\ timeline[r].known /\ ~timeline[r].row)
          => timeline[r].of \in objects
  /\ TimelineIsComplete

LEMMA MembershipIsBoolean == ASSUME NEW x, NEW S PROVE (x \in S) \in BOOLEAN
  OBVIOUS

LEMMA ArchiveInvStep == ArchiveInv /\ [ArchiveNext]_archiveVars => ArchiveInv'
<1> SUFFICES ASSUME ArchiveInv, [ArchiveNext]_archiveVars PROVE ArchiveInv'
  OBVIOUS
<1> USE DEF ArchiveInv, ArchiveTypeOK, NothingIsLost, TimelineIsComplete
<1>0. /\ UNCHANGED origin => Saved' = Saved
      /\ NoJob \in JobRecords /\ NoRead \in ReadRecords
      /\ Artifacts \subseteq ArtifactOrNone
  BY DEF Saved, ArtifactOrNone, JobRecords, ReadRecords, NoJob, NoRead
<1>1. ASSUME NEW a \in Artifacts, SaveActive(a) PROVE ArchiveInv'
  <2>1. PICK first, second \in {200, 404, 429, 500} :
          origin' = [b \in Saved \cup {a} |->
                       IF b = a THEN SourceType(first, second) ELSE origin[b]]
    BY <1>1 DEF SaveActive
  <2>2. Saved' = Saved \cup {a}
    BY <2>1 DEF Saved
  <2>3. \A b \in Saved' : origin'[b] \in {"HIBP", "mock_fallback"}
    <3>1. SourceType(first, second) \in {"HIBP", "mock_fallback"}
      BY DEF SourceType
    <3>2. QED
      BY <2>1, <2>2, <3>1
  <2>4. Saved' \subseteq Artifacts
    BY <2>2
  <2>5. UNCHANGED <<aged, audit, objects, summaries, job, timeline>> /\ hot' = hot \cup {a}
    BY <1>1 DEF SaveActive
  <2>6. ArchiveTypeOK'
    BY <2>2, <2>3, <2>4, <2>5
  <2>7. NothingIsLost'
    BY <2>2, <2>5
  <2>8. QED
    BY <2>5, <2>6, <2>7
<1>2. ASSUME NEW a \in Artifacts, LogAction(a) PROVE ArchiveInv'
  BY <1>0, <1>2 DEF LogAction
<1>3. ASSUME NEW a \in Artifacts, GrowOld(a) PROVE ArchiveInv'
  BY <1>0, <1>3 DEF GrowOld
<1>4. CASE ReadOldRows
  BY <1>0, <1>4 DEF ReadOldRows, JobRecords, ArtifactOrNone
<1>5. CASE PutArchive
  <2>1. PICK a \in job.picked \ job.put :
          /\ objects' = objects \cup {a}
          /\ job' = [job EXCEPT !.stage = "summarise", !.put = @ \cup {a}, !.last = a]
    BY <1>5 DEF PutArchive
  <2>2. UNCHANGED <<hot, aged, origin, audit, summaries, timeline>> /\ Saved' = Saved
    BY <1>0, <1>5 DEF PutArchive
  <2>3. /\ job'.stage = "summarise" /\ job'.picked = job.picked
        /\ job'.put = job.put \cup {a} /\ job'.last = a
    BY <2>1 DEF JobRecords
  <2>4. a \in Artifacts /\ a \in Saved
    OBVIOUS
  <2>5. job' \in JobRecords
    BY <1>0, <2>1, <2>4 DEF JobRecords
  <2>6. ArchiveTypeOK'
    BY <2>1, <2>2, <2>3, <2>4
  <2>7. QED
    BY <2>1, <2>2, <2>3, <2>5, <2>6
<1>6. CASE PutSummary
  BY <1>0, <1>6 DEF PutSummary, JobRecords
<1>7. CASE DeleteArchived
  BY <1>0, <1>7 DEF DeleteArchived, NoJob
<1>8. CASE ArchiveStops
  BY <1>0, <1>8 DEF ArchiveStops, NoJob
<1>9. ASSUME NEW r \in Readers, NEW a \in Artifacts, QueryRows(r, a) PROVE ArchiveInv'
  <2>1. UNCHANGED <<hot, aged, origin, audit, objects, summaries, job>> /\ Saved' = Saved
    BY <1>0, <1>9 DEF QueryRows
  <2> DEFINE there == a \in Saved
             found == a \in hot
             read == [stage |-> "rows", of |-> a, known |-> there, row |-> found,
                      copy |-> FALSE, failed |-> FALSE]
  <2>2. timeline' = [timeline EXCEPT ![r] = read]
    BY <1>9 DEF QueryRows
  <2>3. \A q \in Readers \ {r} : timeline'[q] = timeline[q]
    BY <2>2
  <2>4. (there => a \in Saved) /\ (~found => a \notin hot)
    OBVIOUS
  <2>5. there \in BOOLEAN /\ found \in BOOLEAN
    BY MembershipIsBoolean
  <2> HIDE DEF there, found
  <2>6. timeline' \in [Readers -> ReadRecords]
    <3>1. read \in ReadRecords
      BY <1>0, <2>5 DEF ReadRecords
    <3> HIDE DEF read
    <3>2. QED
      BY <2>2, <3>1
  <2>7. /\ timeline'[r].stage = "rows" /\ timeline'[r].of = a
        /\ timeline'[r].known = there /\ timeline'[r].row = found
    BY <2>2
  <2>8. ArchiveTypeOK' /\ NothingIsLost'
    BY <2>1, <2>6 DEF ReadRecords
  <2>9. TimelineIsComplete'
    BY <2>3, <2>7
  <2>10. ASSUME NEW q \in Readers, timeline'[q].stage = "rows", timeline'[q].known,
               ~timeline'[q].row
        PROVE  timeline'[q].of \in objects
    BY <2>3, <2>7, <2>10, <2>4
  <2>11. QED
    BY <2>1, <2>6, <2>8, <2>9, <2>10
<1>10. ASSUME NEW r \in Readers, QueryObject(r) PROVE ArchiveInv'
  <2>1. PICK failed \in BOOLEAN :
          timeline' = [timeline EXCEPT ![r].stage = "answered",
            ![r].copy = ~failed /\ timeline[r].of \in objects, ![r].failed = failed]
    BY <1>10 DEF QueryObject
  <2>2. UNCHANGED <<hot, aged, origin, audit, objects, summaries, job>> /\ Saved' = Saved
    BY <1>0, <1>10 DEF QueryObject
  <2> DEFINE got == ~failed /\ timeline[r].of \in objects
  <2>3. got \in BOOLEAN
    BY ZenonT(20)
  <2>4. timeline' = [timeline EXCEPT ![r].stage = "answered", ![r].copy = got,
                                      ![r].failed = failed]
    BY <2>1
  <2> HIDE DEF got
  <2>5. timeline' \in [Readers -> ReadRecords]
    <3>1. [timeline[r] EXCEPT !.stage = "answered", !.copy = got, !.failed = failed]
            \in ReadRecords
      BY <2>3 DEF ReadRecords
    <3>2. timeline' = [timeline EXCEPT ![r] = [timeline[r] EXCEPT !.stage = "answered",
                                                 !.copy = got, !.failed = failed]]
      BY <2>4
    <3>3. QED
      BY <3>1, <3>2
  <2>6. /\ timeline'[r].stage = "answered" /\ timeline'[r].of = timeline[r].of
        /\ timeline'[r].known = timeline[r].known /\ timeline'[r].row = timeline[r].row
        /\ timeline'[r].copy = got /\ timeline'[r].failed = failed
    BY <2>4 DEF ReadRecords
  <2>7. \A q \in Readers \ {r} : timeline'[q] = timeline[q]
    BY <2>1
  <2>8. ArchiveTypeOK' /\ NothingIsLost'
    BY <2>2, <2>5 DEF ReadRecords
  <2>9. timeline[r].stage = "rows"
    BY <1>10 DEF QueryObject
  <2>10. TimelineIsComplete'
    BY <2>6, <2>7, <2>9 DEF got
  <2>11. QED
    BY <2>2, <2>5, <2>6, <2>7, <2>8, <2>10
<1>11. ASSUME NEW r \in Readers, AnswerSent(r) PROVE ArchiveInv'
  BY <1>0, <1>11 DEF AnswerSent, NoRead
<1>12. CASE UNCHANGED archiveVars
  BY <1>0, <1>12 DEF archiveVars
<1>13. QED
  BY <1>1, <1>2, <1>3, <1>4, <1>5, <1>6, <1>7, <1>8, <1>9, <1>10, <1>11, <1>12
     DEF ArchiveNext

\* Whatever step the weekly job dies in, an archived event is in the database or in
\* the object store, and a timeline read across the move shows it at least once.
THEOREM ArchiveKeepsEverything == ArchiveSpec => [](ArchiveTypeOK /\ ArchiveKeepsAll)
<1>1. ArchiveInit => ArchiveInv
  <2> SUFFICES ASSUME ArchiveInit PROVE ArchiveInv
    OBVIOUS
  <2>1. Saved = {}
    BY DEF ArchiveInit, Saved
  <2>2. timeline = [r \in Readers |-> NoRead] /\ job = NoJob
    BY DEF ArchiveInit
  <2>3. job \in JobRecords
    BY <2>2 DEF NoJob, JobRecords, ArtifactOrNone
  <2>4. timeline \in [Readers -> ReadRecords]
    BY <2>2 DEF NoRead, ReadRecords, ArtifactOrNone
  <2>5. job.stage = "idle" /\ job.put = {} /\ job.picked = {}
    BY <2>2 DEF NoJob
  <2>6. \A r \in Readers : timeline[r].stage = "idle"
    BY <2>2 DEF NoRead
  <2>7. QED
    BY <2>1, <2>3, <2>4, <2>5, <2>6
       DEF ArchiveInit, ArchiveInv, ArchiveTypeOK, NothingIsLost, TimelineIsComplete
<1>2. ArchiveInv => ArchiveTypeOK /\ ArchiveKeepsAll
  BY DEF ArchiveInv, ArchiveKeepsAll
<1>3. QED
  BY <1>1, <1>2, ArchiveInvStep, PTL DEF ArchiveSpec

-----------------------------------------------------------------------------
(* DarkWatch                                                               *)

\* The checks that will store a leak of a monitor: they have read the fingerprints
\* without finding it there.
Unaware(m, f) ==
  {c \in Checks : chkStage[c] = "compared" /\ m \in chkOf[c] /\ f \notin known[c]}

\* What is stored, and what those checks may add to it, is within the bound.
DarkInv ==
  /\ DarkTypeOK
  /\ \A c \in Checks, f \in Leaks : events[c][f] <= Copies(f)
  /\ \A c \in Checks : \A m, n \in chkOf[c] : m = n
  /\ \A m \in Monitors, f \in Leaks :
        /\ watch[m] # "present" => alerts[m][f] = 0
        /\ alerts[m][f] + Copies(f) * Cardinality(Unaware(m, f))
             <= Copies(f) * Cardinality(Checks)

LEMMA SomeChecks ==
  /\ Cardinality(Checks) \in Nat
  /\ \A S \in SUBSET Checks : IsFiniteSet(S) /\ Cardinality(S) \in Nat
                              /\ Cardinality(S) <= Cardinality(Checks)
  /\ \A S, T \in SUBSET Checks : S \subseteq T => Cardinality(S) <= Cardinality(T)
<1>1. IsFiniteSet(Checks)
  BY DarkAssumption DEF Checks
<1>2. QED
  BY <1>1, FS_Subset, FS_CardinalityType

\* The bound is kept where nothing is stored and no check becomes unaware.
LEMMA BoundStays ==
  ASSUME DarkInv, NEW m \in Monitors, NEW f \in Leaks, alerts'[m][f] = alerts[m][f],
         Unaware(m, f)' \subseteq Unaware(m, f)
  PROVE  alerts'[m][f] + Copies(f) * Cardinality(Unaware(m, f)')
           <= Copies(f) * Cardinality(Checks)
<1> DEFINE x == Cardinality(Unaware(m, f))
           y == Cardinality(Unaware(m, f)')
           n == Cardinality(Checks)
<1>1. x \in Nat /\ y \in Nat /\ n \in Nat /\ y <= x
  <2>1. Unaware(m, f) \in SUBSET Checks /\ Unaware(m, f)' \in SUBSET Checks
    BY DEF Unaware
  <2>2. QED
    BY <2>1, SomeChecks
<1>2. alerts[m][f] \in Nat /\ alerts[m][f] + Copies(f) * x <= Copies(f) * n
  BY DEF DarkInv, DarkTypeOK
<1>3. Copies(f) \in {1, 2}
  BY DEF Copies
<1> HIDE DEF x, y, n
<1>4. alerts[m][f] + Copies(f) * y <= Copies(f) * n
  BY <1>1, <1>2, <1>3
<1>5. QED
  BY <1>4 DEF y, n

LEMMA ScaledOrder ==
  ASSUME NEW k \in {1, 2}, NEW x \in Nat, NEW n \in Nat
  PROVE  /\ x <= n => k * x <= k * n
         /\ k * x \in Nat
         /\ k * (x - 1) = k * x - k
  OBVIOUS

LEMMA DarkInvStep == DarkInv /\ [DarkNext]_darkVars => DarkInv'
<1> SUFFICES ASSUME DarkInv, [DarkNext]_darkVars PROVE DarkInv'
  OBVIOUS
<1> USE DEF DarkTypeOK, rowVars, chkVars, sweepVars
<1>0. /\ DarkTypeOK
      /\ \A c \in Checks, f \in Leaks : events[c][f] <= Copies(f)
      /\ \A c \in Checks : \A m, n \in chkOf[c] : m = n
      /\ \A m \in Monitors, f \in Leaks : watch[m] # "present" => alerts[m][f] = 0
      /\ \A f \in Leaks : Copies(f) \in {1, 2}
      /\ Sweepers \subseteq Checks /\ Manual \subseteq Checks
      /\ NoEvents \in [Leaks -> 0..2] /\ \A f \in Leaks : NoEvents[f] = 0
  BY DEF DarkInv, Copies, Checks, NoEvents
<1>1. ASSUME DarkTypeOK', UNCHANGED <<events, chkOf, watch, alerts>>,
             \A m \in Monitors, f \in Leaks : Unaware(m, f)' \subseteq Unaware(m, f)
      PROVE  DarkInv'
  BY <1>0, <1>1, BoundStays DEF DarkInv
<1>2. ASSUME DarkTypeOK', UNCHANGED <<events, chkOf, chkStage, known, alerts>>,
             \A m \in Monitors : watch[m] = "present" => watch'[m] = "present"
      PROVE  DarkInv'
  BY <1>0, <1>2, BoundStays DEF DarkInv, Unaware
<1>3. ASSUME NEW c \in Checks, Ended(c), NEW d \in Checks, NEW f \in Leaks
      PROVE  events'[d][f] <= Copies(f)
  <2>1. events' = [events EXCEPT ![c] = NoEvents]
    BY <1>3 DEF Ended
  <2>2. CASE d = c
    <3>1. events'[d] = NoEvents
      BY <1>0, <2>1, <2>2
    <3>2. events'[d][f] = 0 /\ Copies(f) \in {1, 2}
      BY <1>0, <3>1
    <3>3. QED
      BY <3>2
  <2>3. CASE d # c
    BY <1>0, <2>1, <2>3
  <2>4. QED
    BY <2>2, <2>3
<1>4. ASSUME NEW c \in Checks, Ended(c), UNCHANGED <<watch, alerts>>, DarkTypeOK'
      PROVE  DarkInv'
  <2>1. \A m \in Monitors, f \in Leaks : Unaware(m, f)' \subseteq Unaware(m, f)
    BY <1>4 DEF Ended, Unaware
  <2>2. \A d \in Checks, f \in Leaks : events'[d][f] <= Copies(f)
    BY <1>4, <1>3
  <2>3. \A d \in Checks : \A m, n \in chkOf'[d] : m = n
    BY <1>0, <1>4 DEF Ended
  <2>4. QED
    BY <1>0, <1>4, <2>1, <2>2, <2>3, BoundStays DEF DarkInv
<1>5. ASSUME NEW c \in Checks, NEW m \in Monitors, Asking(c, m),
             UNCHANGED <<watch, alerts>>, DarkTypeOK'
      PROVE  DarkInv'
  <2>1. \A n \in Monitors, f \in Leaks : Unaware(n, f)' \subseteq Unaware(n, f)
    BY <1>5 DEF Asking, Unaware
  <2>2. \A d \in Checks : \A k, n \in chkOf'[d] : k = n
    BY <1>0, <1>5 DEF Asking
  <2>3. QED
    BY <1>0, <1>5, <2>1, <2>2, BoundStays DEF DarkInv, Asking
<1>6. ASSUME NEW f \in Leaks, Leak(f) PROVE DarkInv'
  BY <1>0, <1>6, <1>2 DEF Leak
<1>7. ASSUME NEW a \in Adders, LookForMonitor(a) PROVE DarkInv'
  BY <1>0, <1>7, <1>2 DEF LookForMonitor
<1>8. ASSUME NEW a \in Adders, NEW m \in Monitors, AddMonitor(a, m) PROVE DarkInv'
  BY <1>0, <1>8, <1>2 DEF AddMonitor
<1>9. ASSUME NEW m \in Monitors, DeleteMonitor(m) PROVE DarkInv'
  <2>1. DarkTypeOK'
    BY <1>0, <1>9 DEF DeleteMonitor
  <2>2. UNCHANGED <<events, chkOf>>
    BY <1>9 DEF DeleteMonitor
  <2>3. ASSUME NEW n \in Monitors, NEW f \in Leaks
        PROVE  /\ watch'[n] # "present" => alerts'[n][f] = 0
               /\ alerts'[n][f] + Copies(f) * Cardinality(Unaware(n, f)')
                    <= Copies(f) * Cardinality(Checks)
    <3>1. Unaware(n, f)' = Unaware(n, f)
      BY <1>9 DEF DeleteMonitor, Unaware
    <3>2. CASE n = m
      <4>1. alerts'[n][f] = 0
        BY <1>0, <1>9, <3>2 DEF DeleteMonitor
      <4>2. Cardinality(Unaware(n, f)') \in Nat
            /\ Cardinality(Unaware(n, f)') <= Cardinality(Checks)
        <5>1. Unaware(n, f)' \in SUBSET Checks
          BY DEF Unaware
        <5>2. QED
          BY <5>1, SomeChecks
      <4>3. Copies(f) * Cardinality(Unaware(n, f)') <= Copies(f) * Cardinality(Checks)
            /\ Copies(f) * Cardinality(Unaware(n, f)') \in Nat
        BY <1>0, <4>2, SomeChecks, ScaledOrder
      <4>4. QED
        BY <4>1, <4>3
    <3>3. CASE n # m
      <4>1. alerts'[n][f] = alerts[n][f] /\ watch'[n] = watch[n]
        BY <1>0, <1>9, <3>3 DEF DeleteMonitor
      <4>2. QED
        BY <1>0, <3>1, <4>1, BoundStays
    <3>4. QED
      BY <3>2, <3>3
  <2>4. QED
    BY <1>0, <2>1, <2>2, <2>3 DEF DarkInv
<1>10. ASSUME NEW m \in Monitors, IntervalPasses(m) PROVE DarkInv'
  BY <1>0, <1>10, <1>2 DEF IntervalPasses
<1>11. ASSUME NEW c \in Manual, NEW m \in Monitors, BeginCheck(c, m) PROVE DarkInv'
  <2>1. c \in Checks /\ Asking(c, m)
        /\ UNCHANGED <<leaked, watch, due, alerts, addStage, sweepVars>>
    BY <1>0, <1>11 DEF BeginCheck
  <2>2. DarkTypeOK'
    BY <1>0, <2>1 DEF Asking
  <2>3. QED
    BY <1>5, <2>1, <2>2
<1>12. ASSUME NEW c \in Checks, AskSources(c) PROVE DarkInv'
  <2>1. PICK broad \in SUBSET (Leaks \ LeakCheck), lc \in QueryLeakCheck :
           \E e \in LeakEvents(broad \cup lc) : events' = [events EXCEPT ![c] = e]
    BY <1>12 DEF AskSources
  <2>2. PICK e \in LeakEvents(broad \cup lc) : events' = [events EXCEPT ![c] = e]
    BY <2>1
  <2>3. e \in [Leaks -> 0..2] /\ \A f \in Leaks : e[f] <= Copies(f)
    BY <1>0, SMTT(30) DEF LeakEvents
  <2>4. /\ chkStage' = [chkStage EXCEPT ![c] = "answered"]
        /\ UNCHANGED <<leaked, watch, due, alerts, addStage, chkOf, known, sweepVars>>
    BY <1>12 DEF AskSources
  <2>5. DarkTypeOK' /\ \A d \in Checks, f \in Leaks : events'[d][f] <= Copies(f)
    BY <1>0, <2>2, <2>3, <2>4
  <2>6. \A m \in Monitors, f \in Leaks : Unaware(m, f)' \subseteq Unaware(m, f)
    BY <2>4 DEF Unaware
  <2>7. QED
    BY <1>0, <2>4, <2>5, <2>6, BoundStays DEF DarkInv
<1>13. ASSUME NEW c \in Checks, ReadKnown(c) PROVE DarkInv'
  <2>1. /\ known' = [known EXCEPT ![c] = {f \in Leaks : \E m \in chkOf[c] : alerts[m][f] > 0}]
        /\ chkStage' = [chkStage EXCEPT ![c] = "compared"]
        /\ UNCHANGED <<leaked, watch, due, alerts, addStage, chkOf, events, sweepVars>>
    BY <1>13 DEF ReadKnown
  <2>2. DarkTypeOK'
    BY <1>0, <2>1
  <2>3. ASSUME NEW m \in Monitors, NEW f \in Leaks
        PROVE  alerts'[m][f] + Copies(f) * Cardinality(Unaware(m, f)')
                 <= Copies(f) * Cardinality(Checks)
    <3>1. CASE alerts[m][f] = 0
      <4>1. Unaware(m, f)' \in SUBSET Checks
        BY DEF Unaware
      <4>2. Cardinality(Unaware(m, f)') \in Nat
            /\ Cardinality(Unaware(m, f)') <= Cardinality(Checks)
        BY <4>1, SomeChecks
      <4>3. Copies(f) * Cardinality(Unaware(m, f)') <= Copies(f) * Cardinality(Checks)
            /\ Copies(f) * Cardinality(Unaware(m, f)') \in Nat
        BY <1>0, <4>2, SomeChecks, ScaledOrder
      <4>4. alerts'[m][f] = 0
        BY <2>1, <3>1
      <4>5. QED
        BY <4>3, <4>4
    <3>2. CASE alerts[m][f] # 0
      <4>1. alerts[m][f] > 0
        BY <1>0, <3>2
      <4>2. Unaware(m, f)' \subseteq Unaware(m, f)
        BY <1>0, <2>1, <4>1 DEF Unaware
      <4>3. QED
        BY <2>1, <4>2, BoundStays
    <3>3. QED
      BY <3>1, <3>2
  <2>4. QED
    BY <1>0, <2>1, <2>2, <2>3 DEF DarkInv
<1>14. ASSUME NEW c \in Checks, StoreAlerts(c) PROVE DarkInv'
  <2>1. PICK m \in chkOf[c] :
           /\ watch[m] = "present"
           /\ alerts' = [alerts EXCEPT ![m] = [f \in Leaks |-> @[f] + NewEvents(c)[f]]]
           /\ due' = [due EXCEPT ![m] = FALSE]
    BY <1>14 DEF StoreAlerts
  <2>2. m \in Monitors /\ chkStage[c] = "compared" /\ Ended(c)
        /\ UNCHANGED <<leaked, watch, addStage, sweepVars>>
    BY <1>0, <1>14 DEF StoreAlerts
  <2>3. \A f \in Leaks : /\ NewEvents(c)[f] = IF f \in known[c] THEN 0 ELSE events[c][f]
                         /\ NewEvents(c)[f] \in Nat
                         /\ alerts'[m][f] = alerts[m][f] + NewEvents(c)[f]
    <3> SUFFICES ASSUME NEW f \in Leaks
                 PROVE  /\ NewEvents(c)[f] = IF f \in known[c] THEN 0 ELSE events[c][f]
                        /\ NewEvents(c)[f] \in Nat
                        /\ alerts'[m][f] = alerts[m][f] + NewEvents(c)[f]
      OBVIOUS
    <3>1. NewEvents(c)[f] = IF f \in known[c] THEN 0 ELSE events[c][f]
      BY DEF NewEvents
    <3>2. events[c][f] \in 0..2
      BY <1>0
    <3>3. alerts'[m] = [g \in Leaks |-> alerts[m][g] + NewEvents(c)[g]]
      BY <1>0, <2>1, <2>2
    <3>4. QED
      BY <3>1, <3>2, <3>3
  <2>4. \A n \in Monitors \ {m} : alerts'[n] = alerts[n]
    BY <1>0, <2>1
  <2>5. alerts' \in [Monitors -> [Leaks -> Nat]]
    BY <1>0, <2>1, <2>2, <2>3
  <2>6. DarkTypeOK'
    BY <1>0, <2>1, <2>2, <2>5 DEF Ended
  <2>7. ASSUME NEW n \in Monitors, NEW f \in Leaks
        PROVE  /\ watch'[n] # "present" => alerts'[n][f] = 0
               /\ alerts'[n][f] + Copies(f) * Cardinality(Unaware(n, f)')
                    <= Copies(f) * Cardinality(Checks)
    <3>1. Unaware(n, f)' = Unaware(n, f) \ {c}
      BY <1>0, <2>2 DEF Ended, Unaware
    <3>2. CASE n # m \/ f \in known[c]
      <4>1. alerts'[n][f] = alerts[n][f]
        BY <1>0, <2>2, <2>3, <2>4, <3>2
      <4>2. QED
        BY <1>0, <2>2, <3>1, <4>1, BoundStays
    <3>3. CASE n = m /\ f \notin known[c]
      <4>1. c \in Unaware(n, f) /\ IsFiniteSet(Unaware(n, f))
        <5>1. Unaware(n, f) \in SUBSET Checks
          BY DEF Unaware
        <5>2. QED
          BY <2>2, <3>3, <5>1, SomeChecks DEF Unaware
      <4>2. /\ Cardinality(Unaware(n, f)') = Cardinality(Unaware(n, f)) - 1
            /\ Cardinality(Unaware(n, f)) \in Nat
        BY <3>1, <4>1, FS_RemoveElement, FS_CardinalityType
      <4>3. alerts'[n][f] = alerts[n][f] + events[c][f] /\ events[c][f] <= Copies(f)
            /\ events[c][f] \in Nat /\ alerts[n][f] \in Nat
        <5>1. events[c][f] <= Copies(f) /\ events[c][f] \in 0..2 /\ alerts[n][f] \in Nat
          BY <1>0
        <5>2. QED
          BY <2>3, <3>3, <5>1
      <4>4. alerts[n][f] + Copies(f) * Cardinality(Unaware(n, f))
              <= Copies(f) * Cardinality(Checks)
        BY DEF DarkInv
      <4>5. Copies(f) \in {1, 2}
        BY <1>0
      <4>6. /\ Copies(f) * Cardinality(Unaware(n, f)')
                 = Copies(f) * Cardinality(Unaware(n, f)) - Copies(f)
            /\ Copies(f) * Cardinality(Unaware(n, f)) \in Nat
            /\ Copies(f) * Cardinality(Checks) \in Nat
        BY <4>2, <4>5, SomeChecks, ScaledOrder
      <4>7. watch'[n] = "present"
        BY <2>1, <2>2, <3>3
      <4>8. QED
        BY <4>3, <4>4, <4>5, <4>6, <4>7
    <3>4. QED
      BY <3>2, <3>3
  <2>8. QED
    <3>1. \A d \in Checks, f \in Leaks : events'[d][f] <= Copies(f)
      BY <1>3, <2>2
    <3>2. \A d \in Checks : \A k, n \in chkOf'[d] : k = n
      BY <1>0, <2>2 DEF Ended
    <3>3. QED
      BY <2>6, <2>7, <3>1, <3>2 DEF DarkInv
<1>15. ASSUME NEW c \in Checks, CheckFails(c) PROVE DarkInv'
  <2>1. Ended(c) /\ UNCHANGED <<leaked, watch, due, alerts, addStage, sweepVars>>
    BY <1>15 DEF CheckFails
  <2>2. DarkTypeOK'
    BY <1>0, <2>1 DEF Ended
  <2>3. QED
    BY <1>4, <2>1, <2>2
<1>16. ASSUME NEW s \in Sweepers, BeginSweep(s) PROVE DarkInv'
  BY <1>0, <1>16, <1>2 DEF BeginSweep, Present
<1>17. ASSUME NEW s \in Sweepers, NEW m \in Monitors, SweepNext(s, m) PROVE DarkInv'
  <2>1. CASE watch[m] = "present"
    <3>1. s \in Checks /\ Asking(s, m) /\ sweepTodo' = [sweepTodo EXCEPT ![s] = @ \ {m}]
          /\ UNCHANGED <<leaked, watch, due, alerts, addStage, sweepLock, sweepOn>>
      BY <1>0, <1>17, <2>1 DEF SweepNext
    <3>2. DarkTypeOK'
      BY <1>0, <3>1 DEF Asking
    <3>3. QED
      BY <1>5, <3>1, <3>2
  <2>2. CASE watch[m] # "present"
    BY <1>0, <1>17, <1>2, <2>2 DEF SweepNext
  <2>3. QED
    BY <2>1, <2>2
<1>18. ASSUME NEW s \in Sweepers, EndSweep(s) PROVE DarkInv'
  BY <1>0, <1>18, <1>2 DEF EndSweep
<1>19. ASSUME NEW s \in Sweepers, CrashSweep(s) PROVE DarkInv'
  <2>1. s \in Checks /\ Ended(s) /\ sweepTodo' = [sweepTodo EXCEPT ![s] = {}]
        /\ sweepOn' = sweepOn \ {s}
        /\ UNCHANGED <<leaked, watch, due, alerts, addStage, sweepLock>>
    BY <1>0, <1>19 DEF CrashSweep
  <2>2. DarkTypeOK'
    BY <1>0, <2>1 DEF Ended
  <2>3. QED
    BY <1>4, <2>1, <2>2
<1>20. CASE LapseSweepLock
  BY <1>0, <1>20, <1>2 DEF LapseSweepLock
<1>21. CASE UNCHANGED darkVars
  BY <1>0, <1>21, <1>2 DEF darkVars
<1>22. QED
  BY <1>6, <1>7, <1>8, <1>9, <1>10, <1>11, <1>12, <1>13, <1>14, <1>15, <1>16, <1>17,
     <1>18, <1>19, <1>20, <1>21 DEF DarkNext, CheckNext

\* A deleted monitor keeps no alert, and a leak is stored at most once per check that
\* can be under way, for any number of monitors, leaks, checks and workers that sweep.
THEOREM AlertsStayBounded == DarkSpec => [](DarkTypeOK /\ AlertsBounded)
<1>1. DarkInit => DarkInv
  <2> SUFFICES ASSUME DarkInit PROVE DarkInv
    OBVIOUS
  <2>1. /\ \A f \in Leaks : Copies(f) \in {1, 2}
        /\ \A c \in Checks, f \in Leaks : events[c][f] = 0
        /\ \A m \in Monitors, f \in Leaks : alerts[m][f] = 0
    BY DEF DarkInit, NoEvents, Copies
  <2>2. DarkTypeOK
    BY DEF DarkInit, DarkTypeOK, NoEvents
  <2>3. ASSUME NEW m \in Monitors, NEW f \in Leaks
        PROVE  alerts[m][f] + Copies(f) * Cardinality(Unaware(m, f))
                 <= Copies(f) * Cardinality(Checks)
    <3>1. Unaware(m, f) \in SUBSET Checks
      BY DEF Unaware
    <3>2. Cardinality(Unaware(m, f)) \in Nat
          /\ Cardinality(Unaware(m, f)) <= Cardinality(Checks)
      BY <3>1, SomeChecks
    <3>3. QED
      BY <2>1, <3>2, SomeChecks
  <2>4. QED
    BY <2>1, <2>2, <2>3 DEF DarkInv, DarkInit
<1>2. DarkInv => DarkTypeOK /\ AlertsBounded
  <2> SUFFICES ASSUME DarkInv PROVE DarkTypeOK /\ AlertsBounded
    OBVIOUS
  <2>1. ASSUME NEW m \in Monitors, NEW f \in Leaks
        PROVE  alerts[m][f] <= Copies(f) * Cardinality(Checks)
    <3>1. Unaware(m, f) \in SUBSET Checks
      BY DEF Unaware
    <3>2. Cardinality(Unaware(m, f)) \in Nat
      BY <3>1, SomeChecks
    <3>3. /\ alerts[m][f] \in Nat
          /\ alerts[m][f] + Copies(f) * Cardinality(Unaware(m, f))
               <= Copies(f) * Cardinality(Checks)
      BY DEF DarkInv, DarkTypeOK
    <3>4. Copies(f) \in {1, 2}
      BY DEF Copies
    <3>5. QED
      BY <3>2, <3>3, <3>4, SomeChecks
  <2>2. QED
    BY <2>1 DEF DarkInv, AlertsBounded
<1>3. QED
  BY <1>1, <1>2, DarkInvStep, PTL DEF DarkSpec

-----------------------------------------------------------------------------
(* VpnPeers                                                                *)

\* A name has a configuration exactly if it is listed, with its address and the
\* server's key.
Configured(peers, n) ==
  IF \E p \in peers : p.name = n
  THEN \E p \in peers : p.name = n /\ vpnConf[n] = [ip |-> p.ip, server |-> vpnPub]
  ELSE vpnConf[n] = NoFile

Doing(w, op) == vpnOp[w][1] = op

\* The list, the configurations and the keys agree.
Settled ==
  /\ vpnFile # NoFile
  /\ vpnPub = NoFile => vpnFile = {}
  /\ \A n \in PeerNames : Configured(vpnFile, n)

\* The copy of w and the configurations agree but for its peer.
SettledBut(w, p) ==
  /\ vpnPeer[w] = {p}
  /\ \A n \in PeerNames \ {p.name} : Configured(vpnCopy[w], n)

\* What an operation that met no other has done so far.
AloneInOrder(w) ==
  /\ At(w, <<"add", "public">>) \/ At(w, <<"generate", "public">>) =>
       vpnPub = NoFile /\ vpnPriv = w
  /\ ~At(w, <<"add", "public">>) /\ ~At(w, <<"generate", "public">>) =>
       vpnPriv = vpnPub
  /\ Doing(w, "add") => \E p \in Peer :
       /\ SettledBut(w, p) /\ p \in vpnCopy[w]
       /\ \A q \in vpnCopy[w] : q # p => q.name # p.name /\ vpnPub # NoFile
       /\ ~At(w, <<"add", "keys">>) /\ ~At(w, <<"add", "public">>) =>
            vpnPub # NoFile /\ vpnServer[w] = vpnPub
       /\ At(w, <<"add", "conf">>) => vpnFile = vpnCopy[w]
  /\ Doing(w, "remove") => \E p \in Peer :
       /\ SettledBut(w, p) /\ vpnPub # NoFile
       /\ \A q \in vpnCopy[w] : q.name # p.name
       /\ At(w, <<"remove", "unlink">>) => vpnFile = vpnCopy[w]
  /\ Doing(w, "generate") => Settled

\* The steps of add_peer after the key of the server was read.
HasKey(w) == \E step \in {"truncate", "write", "conf"} : At(w, <<"add", step>>)

InTurn ==
  /\ \A v, w \in VpnWorkers : ~At(v, Idle) /\ ~At(w, Idle) => v = w
  /\ (\A w \in VpnWorkers : At(w, Idle)) => vpnPriv = vpnPub /\ Settled
  /\ \A w \in VpnWorkers : ~At(w, Idle) => AloneInOrder(w)

\* Whoever is at work, and whoever died, no list in a file or in memory has two peers
\* of one name or address; while no two have met, the one at work is in order.
VpnInv ==
  /\ VpnTypeOK
  /\ vpnFile # NoFile => Distinct(vpnFile)
  /\ \A w \in VpnWorkers : Distinct(vpnCopy[w])
  /\ \A w \in VpnWorkers : vpnServer[w] = NoFile => ~HasKey(w)
  /\ ~vpnMet => InTurn

LEMMA FreeAddress ==
  ASSUME NEW peers \in SUBSET Peer, Distinct(peers), NEW n \in PeerNames,
         \A p \in peers : p.name # n, NEW ip \in NextPeerIp(peers)
  PROVE  /\ [name |-> n, ip |-> ip] \in Peer
         /\ Distinct(peers \cup {[name |-> n, ip |-> ip]})
<1> DEFINE new == [name |-> n, ip |-> ip]
<1>1. ip \in 1..MaxHost /\ \A p \in peers : p.ip # ip
  BY DEF NextPeerIp
<1>2. new \in Peer /\ new.name = n /\ new.ip = ip
  BY <1>1 DEF Peer
<1> HIDE DEF new
<1>3. Distinct(peers \cup {new})
  BY <1>1, <1>2 DEF Distinct
<1>4. QED
  BY <1>2, <1>3 DEF new

\* A worker that goes on alone leaves the others idle.
LEMMA GoesOnAlone ==
  ASSUME VpnTypeOK, NEW w \in VpnWorkers, NEW step, step # Idle, Goes(w, step),
         \A v \in VpnWorkers \ {w} : At(v, Idle), AloneInOrder(w)'
  PROVE  InTurn'
<1>1. vpnOp'[w] = step /\ \A v \in VpnWorkers \ {w} : vpnOp'[v] = Idle
  BY DEF VpnTypeOK, Goes, At
<1>2. QED
  BY <1>1 DEF InTurn, At

\* One that ends alone leaves a settled state.
LEMMA EndsAlone ==
  ASSUME VpnTypeOK, NEW w \in VpnWorkers, Goes(w, Idle),
         \A v \in VpnWorkers \ {w} : At(v, Idle), (vpnPriv = vpnPub)', Settled'
  PROVE  InTurn'
<1>1. \A v \in VpnWorkers : vpnOp'[v] = Idle
  BY DEF VpnTypeOK, Goes, At
<1>2. QED
  BY <1>1 DEF InTurn, At

LEMMA AloneAtWork ==
  ASSUME VpnInv, ~vpnMet, NEW w \in VpnWorkers, ~At(w, Idle)
  PROVE  (\A v \in VpnWorkers \ {w} : At(v, Idle)) /\ AloneInOrder(w)
  BY DEF VpnInv, InTurn

LEMMA BeginsAlone ==
  ASSUME VpnInv, NEW w \in VpnWorkers, NEW step, Begins(w, step), ~vpnMet'
  PROVE  ~vpnMet /\ (\A v \in VpnWorkers : At(v, Idle)) /\ vpnPriv = vpnPub /\ Settled
  BY DEF VpnInv, InTurn, Begins

LEMMA VpnListsSound ==
  ASSUME VpnInv, VpnNext
  PROVE  /\ VpnTypeOK'
         /\ (vpnFile # NoFile => Distinct(vpnFile))'
         /\ \A w \in VpnWorkers : Distinct(vpnCopy'[w])
         /\ \A w \in VpnWorkers : vpnServer'[w] = NoFile => ~HasKey(w)'
<1> DEFINE Goal == /\ VpnTypeOK'
                   /\ (vpnFile # NoFile => Distinct(vpnFile))'
                   /\ \A w \in VpnWorkers : Distinct(vpnCopy'[w])
                   /\ \A w \in VpnWorkers : vpnServer'[w] = NoFile => ~HasKey(w)'
<1> PICK w \in VpnWorkers :
      \/ \E n \in PeerNames : AddPeer(w, n)
      \/ \E op \in {"add", "generate"}, next \in {"truncate", "config"} :
           /\ <<op, next>> \in Steps
           /\ ServerKeys(w, op, next) \/ ServerPublicKey(w, op, next)
      \/ \E op \in {"add", "remove"}, next \in {"conf", "unlink"} :
           <<op, next>> \in Steps /\ SavePeers(w, op, next)
      \/ WriteConf(w)
      \/ \E p \in Peer : RemovePeer(w, p)
      \/ Unlink(w)
      \/ GenerateServerConfig(w)
      \/ WriteWg0(w)
      \/ VpnCrash(w)
  BY DEF VpnNext, Steps
<1>0. /\ VpnTypeOK
      /\ vpnFile # NoFile => Distinct(vpnFile)
      /\ \A v \in VpnWorkers : Distinct(vpnCopy[v])
      /\ \A v \in VpnWorkers : vpnServer[v] = NoFile => ~HasKey(v)
      /\ Distinct({})
  BY DEF VpnInv, Distinct
<1>1. ASSUME Ends(w), UNCHANGED <<vpnFile, vpnPriv, vpnPub>>, vpnMet' \in BOOLEAN,
             vpnConf' \in [PeerNames -> Conf \cup {NoFile}]
      PROVE  Goal
  BY <1>0, <1>1 DEF Ends, Goes, At, VpnTypeOK, HasKey, Idle, Steps
<1>2. ASSUME NEW n \in PeerNames, AddPeer(w, n) PROVE Goal
  <2>1. PICK ip \in NextPeerIp(vpnFile) :
          Holds(w, vpnFile \cup {[name |-> n, ip |-> ip]}, [name |-> n, ip |-> ip])
    BY <1>2 DEF AddPeer
  <2> DEFINE p == [name |-> n, ip |-> ip]
  <2>2. p \in Peer /\ Distinct(vpnFile \cup {p}) /\ vpnFile \subseteq Peer
    BY <1>0, <1>2, FreeAddress DEF AddPeer, VpnTypeOK
  <2>3. Holds(w, vpnFile \cup {p}, p)
    BY <2>1
  <2> HIDE DEF p
  <2>4. Begins(w, <<"add", "keys">>) /\ UNCHANGED <<files, vpnServer>>
    BY <1>2 DEF AddPeer
  <2>5. <<"add", "keys">> \in Steps
    BY DEF Steps
  <2>6. VpnTypeOK'
    BY <1>0, <2>2, <2>3, <2>4, <2>5 DEF Holds, Begins, Goes, files, VpnTypeOK
  <2>7. \A v \in VpnWorkers : Distinct(vpnCopy'[v])
    BY <1>0, <2>2, <2>3 DEF Holds, VpnTypeOK
  <2>8. \A v \in VpnWorkers : vpnServer'[v] = NoFile => ~HasKey(v)'
    BY <1>0, <2>4 DEF Begins, Goes, At, HasKey, VpnTypeOK
  <2>9. QED
    BY <1>0, <2>4, <2>6, <2>7, <2>8 DEF files
<1>3. ASSUME NEW op \in {"add", "generate"}, NEW next \in {"truncate", "config"},
             <<op, next>> \in Steps, ServerKeys(w, op, next)
      PROVE  Goal
  <2>1. <<op, "public">> \in Steps
    BY DEF Steps
  <2>2. VpnTypeOK'
    BY <1>0, <1>3, <2>1 DEF ServerKeys, Goes, VpnTypeOK
  <2>3. \A v \in VpnWorkers : vpnServer'[v] = NoFile => ~HasKey(v)'
    BY <1>0, <1>3 DEF ServerKeys, Goes, At, HasKey, VpnTypeOK
  <2>4. QED
    BY <1>0, <1>3, <2>2, <2>3 DEF ServerKeys
<1>4. ASSUME NEW op \in {"add", "generate"}, NEW next \in {"truncate", "config"},
             <<op, next>> \in Steps, ServerPublicKey(w, op, next)
      PROVE  Goal
  <2>1. VpnTypeOK'
    BY <1>0, <1>4 DEF ServerPublicKey, Goes, VpnTypeOK
  <2>2. \A v \in VpnWorkers : vpnServer'[v] = NoFile => ~HasKey(v)'
    BY <1>0, <1>4, VpnAssumption DEF ServerPublicKey, Goes, At, HasKey, VpnTypeOK
  <2>3. QED
    BY <1>0, <1>4, <2>1, <2>2 DEF ServerPublicKey
<1>5. ASSUME NEW op \in {"add", "remove"}, NEW next \in {"conf", "unlink"},
             <<op, next>> \in Steps, SavePeers(w, op, next)
      PROVE  Goal
  <2>1. <<op, "write">> \in Steps /\ <<op, next>> # Idle
    BY DEF Steps, Idle
  <2>2. VpnTypeOK'
    BY <1>0, <1>5, <2>1 DEF SavePeers, Goes, VpnTypeOK
  <2>3. \A v \in VpnWorkers : vpnServer'[v] = NoFile => ~HasKey(v)'
    BY <1>0, <1>5 DEF SavePeers, Goes, At, HasKey, VpnTypeOK
  <2>4. QED
    BY <1>0, <1>5, <2>2, <2>3 DEF SavePeers
<1>6. CASE WriteConf(w)
  <2>1. PICK p \in vpnPeer[w] :
          vpnConf' = [vpnConf EXCEPT ![p.name] = [ip |-> p.ip, server |-> vpnServer[w]]]
    BY <1>6 DEF WriteConf
  <2>2. vpnServer[w] \in VpnWorkers
    BY <1>0, <1>6 DEF WriteConf, HasKey, VpnTypeOK
  <2>3. p.ip \in 1..MaxHost
    BY <1>0, <2>1 DEF VpnTypeOK, Peer
  <2>4. vpnConf' \in [PeerNames -> Conf \cup {NoFile}]
    BY <1>0, <2>1, <2>2, <2>3 DEF VpnTypeOK, Conf
  <2>5. QED
    BY <1>0, <1>6, <1>1, <2>4 DEF WriteConf, VpnTypeOK
<1>7. ASSUME NEW p \in Peer, RemovePeer(w, p) PROVE Goal
  <2>1. /\ Begins(w, <<"remove", "truncate">>) /\ UNCHANGED <<files, vpnServer>>
        /\ vpnFile \subseteq Peer /\ vpnFile # NoFile
        /\ Holds(w, {q \in vpnFile : q.name # p.name}, p)
    BY <1>0, <1>7 DEF RemovePeer, VpnTypeOK
  <2>2. <<"remove", "truncate">> \in Steps
    BY DEF Steps
  <2>3. VpnTypeOK'
    BY <1>0, <2>1, <2>2 DEF Holds, Begins, Goes, files, VpnTypeOK
  <2>4. \A v \in VpnWorkers : Distinct(vpnCopy'[v])
    BY <1>0, <2>1 DEF Holds, VpnTypeOK, Distinct
  <2>5. \A v \in VpnWorkers : vpnServer'[v] = NoFile => ~HasKey(v)'
    BY <1>0, <2>1 DEF Begins, Goes, At, HasKey, VpnTypeOK
  <2>6. QED
    BY <1>0, <2>1, <2>3, <2>4, <2>5 DEF files
<1>8. CASE Unlink(w)
  <2>1. vpnConf' \in [PeerNames -> Conf \cup {NoFile}]
    BY <1>0, <1>8 DEF Unlink, VpnTypeOK
  <2>2. QED
    BY <1>0, <1>8, <1>1, <2>1 DEF Unlink, VpnTypeOK
<1>9. CASE GenerateServerConfig(w)
  <2>1. <<"generate", "keys">> \in Steps
    BY DEF Steps
  <2>2. VpnTypeOK'
    BY <1>0, <1>9, <2>1 DEF GenerateServerConfig, Begins, Goes, files, VpnTypeOK
  <2>3. \A v \in VpnWorkers : vpnServer'[v] = NoFile => ~HasKey(v)'
    BY <1>0, <1>9 DEF GenerateServerConfig, Begins, Goes, At, HasKey, VpnTypeOK
  <2>4. QED
    BY <1>0, <1>9, <2>2, <2>3 DEF GenerateServerConfig, files
<1>10. CASE WriteWg0(w)
  BY <1>0, <1>10, <1>1 DEF WriteWg0, files, VpnTypeOK
<1>11. CASE VpnCrash(w)
  BY <1>0, <1>11, <1>1 DEF VpnCrash, files, VpnTypeOK
<1>12. QED
  BY <1>2, <1>3, <1>4, <1>5, <1>6, <1>7, <1>8, <1>9, <1>10, <1>11

LEMMA VpnStaysInTurn ==
  ASSUME VpnInv, VpnNext, ~vpnMet'
  PROVE  InTurn'
<1> PICK w \in VpnWorkers :
      \/ \E n \in PeerNames : AddPeer(w, n)
      \/ ServerKeys(w, "add", "truncate") \/ ServerPublicKey(w, "add", "truncate")
      \/ SavePeers(w, "add", "conf")
      \/ WriteConf(w)
      \/ \E p \in Peer : RemovePeer(w, p)
      \/ SavePeers(w, "remove", "unlink")
      \/ Unlink(w)
      \/ GenerateServerConfig(w)
      \/ ServerKeys(w, "generate", "config") \/ ServerPublicKey(w, "generate", "config")
      \/ WriteWg0(w)
      \/ VpnCrash(w)
  BY DEF VpnNext
<1>0. VpnTypeOK /\ NoFile \notin VpnWorkers /\ NoFile \notin SUBSET Peer
  BY VpnAssumption DEF VpnInv
<1>1. ASSUME NEW step, At(w, step), step # Idle, UNCHANGED vpnMet
      PROVE  (\A v \in VpnWorkers \ {w} : At(v, Idle)) /\ AloneInOrder(w)
  BY <1>1, AloneAtWork DEF At
<1>2. ASSUME NEW n \in PeerNames, AddPeer(w, n) PROVE InTurn'
  <2>1. PICK ip \in NextPeerIp(vpnFile) :
          Holds(w, vpnFile \cup {[name |-> n, ip |-> ip]}, [name |-> n, ip |-> ip])
    BY <1>2 DEF AddPeer
  <2> DEFINE p == [name |-> n, ip |-> ip]
             step == <<"add", "keys">>
  <2>2. /\ Begins(w, step) /\ UNCHANGED <<files, vpnServer>>
        /\ vpnFile \subseteq Peer /\ \A q \in vpnFile : q.name # n
    BY <1>0, <1>2 DEF AddPeer, VpnTypeOK
  <2>3. p \in Peer /\ p.name = n
    BY <2>1 DEF NextPeerIp, Peer
  <2>4. Holds(w, vpnFile \cup {p}, p)
    BY <2>1
  <2> HIDE DEF p
  <2>5. (\A v \in VpnWorkers : At(v, Idle)) /\ vpnPriv = vpnPub /\ Settled
    BY <2>2, BeginsAlone
  <2>6. vpnOp'[w] = step /\ vpnCopy'[w] = vpnFile \cup {p} /\ vpnPeer'[w] = {p}
    BY <1>0, <2>2, <2>4 DEF Begins, Goes, Holds, VpnTypeOK
  <2>7. UNCHANGED <<vpnFile, vpnConf, vpnPriv, vpnPub>>
    BY <2>2 DEF files
  <2>8. ASSUME NEW m \in PeerNames \ {p.name} PROVE Configured(vpnCopy[w], m)'
    <3>1. Configured(vpnFile, m)
      BY <2>5 DEF Settled
    <3>2. QED
      BY <2>6, <2>7, <2>8, <3>1 DEF Configured
  <2>9. \A q \in vpnFile : vpnPub # NoFile
    BY <2>5 DEF Settled
  <2>10. AloneInOrder(w)'
    <3>1. SettledBut(w, p)'
      BY <2>6, <2>8 DEF SettledBut
    <3>2. /\ p \in vpnCopy'[w]
          /\ \A q \in vpnCopy'[w] : q # p => q.name # p.name /\ vpnPub' # NoFile
      BY <2>2, <2>3, <2>6, <2>7, <2>9
    <3>3. vpnOp'[w] = <<"add", "keys">> /\ vpnPriv' = vpnPub'
      BY <2>5, <2>6, <2>7
    <3>4. QED
      BY <2>3, <3>1, <3>2, <3>3 DEF AloneInOrder, Doing, At
  <2>11. Goes(w, step) /\ step # Idle
    BY <2>2 DEF Begins, Idle
  <2>12. QED
    BY <1>0, <2>5, <2>10, <2>11, GoesOnAlone
<1>3. ASSUME NEW op \in {"add", "generate"},
             NEW next, op = "add" => next = "truncate", op = "generate" => next = "config",
             ServerKeys(w, op, next)
      PROVE  InTurn'
  <2>1. At(w, <<op, "keys">>) /\ <<op, "keys">> # Idle /\ <<op, next>> # Idle
        /\ <<op, "public">> # Idle
    BY <1>3 DEF ServerKeys, Idle
  <2>2. /\ UNCHANGED <<vpnFile, vpnConf, vpnPub, vpnCopy, vpnPeer, vpnMet>>
        /\ vpnOp[w] = <<op, "keys">>
    BY <1>3 DEF ServerKeys, At
  <2>3. (\A v \in VpnWorkers \ {w} : At(v, Idle)) /\ AloneInOrder(w)
    BY <1>1, <2>1, <2>2
  <2>4. vpnPriv = vpnPub
    BY <2>2, <2>3 DEF AloneInOrder, At
  <2>5. CASE vpnPub # NoFile
    <3>1. Goes(w, <<op, next>>) /\ vpnServer'[w] = vpnPub /\ UNCHANGED vpnPriv
      BY <1>0, <1>3, <2>4, <2>5 DEF ServerKeys, VpnTypeOK
    <3>2. vpnOp'[w] = <<op, next>>
      BY <1>0, <3>1 DEF Goes, VpnTypeOK
    <3>3. AloneInOrder(w)'
      BY <1>3, <2>2, <2>3, <2>4, <2>5, <3>1, <3>2
         DEF AloneInOrder, SettledBut, Settled, Configured, Doing, At
    <3>4. QED
      BY <1>0, <2>1, <2>3, <3>1, <3>3, GoesOnAlone
  <2>6. CASE vpnPub = NoFile
    <3>1. Goes(w, <<op, "public">>) /\ vpnPriv' = w /\ UNCHANGED vpnServer
      BY <1>3, <2>6 DEF ServerKeys
    <3>2. vpnOp'[w] = <<op, "public">>
      BY <1>0, <3>1 DEF Goes, VpnTypeOK
    <3>3. AloneInOrder(w)'
      BY <1>3, <2>2, <2>3, <2>6, <3>1, <3>2
         DEF AloneInOrder, SettledBut, Settled, Configured, Doing, At
    <3>4. QED
      BY <1>0, <2>1, <2>3, <3>1, <3>3, GoesOnAlone
  <2>7. QED
    BY <2>5, <2>6
<1>4. ASSUME NEW op \in {"add", "generate"},
             NEW next, op = "add" => next = "truncate", op = "generate" => next = "config",
             ServerPublicKey(w, op, next)
      PROVE  InTurn'
  <2>1. At(w, <<op, "public">>) /\ <<op, "public">> # Idle /\ <<op, next>> # Idle
    BY <1>4 DEF ServerPublicKey, Idle
  <2>2. /\ UNCHANGED <<vpnFile, vpnConf, vpnPriv, vpnCopy, vpnPeer, vpnMet>>
        /\ vpnPub' = w /\ vpnServer'[w] = w /\ vpnOp[w] = <<op, "public">>
        /\ Goes(w, <<op, next>>) /\ vpnOp'[w] = <<op, next>>
    BY <1>0, <1>4 DEF ServerPublicKey, At, Goes, VpnTypeOK
  <2>3. (\A v \in VpnWorkers \ {w} : At(v, Idle)) /\ AloneInOrder(w)
    BY <1>1, <2>1, <2>2
  <2>4. vpnPub = NoFile /\ vpnPriv = w
    BY <1>4, <2>2, <2>3 DEF AloneInOrder, At
  <2>5. AloneInOrder(w)'
    BY <1>0, <1>4, <2>2, <2>3, <2>4
       DEF AloneInOrder, SettledBut, Settled, Configured, Doing, At
  <2>6. QED
    BY <1>0, <2>1, <2>2, <2>3, <2>5, GoesOnAlone
<1>5. ASSUME NEW op \in {"add", "remove"},
             NEW next, op = "add" => next = "conf", op = "remove" => next = "unlink",
             SavePeers(w, op, next)
      PROVE  InTurn'
  <2>1. PICK now \in {"truncate", "write"}, then \in {"write", next} :
          /\ vpnOp[w] = <<op, now>> /\ Goes(w, <<op, then>>)
          /\ then = next => vpnFile' = vpnCopy[w]
    BY <1>5 DEF SavePeers, At
  <2>2. UNCHANGED <<vpnConf, vpnPriv, vpnPub, vpnCopy, vpnPeer, vpnServer, vpnMet>>
    BY <1>5 DEF SavePeers
  <2>3. <<op, now>> # Idle /\ <<op, then>> # Idle
    BY <1>5 DEF Idle
  <2>4. (\A v \in VpnWorkers \ {w} : At(v, Idle)) /\ AloneInOrder(w)
    BY <1>1, <2>1, <2>2, <2>3 DEF At
  <2>5. vpnOp'[w] = <<op, then>>
    BY <1>0, <2>1 DEF Goes, VpnTypeOK
  <2>6. AloneInOrder(w)'
    BY <1>5, <2>1, <2>2, <2>4, <2>5
       DEF AloneInOrder, SettledBut, Configured, Doing, At
  <2>7. QED
    BY <1>0, <2>1, <2>3, <2>4, <2>6, GoesOnAlone
<1>6. CASE WriteConf(w)
  <2>1. PICK p \in vpnPeer[w] :
          vpnConf' = [vpnConf EXCEPT ![p.name] = [ip |-> p.ip, server |-> vpnServer[w]]]
    BY <1>6 DEF WriteConf
  <2>2. /\ vpnOp[w] = <<"add", "conf">> /\ Goes(w, Idle)
        /\ UNCHANGED <<vpnFile, vpnPriv, vpnPub, vpnMet>>
    BY <1>6 DEF WriteConf, Ends, At
  <2>3. (\A v \in VpnWorkers \ {w} : At(v, Idle)) /\ AloneInOrder(w)
    BY <1>1, <2>2 DEF At, Idle
  <2>4. /\ vpnPriv = vpnPub /\ vpnPub # NoFile /\ vpnServer[w] = vpnPub
        /\ vpnPeer[w] = {p} /\ p \in Peer /\ p \in vpnFile /\ vpnFile = vpnCopy[w]
        /\ \A n \in PeerNames \ {p.name} : Configured(vpnFile, n)
    BY <2>1, <2>2, <2>3 DEF AloneInOrder, SettledBut, Doing, At
  <2>5. p.name \in PeerNames /\ vpnFile \subseteq Peer
    BY <1>0, <2>4 DEF Peer, VpnTypeOK
  <2>6. vpnConf'[p.name] = [ip |-> p.ip, server |-> vpnPub]
        /\ \A n \in PeerNames \ {p.name} : vpnConf'[n] = vpnConf[n]
    BY <1>0, <2>1, <2>4, <2>5 DEF VpnTypeOK
  <2>7. ASSUME NEW n \in PeerNames PROVE Configured(vpnFile, n)'
    <3>1. CASE n = p.name
      BY <2>2, <2>4, <2>6, <3>1 DEF Configured
    <3>2. CASE n # p.name
      <4>1. Configured(vpnFile, n) /\ vpnConf'[n] = vpnConf[n]
        BY <2>4, <2>6, <3>2
      <4>2. QED
        BY <2>2, <4>1 DEF Configured
    <3>3. QED
      BY <3>1, <3>2
  <2>8. Settled'
    BY <1>0, <2>2, <2>4, <2>5, <2>7 DEF Settled
  <2>9. QED
    BY <1>0, <2>2, <2>3, <2>4, <2>8, EndsAlone
<1>7. ASSUME NEW p \in Peer, RemovePeer(w, p) PROVE InTurn'
  <2> DEFINE step == <<"remove", "truncate">>
             rest == {q \in vpnFile : q.name # p.name}
  <2>1. /\ Begins(w, step) /\ UNCHANGED <<files, vpnServer>>
        /\ p \in vpnFile /\ Holds(w, rest, p)
    BY <1>7 DEF RemovePeer
  <2>2. (\A v \in VpnWorkers : At(v, Idle)) /\ vpnPriv = vpnPub /\ Settled
    BY <2>1, BeginsAlone
  <2>3. vpnOp'[w] = step /\ vpnCopy'[w] = rest /\ vpnPeer'[w] = {p}
    BY <1>0, <2>1 DEF Begins, Goes, Holds, VpnTypeOK
  <2>4. UNCHANGED <<vpnFile, vpnConf, vpnPriv, vpnPub>>
    BY <2>1 DEF files
  <2>5. ASSUME NEW m \in PeerNames \ {p.name} PROVE Configured(vpnCopy[w], m)'
    <3>1. Configured(vpnFile, m)
      BY <2>2 DEF Settled
    <3>2. QED
      BY <2>3, <2>4, <2>5, <3>1 DEF Configured
  <2>6. vpnPub # NoFile
    BY <2>1, <2>2 DEF Settled
  <2>7. AloneInOrder(w)'
    BY <2>2, <2>3, <2>4, <2>5, <2>6 DEF AloneInOrder, SettledBut, Doing, At
  <2>8. Goes(w, step) /\ step # Idle
    BY <2>1 DEF Begins, Idle
  <2>9. QED
    BY <1>0, <2>2, <2>7, <2>8, GoesOnAlone
<1>8. CASE Unlink(w)
  <2>1. PICK p \in vpnPeer[w] : vpnConf' = [vpnConf EXCEPT ![p.name] = NoFile]
    BY <1>8 DEF Unlink
  <2>2. /\ vpnOp[w] = <<"remove", "unlink">> /\ Goes(w, Idle)
        /\ UNCHANGED <<vpnFile, vpnPriv, vpnPub, vpnMet>>
    BY <1>8 DEF Unlink, Ends, At
  <2>3. (\A v \in VpnWorkers \ {w} : At(v, Idle)) /\ AloneInOrder(w)
    BY <1>1, <2>2 DEF At, Idle
  <2>4. /\ vpnPriv = vpnPub /\ vpnPub # NoFile
        /\ p \in Peer /\ vpnFile = vpnCopy[w]
        /\ \A q \in vpnFile : q.name # p.name
        /\ \A n \in PeerNames \ {p.name} : Configured(vpnFile, n)
    BY <2>1, <2>2, <2>3 DEF AloneInOrder, SettledBut, Doing, At
  <2>5. p.name \in PeerNames /\ vpnCopy[w] \in SUBSET Peer
    BY <1>0, <2>4 DEF Peer, VpnTypeOK
  <2>6. vpnConf'[p.name] = NoFile
        /\ \A n \in PeerNames \ {p.name} : vpnConf'[n] = vpnConf[n]
    BY <1>0, <2>1, <2>5 DEF VpnTypeOK
  <2>7. ASSUME NEW n \in PeerNames PROVE Configured(vpnFile, n)'
    <3>1. CASE n = p.name
      BY <2>2, <2>4, <2>6, <3>1 DEF Configured
    <3>2. CASE n # p.name
      <4>1. Configured(vpnFile, n) /\ vpnConf'[n] = vpnConf[n]
        BY <2>4, <2>6, <3>2
      <4>2. QED
        BY <2>2, <4>1 DEF Configured
    <3>3. QED
      BY <3>1, <3>2
  <2>8. Settled'
    BY <1>0, <2>2, <2>4, <2>5, <2>7 DEF Settled
  <2>9. QED
    BY <1>0, <2>2, <2>3, <2>4, <2>8, EndsAlone
<1>9. CASE GenerateServerConfig(w)
  <2> DEFINE step == <<"generate", "keys">>
  <2>1. Begins(w, step) /\ UNCHANGED <<vpnFile, vpnConf, vpnPriv, vpnPub>>
    BY <1>9 DEF GenerateServerConfig, files
  <2>2. (\A v \in VpnWorkers : At(v, Idle)) /\ vpnPriv = vpnPub /\ Settled
    BY <2>1, BeginsAlone
  <2>3. vpnOp'[w] = step /\ Goes(w, step) /\ step # Idle
    BY <1>0, <2>1 DEF Begins, Goes, Idle, VpnTypeOK
  <2>4. Settled'
    BY <2>1, <2>2 DEF Settled, Configured
  <2>5. AloneInOrder(w)'
    BY <2>1, <2>2, <2>3, <2>4 DEF AloneInOrder, Doing, At
  <2>6. QED
    BY <1>0, <2>2, <2>3, <2>5, GoesOnAlone
<1>10. CASE WriteWg0(w)
  <2>1. /\ vpnOp[w] = <<"generate", "config">> /\ Goes(w, Idle)
        /\ UNCHANGED <<vpnFile, vpnConf, vpnPriv, vpnPub, vpnMet>>
    BY <1>10 DEF WriteWg0, Ends, At, files
  <2>2. (\A v \in VpnWorkers \ {w} : At(v, Idle)) /\ AloneInOrder(w)
    BY <1>1, <2>1 DEF At, Idle
  <2>3. vpnPriv = vpnPub /\ Settled
    BY <2>1, <2>2 DEF AloneInOrder, Doing, At
  <2>4. Settled'
    BY <2>1, <2>3 DEF Settled, Configured
  <2>5. QED
    BY <1>0, <2>1, <2>2, <2>3, <2>4, EndsAlone
<1>11. CASE VpnCrash(w)
  BY <1>11 DEF VpnCrash
<1>12. QED
  BY <1>2, <1>3, <1>4, <1>5, <1>6, <1>7, <1>8, <1>9, <1>10, <1>11

\* No list of peers that is written names an address or a name twice, whatever overlaps
\* and whoever dies; and until then, between operations, each listed peer has its
\* configuration, with the server's one key: for any workers, names and subnet.
THEOREM VpnStaysConsistent == VpnSpec => [](VpnTypeOK /\ PeersAreConsistent)
<1>1. VpnInit => VpnInv
  <2> SUFFICES ASSUME VpnInit PROVE VpnInv
    OBVIOUS
  <2>1. VpnTypeOK /\ Distinct({}) /\ {} # NoFile
    BY VpnAssumption DEF VpnInit, VpnTypeOK, Steps, Idle, Distinct
  <2>2. \A w \in VpnWorkers : At(w, Idle) /\ ~HasKey(w)
    BY DEF VpnInit, At, Idle, HasKey
  <2>3. Settled
    BY <2>1 DEF VpnInit, Settled, Configured
  <2>4. QED
    BY <2>1, <2>2, <2>3 DEF VpnInit, VpnInv, InTurn
<1>2. VpnInv /\ [VpnNext]_vpnVars => VpnInv'
  <2>1. CASE VpnNext
    BY <2>1, VpnListsSound, VpnStaysInTurn DEF VpnInv
  <2>2. CASE UNCHANGED vpnVars
    <3>1. VpnTypeOK => VpnTypeOK'
      BY <2>2 DEF vpnVars, VpnTypeOK
    <3>2. \A w, x : At(w, x)' <=> At(w, x)
      BY <2>2 DEF vpnVars, At
    <3>3. Settled' <=> Settled
      BY <2>2 DEF vpnVars, Settled, Configured
    <3>4. \A w, p : SettledBut(w, p)' <=> SettledBut(w, p)
      BY <2>2 DEF vpnVars, SettledBut, Configured
    <3>5. \A w, what : Doing(w, what)' <=> Doing(w, what)
      BY <2>2 DEF vpnVars, Doing
    <3>6. \A w : HasKey(w)' <=> HasKey(w)
      BY <3>2 DEF HasKey
    <3>7. \A w : AloneInOrder(w)' <=> AloneInOrder(w)
      BY <2>2, <3>2, <3>3, <3>4, <3>5 DEF vpnVars, AloneInOrder
    <3>8. InTurn => InTurn'
      BY <2>2, <3>2, <3>3, <3>7 DEF vpnVars, InTurn
    <3>9. QED
      BY <2>2, <3>1, <3>6, <3>8 DEF vpnVars, VpnInv, Distinct
  <2>3. QED
    BY <2>1, <2>2
<1>3. VpnInv => VpnTypeOK /\ PeersAreConsistent
  BY DEF VpnInv, PeersAreConsistent, InTurn, Settled, Configured
<1>4. QED
  BY <1>1, <1>2, <1>3, PTL DEF VpnSpec

-----------------------------------------------------------------------------
(* TrafficLog                                                              *)

\* What was stored, an inspection once and a burst as often as it is long, and what
\* there is to store in all.
Tickets == {<<c, 0>> : c \in {i \in Inspections : fwStage[i] = "done"}}
             \cup {t \in Bursts \X (1..BurstSize) : t[2] <= fwMade[t[1]]}
AllTickets == (Inspections \X {0}) \cup (Bursts \X (1..BurstSize))

\* The log is as long as its count says; while no burst was interrupted, what one has
\* stored so far is in front, and only a burst that is done has marks.
TrafficInv ==
  /\ fwLog \in Seq(LogEntry)
  /\ fwStats \in [total : Nat, blocked : Nat, anomalies : Nat]
  /\ fwStage \in [Callers -> {"idle", "looking", "done"}]
  /\ fwMade \in [Bursts -> 0..BurstSize]
  /\ fwMet \subseteq Bursts
  /\ fwStats.total = Cardinality(Tickets)
  /\ fwStats.blocked <= fwStats.anomalies /\ fwStats.anomalies <= fwStats.total
  /\ Len(fwLog) = IF fwStats.total < LogCap THEN fwStats.total ELSE LogCap
  /\ \A b \in Bursts : fwStage[b] = "done" <=> fwMade[b] = BurstSize
  /\ fwMet = {} => \A i \in DOMAIN fwLog :
        /\ fwLog[i].simulated <=> fwLog[i].by \in {b \in Bursts : fwStage[b] = "done"}
        /\ \A b \in Bursts : fwMade[b] < BurstSize => (fwLog[i].by = b <=> i <= fwMade[b])

LEMMA TicketsAreCounted ==
  /\ IsFiniteSet(AllTickets) /\ Cardinality(AllTickets) = Stored
  /\ \A S \in SUBSET AllTickets : IsFiniteSet(S) /\ Cardinality(S) \in 0..Stored
<1>1. /\ IsFiniteSet({0}) /\ Cardinality({0}) = 1
      /\ IsFiniteSet(1..BurstSize) /\ Cardinality(1..BurstSize) = BurstSize
  <2>1. IsFiniteSet({0}) /\ Cardinality({0}) = 1
    BY FS_Singleton
  <2>2. 1 \in Int /\ BurstSize \in Int /\ BurstSize >= 1
    BY TrafficAssumption
  <2>3. /\ IsFiniteSet(1..BurstSize)
        /\ Cardinality(1..BurstSize) = IF 1 > BurstSize THEN 0 ELSE BurstSize - 1 + 1
    BY <2>2, FS_Interval
  <2>4. QED
    BY <2>1, <2>2, <2>3
<1>2. /\ Cardinality(Inspections) \in Nat /\ Cardinality(Bursts) \in Nat
      /\ BurstSize \in Nat
  BY TrafficAssumption, FS_CardinalityType
<1>3. /\ IsFiniteSet(Inspections \X {0})
      /\ Cardinality(Inspections \X {0}) = Cardinality(Inspections) * 1
  BY <1>1, TrafficAssumption, FS_Product
<1>4. /\ IsFiniteSet(Bursts \X (1..BurstSize))
      /\ Cardinality(Bursts \X (1..BurstSize)) = Cardinality(Bursts) * BurstSize
  BY <1>1, TrafficAssumption, FS_Product
<1>5. (Inspections \X {0}) \cap (Bursts \X (1..BurstSize)) = {}
  BY TrafficAssumption
<1>6. /\ IsFiniteSet(AllTickets)
      /\ Cardinality(AllTickets) = Cardinality(Inspections \X {0})
           + Cardinality(Bursts \X (1..BurstSize))
           - Cardinality((Inspections \X {0}) \cap (Bursts \X (1..BurstSize)))
  BY <1>3, <1>4, FS_Union DEF AllTickets
<1>7. Cardinality(AllTickets) = Stored
  <2>1. Cardinality((Inspections \X {0}) \cap (Bursts \X (1..BurstSize))) = 0
    BY <1>5, FS_EmptySet
  <2>2. QED
    BY <1>2, <1>3, <1>4, <1>6, <2>1 DEF Stored
<1>8. QED
  BY <1>6, <1>7, FS_Subset, FS_CardinalityType

\* The entry is in front, the others follow as far as the log reaches.
LEMMA StoredInFront ==
  ASSUME NEW c \in Callers, fwLog \in Seq(LogEntry)
  PROVE  /\ Stores(c) \in Seq(LogEntry)
         /\ Len(Stores(c)) = IF Len(fwLog) < LogCap THEN Len(fwLog) + 1 ELSE LogCap
         /\ \A i \in 1..Len(Stores(c)) :
              Stores(c)[i] = IF i = 1 THEN [by |-> c, simulated |-> FALSE] ELSE fwLog[i - 1]
<1> DEFINE e == [by |-> c, simulated |-> FALSE]
           s == <<e>> \o fwLog
<1>1. e \in LogEntry /\ Len(fwLog) \in Nat /\ LogCap \in Nat \ {0}
  BY TrafficAssumption DEF LogEntry
<1> HIDE DEF e
<1>2. /\ s \in Seq(LogEntry) /\ Len(s) = Len(fwLog) + 1
      /\ \A i \in 1..Len(s) : s[i] = IF i = 1 THEN e ELSE fwLog[i - 1]
  BY <1>1
<1> HIDE DEF s
<1>3. CASE Len(fwLog) < LogCap
  <2>1. Stores(c) = s
    BY <1>1, <1>2, <1>3 DEF Stores, CapLog, s, e
  <2>2. QED
    BY <1>2, <1>3, <2>1 DEF e
<1>4. CASE ~(Len(fwLog) < LogCap)
  <2>1. Len(s) > LogCap
    BY <1>1, <1>2, <1>4
  <2>2. Stores(c) = SubSeq(s, 1, LogCap)
    BY <2>1 DEF Stores, CapLog, s, e
  <2>3. /\ SubSeq(s, 1, LogCap) \in Seq(LogEntry) /\ Len(SubSeq(s, 1, LogCap)) = LogCap
        /\ \A i \in 1..LogCap : SubSeq(s, 1, LogCap)[i] = s[i]
    BY <1>1, <1>2, <2>1
  <2>4. Len(Stores(c)) = LogCap /\ Stores(c) \in Seq(LogEntry)
    BY <2>2, <2>3
  <2>5. ASSUME NEW i \in 1..LogCap
        PROVE  Stores(c)[i] = IF i = 1 THEN e ELSE fwLog[i - 1]
    BY <1>1, <1>2, <2>1, <2>2, <2>3
  <2>6. QED
    BY <1>4, <2>4, <2>5 DEF e
<1>5. QED
  BY <1>3, <1>4

\* One more ticket, and one more in the count.
LEMMA OneMoreIsCounted ==
  ASSUME TrafficInv, NEW t \in AllTickets, t \notin Tickets, Tickets' = Tickets \cup {t},
         NEW action \in Actions, fwStats' = Counts(action),
         Len(fwLog') = IF Len(fwLog) < LogCap THEN Len(fwLog) + 1 ELSE LogCap
  PROVE  /\ fwStats' \in [total : Nat, blocked : Nat, anomalies : Nat]
         /\ fwStats'.total = Cardinality(Tickets')
         /\ fwStats'.blocked <= fwStats'.anomalies /\ fwStats'.anomalies <= fwStats'.total
         /\ Len(fwLog') = IF fwStats'.total < LogCap THEN fwStats'.total ELSE LogCap
<1>1. Tickets \subseteq AllTickets
  BY DEF Tickets, AllTickets
<1>2. IsFiniteSet(Tickets) /\ Cardinality(Tickets) \in Nat
  BY <1>1, TicketsAreCounted, FS_CardinalityType
<1>3. Cardinality(Tickets') = Cardinality(Tickets) + 1
  BY <1>2, FS_AddElement
<1>4. /\ fwStats \in [total : Nat, blocked : Nat, anomalies : Nat]
      /\ fwStats.total = Cardinality(Tickets)
      /\ fwStats.blocked <= fwStats.anomalies /\ fwStats.anomalies <= fwStats.total
      /\ Len(fwLog) = IF fwStats.total < LogCap THEN fwStats.total ELSE LogCap
  BY DEF TrafficInv
<1>5. /\ fwStats'.total = fwStats.total + 1
      /\ fwStats'.blocked = fwStats.blocked + (IF action = "BLOCK" THEN 1 ELSE 0)
      /\ fwStats'.anomalies = fwStats.anomalies + (IF action = "ALLOW" THEN 0 ELSE 1)
      /\ fwStats' \in [total : Nat, blocked : Nat, anomalies : Nat]
  BY <1>4 DEF Counts
<1>6. fwStats.total \in Nat /\ fwStats.blocked \in Nat /\ fwStats.anomalies \in Nat
      /\ LogCap \in Nat
  BY <1>4, TrafficAssumption
<1>7. fwStats'.blocked <= fwStats'.anomalies /\ fwStats'.anomalies <= fwStats'.total
  BY <1>4, <1>5, <1>6
<1>8. QED
  BY <1>2, <1>3, <1>4, <1>5, <1>6, <1>7

LEMMA TrafficInvStep == TrafficInv /\ [TrafficNext]_trafficVars => TrafficInv'
<1> SUFFICES ASSUME TrafficInv, [TrafficNext]_trafficVars PROVE TrafficInv'
  OBVIOUS
<1>0. /\ fwLog \in Seq(LogEntry)
      /\ fwStage \in [Callers -> {"idle", "looking", "done"}]
      /\ fwMade \in [Bursts -> 0..BurstSize]
      /\ fwMet \subseteq Bursts
      /\ \A b \in Bursts : fwStage[b] = "done" <=> fwMade[b] = BurstSize
      /\ BurstSize \in Nat \ {0} /\ LogCap \in Nat \ {0}
      /\ Bursts \subseteq Callers /\ Inspections \subseteq Callers
      /\ Inspections \cap Bursts = {}
      /\ DOMAIN fwLog = 1..Len(fwLog) /\ Len(fwLog) \in Nat
  BY TrafficAssumption DEF TrafficInv, Callers
<1>1. fwMet = {} => \A i \in 1..Len(fwLog) :
        /\ fwLog[i].simulated <=> fwLog[i].by \in {b \in Bursts : fwStage[b] = "done"}
        /\ \A b \in Bursts : fwMade[b] < BurstSize => (fwLog[i].by = b <=> i <= fwMade[b])
  BY <1>0 DEF TrafficInv
<1>2. ASSUME NEW c \in Callers, BeginInspection(c) PROVE TrafficInv'
  <2>1. UNCHANGED <<fwLog, fwStats, fwMade, fwMet>> /\ fwStage[c] = "idle"
        /\ fwStage' = [fwStage EXCEPT ![c] = "looking"]
    BY <1>2 DEF BeginInspection
  <2>2. \A d \in Callers : fwStage'[d] = "done" <=> fwStage[d] = "done"
    BY <1>0, <2>1
  <2>3. Tickets' = Tickets
    BY <1>0, <2>1, <2>2 DEF Tickets
  <2>4. {b \in Bursts : fwStage'[b] = "done"} = {b \in Bursts : fwStage[b] = "done"}
    BY <1>0, <2>2
  <2>5. fwStage' \in [Callers -> {"idle", "looking", "done"}]
    BY <1>0, <2>1
  <2>6. QED
    BY <1>0, <2>1, <2>2, <2>3, <2>4, <2>5 DEF TrafficInv
<1>3. ASSUME NEW c \in Callers, InspectionEnds(c) PROVE TrafficInv'
  <2>1. /\ c \in Inspections /\ fwStage[c] = "looking" /\ fwLog' = Stores(c)
        /\ fwStage' = [fwStage EXCEPT ![c] = "done"]
        /\ fwMet' = fwMet \cup {b \in Bursts : fwMade[b] \in 1..(BurstSize - 1)}
        /\ fwMade' = fwMade
    BY <1>3 DEF InspectionEnds
  <2>2. PICK action \in Actions : fwStats' = Counts(action)
    BY <1>3 DEF InspectionEnds
  <2>3. /\ fwLog' \in Seq(LogEntry) /\ DOMAIN fwLog' = 1..Len(fwLog')
        /\ Len(fwLog') = IF Len(fwLog) < LogCap THEN Len(fwLog) + 1 ELSE LogCap
        /\ \A i \in 1..Len(fwLog') :
             fwLog'[i] = IF i = 1 THEN [by |-> c, simulated |-> FALSE] ELSE fwLog[i - 1]
    BY <1>0, <2>1, StoredInFront
  <2>4. <<c, 0>> \in AllTickets /\ <<c, 0>> \notin Tickets
        /\ Tickets' = Tickets \cup {<<c, 0>>}
    <3>1. <<c, 0>> \in AllTickets /\ <<c, 0>> \notin Tickets
      BY <2>1 DEF AllTickets, Tickets
    <3>2. {i \in Inspections : fwStage'[i] = "done"}
            = {i \in Inspections : fwStage[i] = "done"} \cup {c}
      BY <1>0, <2>1
    <3>3. QED
      BY <2>1, <3>1, <3>2 DEF Tickets
  <2>5. \A b \in Bursts : fwStage'[b] = fwStage[b]
    BY <1>0, <2>1
  <2>6. ASSUME fwMet' = {}, NEW i \in 1..Len(fwLog')
        PROVE  /\ fwLog'[i].simulated <=> fwLog'[i].by \in {b \in Bursts : fwStage'[b] = "done"}
               /\ \A b \in Bursts : fwMade'[b] < BurstSize =>
                    (fwLog'[i].by = b <=> i <= fwMade'[b])
    <3>1. fwMet = {} /\ \A b \in Bursts : fwMade[b] < BurstSize => fwMade[b] = 0
      BY <1>0, <2>1, <2>6
    <3>2. {b \in Bursts : fwStage'[b] = "done"} = {b \in Bursts : fwStage[b] = "done"}
      BY <2>5
    <3>3. CASE i = 1
      <4>1. fwLog'[i].by = c /\ fwLog'[i].simulated = FALSE /\ c \notin Bursts
        BY <1>0, <2>1, <2>3, <3>3
      <4>2. QED
        BY <2>1, <3>1, <3>3, <4>1
    <3>4. CASE i # 1
      <4>1. fwLog'[i] = fwLog[i - 1] /\ i - 1 \in 1..Len(fwLog)
        BY <1>0, <2>3, <3>4
      <4>2. /\ fwLog[i - 1].simulated
                 <=> fwLog[i - 1].by \in {b \in Bursts : fwStage[b] = "done"}
            /\ \A b \in Bursts : fwMade[b] < BurstSize => fwLog[i - 1].by # b
        BY <1>0, <1>1, <3>1, <4>1
      <4>3. QED
        BY <1>0, <2>1, <3>1, <3>2, <4>1, <4>2
    <3>5. QED
      BY <3>3, <3>4
  <2>7. /\ fwStats' \in [total : Nat, blocked : Nat, anomalies : Nat]
        /\ fwStats'.total = Cardinality(Tickets')
        /\ fwStats'.blocked <= fwStats'.anomalies /\ fwStats'.anomalies <= fwStats'.total
        /\ Len(fwLog') = IF fwStats'.total < LogCap THEN fwStats'.total ELSE LogCap
    BY <2>2, <2>3, <2>4, OneMoreIsCounted
  <2>8. /\ fwStage' \in [Callers -> {"idle", "looking", "done"}] /\ fwMet' \subseteq Bursts
        /\ \A b \in Bursts : fwStage'[b] = "done" <=> fwMade'[b] = BurstSize
    BY <1>0, <2>1, <2>5
  <2>9. QED
    BY <1>0, <2>1, <2>3, <2>6, <2>7, <2>8 DEF TrafficInv
<1>4. ASSUME NEW b \in Bursts, BurstStores(b) PROVE TrafficInv'
  <2> DEFINE last == fwMade[b] + 1 = BurstSize
  <2>1. /\ fwStage[b] = "looking"
        /\ fwMade' = [fwMade EXCEPT ![b] = fwMade[b] + 1]
        /\ fwMet' = fwMet \cup {c \in Bursts \ {b} : fwMade[c] \in 1..(BurstSize - 1)}
    BY <1>4 DEF BurstStores
  <2>2. PICK action \in Actions : fwStats' = Counts(action)
    BY <1>4 DEF BurstStores
  <2>3. /\ fwMade[b] \in 0..(BurstSize - 1) /\ fwMade' \in [Bursts -> 0..BurstSize]
        /\ fwMade'[b] = fwMade[b] + 1 /\ \A c \in Bursts \ {b} : fwMade'[c] = fwMade[c]
    BY <1>0, <2>1
  <2>4. /\ fwLog' = IF last THEN Tagged(Stores(b)) ELSE Stores(b)
        /\ fwStage' = IF last THEN [fwStage EXCEPT ![b] = "done"] ELSE fwStage
    BY <1>4, <2>3 DEF BurstStores
  <2>5. /\ Stores(b) \in Seq(LogEntry) /\ DOMAIN Stores(b) = 1..Len(Stores(b))
        /\ Len(Stores(b)) = IF Len(fwLog) < LogCap THEN Len(fwLog) + 1 ELSE LogCap
        /\ \A i \in 1..Len(Stores(b)) :
             Stores(b)[i] = IF i = 1 THEN [by |-> b, simulated |-> FALSE] ELSE fwLog[i - 1]
    BY <1>0, StoredInFront
  <2>6. /\ fwLog' \in Seq(LogEntry) /\ DOMAIN fwLog' = 1..Len(fwLog')
        /\ Len(fwLog') = Len(Stores(b))
        /\ \A i \in 1..Len(fwLog') :
             /\ fwLog'[i].by = Stores(b)[i].by
             /\ fwLog'[i].simulated = IF last /\ i <= BurstSize THEN TRUE
                                      ELSE Stores(b)[i].simulated
    <3>1. CASE last
      <4>1. fwLog' = [i \in 1..Len(Stores(b)) |->
                        IF i <= BurstSize THEN [Stores(b)[i] EXCEPT !.simulated = TRUE]
                                          ELSE Stores(b)[i]]
        BY <2>4, <2>5, <3>1 DEF Tagged
      <4>2. \A i \in 1..Len(Stores(b)) : Stores(b)[i] \in LogEntry
        BY <2>5
      <4>3. \A i \in 1..Len(Stores(b)) :
              /\ fwLog'[i] \in LogEntry
              /\ fwLog'[i].by = Stores(b)[i].by
              /\ fwLog'[i].simulated = IF i <= BurstSize THEN TRUE ELSE Stores(b)[i].simulated
        BY <4>1, <4>2 DEF LogEntry
      <4>4. Len(Stores(b)) \in Nat
        BY <2>5
      <4>5. fwLog' \in Seq(LogEntry) /\ Len(fwLog') = Len(Stores(b))
        BY <4>1, <4>3, <4>4
      <4>6. DOMAIN fwLog' = 1..Len(fwLog')
        BY <4>5
      <4>7. \A i \in 1..Len(fwLog') :
              /\ fwLog'[i].by = Stores(b)[i].by
              /\ fwLog'[i].simulated = IF last /\ i <= BurstSize THEN TRUE
                                       ELSE Stores(b)[i].simulated
        <5> HIDE DEF last
        <5>1. QED
          BY <3>1, <4>3, <4>5
      <4>8. QED
        BY <4>5, <4>6, <4>7
    <3>2. CASE ~last
      BY <2>4, <2>5, <3>2
    <3>3. QED
      BY <3>1, <3>2
  <2>7. /\ <<b, fwMade[b] + 1>> \in AllTickets /\ <<b, fwMade[b] + 1>> \notin Tickets
        /\ Tickets' = Tickets \cup {<<b, fwMade[b] + 1>>}
    <3>1. <<b, fwMade[b] + 1>> \in AllTickets /\ <<b, fwMade[b] + 1>> \notin Tickets
      BY <1>0, <2>3 DEF AllTickets, Tickets
    <3>2. \A i \in Inspections : fwStage'[i] = fwStage[i]
      BY <1>0, <2>4
    <3>3. {t \in Bursts \X (1..BurstSize) : t[2] <= fwMade'[t[1]]}
            = {t \in Bursts \X (1..BurstSize) : t[2] <= fwMade[t[1]]}
                \cup {<<b, fwMade[b] + 1>>}
      BY <1>0, <2>3
    <3>4. QED
      BY <3>1, <3>2, <3>3 DEF Tickets
  <2>8. /\ fwStage' \in [Callers -> {"idle", "looking", "done"}] /\ fwMet' \subseteq Bursts
        /\ \A c \in Bursts : fwStage'[c] = "done" <=> fwMade'[c] = BurstSize
    BY <1>0, <2>1, <2>3, <2>4
  <2>9. ASSUME fwMet' = {}, NEW i \in 1..Len(fwLog')
        PROVE  /\ fwLog'[i].simulated <=> fwLog'[i].by \in {c \in Bursts : fwStage'[c] = "done"}
               /\ \A c \in Bursts : fwMade'[c] < BurstSize =>
                    (fwLog'[i].by = c <=> i <= fwMade'[c])
    <3>1. /\ fwMet = {}
          /\ \A c \in Bursts \ {b} : fwMade[c] < BurstSize => fwMade[c] = 0
      BY <1>0, <2>1, <2>9, SMTT(30)
    <3>2. i # 1 => i - 1 \in 1..Len(fwLog)
      BY <1>0, <2>5, <2>6
    <3>3. i # 1 => /\ fwLog[i - 1].by = b <=> i <= fwMade'[b]
                   /\ \A c \in Bursts \ {b} : fwMade[c] < BurstSize => fwLog[i - 1].by # c
                   /\ fwLog[i - 1].simulated
                        <=> fwLog[i - 1].by \in {c \in Bursts : fwStage[c] = "done"}
      <4> SUFFICES ASSUME i # 1
                   PROVE  /\ fwLog[i - 1].by = b <=> i <= fwMade'[b]
                          /\ \A c \in Bursts \ {b} : fwMade[c] < BurstSize => fwLog[i - 1].by # c
                          /\ fwLog[i - 1].simulated
                               <=> fwLog[i - 1].by \in {c \in Bursts : fwStage[c] = "done"}
        OBVIOUS
      <4>1. i - 1 \in 1..Len(fwLog) /\ fwMade[b] < BurstSize /\ BurstSize \in Nat
        BY <1>0, <2>3, <3>2
      <4>2. /\ fwLog[i - 1].simulated
                 <=> fwLog[i - 1].by \in {c \in Bursts : fwStage[c] = "done"}
            /\ \A c \in Bursts : fwMade[c] < BurstSize =>
                 (fwLog[i - 1].by = c <=> i - 1 <= fwMade[c])
        BY <1>1, <3>1, <4>1
      <4>3. \A c \in Bursts \ {b} : fwMade[c] < BurstSize => fwLog[i - 1].by # c
        BY <3>1, <4>1, <4>2
      <4>4. fwLog[i - 1].by = b <=> i <= fwMade'[b]
        BY <2>3, <4>1, <4>2
      <4>5. QED
        BY <4>2, <4>3, <4>4
    <3>4. /\ Stores(b)[i].by = IF i = 1 THEN b ELSE fwLog[i - 1].by
          /\ Stores(b)[i].simulated = IF i = 1 THEN FALSE ELSE fwLog[i - 1].simulated
      <4>1. i \in 1..Len(Stores(b))
        BY <2>6
      <4>2. Stores(b)[i] = IF i = 1 THEN [by |-> b, simulated |-> FALSE] ELSE fwLog[i - 1]
        BY <2>5, <4>1
      <4>3. CASE i = 1
        BY <4>2, <4>3
      <4>4. CASE i # 1
        BY <4>2, <4>4
      <4>5. QED
        BY <4>3, <4>4
    <3>5. fwLog'[i].by = IF i = 1 THEN b ELSE fwLog[i - 1].by
      BY <2>6, <3>4
    <3>6. fwLog'[i].by = b <=> i <= fwMade'[b]
      BY <2>3, <3>3, <3>5
    <3>7. \A c \in Bursts \ {b} : fwMade'[c] < BurstSize =>
            (fwLog'[i].by = c <=> i <= fwMade'[c])
      BY <2>3, <3>1, <3>3, <3>5
    <3>8. fwLog'[i].simulated = IF last /\ i <= BurstSize THEN TRUE
                                ELSE IF i = 1 THEN FALSE ELSE fwLog[i - 1].simulated
      <4> HIDE DEF last
      <4>1. QED
        BY <2>6, <3>4
    <3>9. fwLog'[i].simulated <=> fwLog'[i].by \in {c \in Bursts : fwStage'[c] = "done"}
      <4>1. CASE last
        <5>1. fwMade'[b] = BurstSize /\ fwStage'[b] = "done"
              /\ \A c \in Bursts \ {b} : fwStage'[c] = fwStage[c]
          BY <1>0, <2>3, <2>4, <4>1
        <5>2. CASE i <= BurstSize
          BY <3>6, <3>8, <4>1, <5>1, <5>2
        <5>3. CASE ~(i <= BurstSize)
          <6>1. i # 1 /\ fwLog'[i].by # b
            BY <1>0, <3>6, <5>1, <5>3
          <6>2. QED
            BY <3>3, <3>5, <3>8, <5>1, <5>3, <6>1
        <5>4. QED
          BY <5>2, <5>3
      <4>2. CASE ~last
        <5>1. fwStage'[b] # "done" /\ \A c \in Bursts : fwStage'[c] = fwStage[c]
          BY <2>1, <2>4, <4>2
        <5>2. CASE i = 1
          BY <3>5, <3>8, <4>2, <5>1, <5>2
        <5>3. CASE i # 1
          BY <3>3, <3>5, <3>8, <4>2, <5>1, <5>3
        <5>4. QED
          BY <5>2, <5>3
      <4>3. QED
        BY <4>1, <4>2
    <3>10. QED
      BY <3>6, <3>7, <3>9
  <2>10. /\ fwStats' \in [total : Nat, blocked : Nat, anomalies : Nat]
         /\ fwStats'.total = Cardinality(Tickets')
         /\ fwStats'.blocked <= fwStats'.anomalies /\ fwStats'.anomalies <= fwStats'.total
         /\ Len(fwLog') = IF fwStats'.total < LogCap THEN fwStats'.total ELSE LogCap
    BY <2>2, <2>5, <2>6, <2>7, OneMoreIsCounted
  <2>11. QED
    BY <2>3, <2>6, <2>8, <2>9, <2>10 DEF TrafficInv
<1>5. CASE UNCHANGED trafficVars
  BY <1>5 DEF trafficVars, TrafficInv, Tickets
<1>6. QED
  BY <1>2, <1>3, <1>4, <1>5 DEF TrafficNext

\* The counters and the length of the log are those of what was stored, and the marks
\* are those of the bursts that are done as long as none was interrupted, for any
\* requests, bursts, length of a burst and cap of the log.
THEOREM MarksStayExact == TrafficSpec => [](TrafficTypeOK /\ MarksAreExact)
<1>1. TrafficInit => TrafficInv
  <2> SUFFICES ASSUME TrafficInit PROVE TrafficInv
    OBVIOUS
  <2>1. /\ fwLog = <<>> /\ fwMade = [b \in Bursts |-> 0] /\ fwMet = {}
        /\ fwStage = [c \in Callers |-> "idle"]
        /\ fwStats = [total |-> 0, blocked |-> 0, anomalies |-> 0]
    BY DEF TrafficInit
  <2>2. Tickets = {} /\ Cardinality({}) = 0
    BY <2>1, FS_EmptySet DEF Tickets, Callers
  <2>3. QED
    BY <2>1, <2>2, TrafficAssumption DEF TrafficInv, Callers
<1>2. TrafficInv => TrafficTypeOK /\ MarksAreExact
  <2> SUFFICES ASSUME TrafficInv PROVE TrafficTypeOK /\ MarksAreExact
    OBVIOUS
  <2>1. Cardinality(Tickets) \in 0..Stored
    <3>1. Tickets \in SUBSET AllTickets
      BY DEF Tickets, AllTickets
    <3>2. QED
      BY <3>1, TicketsAreCounted
  <2>2. Stored \in Nat
    BY TicketsAreCounted, FS_CardinalityType
  <2>3. fwStats \in [total : 0..Stored, blocked : 0..Stored, anomalies : 0..Stored]
    BY <2>1, <2>2 DEF TrafficInv
  <2>4. fwLog \in UNION {[1..n -> LogEntry] : n \in 0..LogCap}
    <3>1. fwLog \in [1..Len(fwLog) -> LogEntry] /\ Len(fwLog) \in 0..LogCap
      BY <2>1, <2>2, TrafficAssumption DEF TrafficInv
    <3>2. QED
      BY <3>1
  <2>5. QED
    BY <2>3, <2>4 DEF TrafficInv, TrafficTypeOK, MarksAreExact
<1>3. QED
  BY <1>1, <1>2, TrafficInvStep, PTL DEF TrafficSpec

-----------------------------------------------------------------------------
(* JsonStores                                                              *)

\* The entry is in the list, behind no more than k others if the list is trimmed; or k
\* is the cap.
Kept(s, e, k) ==
  \/ jsonKind.capped /\ k >= JsonCap
  \/ \E i \in DOMAIN s : s[i].id = e /\ (jsonKind.capped => i <= k + 1)

\* What a worker is about to write keeps the entries it does not put or remove itself,
\* behind one more if it puts one.
KeepsWhat(copy, x, what) ==
  /\ what = "put" => Kept(copy, x, 0)
  /\ \A e \in DOMAIN jsonNewer :
       \/ e = x /\ what # "update"
       \/ Kept(copy, e, jsonNewer[e] + IF what = "put" THEN 1 ELSE 0)

Saves(w) ==
  \E x \in Entries, what \in {"put", "update", "remove"} :
    jsonOn[w] = {<<x, what>>} /\ KeepsWhat(jsonCopy[w], x, what)

\* The file and every copy keep what was stored alone, so that whichever is written last
\* does.
JsonInv ==
  /\ JsonTypeOK
  /\ jsonFile # TornFile => \A e \in DOMAIN jsonNewer : Kept(jsonFile, e, jsonNewer[e])
  /\ \A w \in jsonClear : Others(w) = {}
  /\ \A w \in JsonWorkers : jsonStage[w] # "idle" => Saves(w)

LEMMA KindsAreSound ==
  ASSUME jsonKind \in Kinds
  PROVE  jsonKind.capped \in BOOLEAN /\ (jsonKind.capped => jsonKind.newest = "first")
<1>1. Predictions.capped = TRUE /\ Predictions.newest = "first"
  BY DEF Predictions
<1>2. Engagements.capped = TRUE /\ Engagements.newest = "first"
  BY DEF Engagements
<1>3. Profiles.capped = FALSE
  BY DEF Profiles
<1>4. Patterns.capped = TRUE /\ Patterns.newest = "first"
  BY DEF Patterns
<1>5. Sessions.capped = TRUE /\ Sessions.newest = "first"
  BY DEF Sessions
<1>6. Targets.capped = FALSE
  BY DEF Targets
<1>7. Intelligence.capped = TRUE /\ Intelligence.newest = "first"
  BY DEF Intelligence
<1>8. Detections.capped = TRUE /\ Detections.newest = "first"
  BY DEF Detections
<1>9. Submissions.capped = TRUE /\ Submissions.newest = "first"
  BY DEF Submissions
<1>10. QED
  BY <1>1, <1>2, <1>3, <1>4, <1>5, <1>6, <1>7, <1>8, <1>9 DEF Kinds

\* Either the entry is not there, or those behind it move up by one.
LEMMA WithoutMovesUp ==
  ASSUME NEW s \in Seq(Entry), NEW x \in Entries
  PROVE  \/ x \notin Ids(s) /\ Without(s, x) = s
         \/ \E p \in 1..Len(s) :
              /\ s[p].id = x
              /\ Without(s, x) \in Seq(Entry)
              /\ Len(Without(s, x)) = Len(s) - 1
              /\ \A i \in 1..(Len(s) - 1) :
                   Without(s, x)[i] = IF i < p THEN s[i] ELSE s[i + 1]
<1>1. CASE x \notin Ids(s)
  BY <1>1 DEF Without
<1>2. CASE x \in Ids(s)
  <2> DEFINE p == CHOOSE i \in DOMAIN s : s[i].id = x
             a == SubSeq(s, 1, p - 1)
             b == SubSeq(s, p + 1, Len(s))
  <2>1. p \in DOMAIN s /\ s[p].id = x
    BY <1>2 DEF Ids
  <2>2. p \in 1..Len(s) /\ Len(s) \in Nat
    BY <2>1
  <2>3. Without(s, x) = a \o b
    BY <1>2 DEF Without
  <2> HIDE DEF p
  <2>4. /\ a \in Seq(Entry) /\ Len(a) = p - 1
        /\ \A i \in 1..(p - 1) : a[i] = s[i]
    BY <2>2
  <2>5. /\ b \in Seq(Entry) /\ Len(b) = Len(s) - p
        /\ \A i \in 1..(Len(s) - p) : b[i] = s[p + i]
    BY <2>2
  <2> HIDE DEF a, b
  <2>6. a \o b \in Seq(Entry) /\ Len(a \o b) = Len(s) - 1
    <3>1. a \o b \in Seq(Entry) /\ Len(a \o b) = Len(a) + Len(b)
      BY <2>4, <2>5, ConcatProperties
    <3>2. QED
      BY <2>2, <2>4, <2>5, <3>1
  <2>7. ASSUME NEW i \in 1..(Len(s) - 1)
        PROVE  (a \o b)[i] = IF i < p THEN s[i] ELSE s[i + 1]
    <3>1. CASE i < p
      BY <2>2, <2>4, <2>5, <3>1
    <3>2. CASE ~(i < p)
      <4>1. i - (p - 1) \in 1..(Len(s) - p) /\ p + (i - (p - 1)) = i + 1
        BY <2>2, <3>2
      <4>2. (a \o b)[i] = b[i - (p - 1)]
        BY <2>2, <2>4, <2>5, <3>2
      <4>3. QED
        BY <2>5, <3>2, <4>1, <4>2
    <3>3. QED
      BY <3>1, <3>2
  <2>8. QED
    BY <2>1, <2>2, <2>3, <2>6, <2>7
<1>3. QED
  BY <1>1, <1>2

LEMMA WithoutKeeps ==
  ASSUME NEW s \in Seq(Entry), OnceEach(s), NEW x \in Entries
  PROVE  /\ Without(s, x) \in Seq(Entry) /\ OnceEach(Without(s, x))
         /\ x \notin Ids(Without(s, x))
         /\ \A i \in DOMAIN s : s[i].id # x =>
              \E j \in DOMAIN Without(s, x) : j <= i /\ Without(s, x)[j].id = s[i].id
<1> DEFINE t == Without(s, x)
<1>1. DOMAIN s = 1..Len(s) /\ Len(s) \in Nat
  OBVIOUS
<1>2. CASE x \notin Ids(s) /\ t = s
  BY <1>1, <1>2
<1>3. ASSUME NEW p \in 1..Len(s), s[p].id = x, t \in Seq(Entry), Len(t) = Len(s) - 1,
             \A i \in 1..(Len(s) - 1) : t[i] = IF i < p THEN s[i] ELSE s[i + 1]
      PROVE  /\ OnceEach(t) /\ x \notin Ids(t)
             /\ \A i \in DOMAIN s : s[i].id # x =>
                  \E j \in DOMAIN t : j <= i /\ t[j].id = s[i].id
  <2> HIDE DEF t
  <2>1. DOMAIN t = 1..(Len(s) - 1)
    BY <1>3
  <2>2. \A i, j \in 1..Len(s) : s[i].id = s[j].id => i = j
    BY <1>1 DEF OnceEach
  <2>3. \A i \in 1..(Len(s) - 1) : \E k \in 1..Len(s) :
          t[i] = s[k] /\ k # p /\ (i < p => k = i) /\ (i >= p => k = i + 1)
    BY <1>1, <1>3
  <2>4. OnceEach(t)
    BY <1>1, <2>1, <2>2, <2>3, SMTT(30) DEF OnceEach
  <2>5. x \notin Ids(t)
    BY <1>3, <2>1, <2>2, <2>3 DEF Ids
  <2>6. ASSUME NEW i \in 1..Len(s), s[i].id # x
        PROVE  \E j \in DOMAIN t : j <= i /\ t[j].id = s[i].id
    <3>1. CASE i < p
      BY <1>1, <1>3, <2>1, <3>1
    <3>2. CASE i > p
      <4>1. i - 1 \in 1..(Len(s) - 1) /\ ~(i - 1 < p) /\ (i - 1) + 1 = i
        BY <1>1, <3>2
      <4>2. t[i - 1] = s[i]
        BY <1>3, <4>1
      <4>3. QED
        BY <2>1, <4>1, <4>2
    <3>3. QED
      BY <1>3, <2>6, <3>1, <3>2
  <2>7. QED
    BY <1>1, <2>4, <2>5, <2>6
<1>4. QED
  BY <1>2, <1>3, WithoutMovesUp

\* Trimming keeps the front.
LEMMA TrimmedKeeps ==
  ASSUME NEW s \in Seq(Entry), OnceEach(s), jsonKind \in Kinds
  PROVE  /\ Trimmed(s) \in Seq(Entry) /\ OnceEach(Trimmed(s))
         /\ \A i \in DOMAIN s : ~jsonKind.capped \/ i <= JsonCap =>
              i \in DOMAIN Trimmed(s) /\ Trimmed(s)[i] = s[i]
<1>1. DOMAIN s = 1..Len(s) /\ Len(s) \in Nat /\ JsonCap \in Nat
      /\ jsonKind.capped \in BOOLEAN
  BY JsonAssumption, KindsAreSound
<1>2. CASE jsonKind.capped /\ Len(s) > JsonCap
  <2>1. Trimmed(s) = SubSeq(s, 1, JsonCap)
    BY <1>2 DEF Trimmed
  <2>2. /\ SubSeq(s, 1, JsonCap) \in Seq(Entry)
        /\ DOMAIN SubSeq(s, 1, JsonCap) = 1..JsonCap
        /\ \A i \in 1..JsonCap : SubSeq(s, 1, JsonCap)[i] = s[i]
    BY <1>1, <1>2
  <2>3. 1..JsonCap \subseteq DOMAIN s
    BY <1>1, <1>2
  <2>4. OnceEach(Trimmed(s))
    BY <2>1, <2>2, <2>3 DEF OnceEach
  <2>5. QED
    BY <1>1, <1>2, <2>1, <2>2, <2>4
<1>3. CASE ~(jsonKind.capped /\ Len(s) > JsonCap)
  BY <1>1, <1>3 DEF Trimmed
<1>4. QED
  BY <1>2, <1>3

\* What is put is kept with none before it, everything else with one more.
LEMMA PutKeeps ==
  ASSUME NEW s \in Seq(Entry), OnceEach(s), jsonKind \in Kinds, NEW x \in Entries
  PROVE  /\ Put(s, x) \in Seq(Entry) /\ OnceEach(Put(s, x))
         /\ Kept(Put(s, x), x, 0)
         /\ \A e \in Entries \ {x}, k \in Nat : Kept(s, e, k) => Kept(Put(s, x), e, k + 1)
<1> DEFINE new == [id |-> x, updated |-> FALSE]
           t == Without(s, x)
           first == <<new>> \o t
           last == t \o <<new>>
<1>1. /\ t \in Seq(Entry) /\ OnceEach(t) /\ x \notin Ids(t)
      /\ \A i \in DOMAIN s : s[i].id # x =>
           \E j \in DOMAIN t : j <= i /\ t[j].id = s[i].id
  BY WithoutKeeps
<1>2. new \in Entry /\ new.id = x
  BY DEF Entry
<1>3. /\ JsonCap \in Nat \ {0} /\ jsonKind.capped \in BOOLEAN
      /\ jsonKind.capped => jsonKind.newest = "first"
  BY JsonAssumption, KindsAreSound
<1>4. Put(s, x) = Trimmed(IF jsonKind.newest = "first" THEN first ELSE last)
  BY DEF Put
<1> HIDE DEF new, t
<1>5. Len(t) \in Nat /\ DOMAIN t = 1..Len(t) /\ \A j \in 1..Len(t) : t[j].id # x
  BY <1>1 DEF Ids
<1>6. CASE jsonKind.newest = "first"
  <2>1. /\ first \in Seq(Entry) /\ DOMAIN first = 1..(Len(t) + 1)
        /\ \A i \in 1..(Len(t) + 1) : first[i] = IF i = 1 THEN new ELSE t[i - 1]
    BY <1>1, <1>2, <1>5
  <2> HIDE DEF first
  <2>2. \A j \in 1..Len(t) : j + 1 \in 1..(Len(t) + 1) /\ first[j + 1] = t[j]
    BY <1>5, <2>1
  <2>3. OnceEach(first)
    <3> SUFFICES ASSUME NEW i \in 1..(Len(t) + 1), NEW j \in 1..(Len(t) + 1),
                        first[i].id = first[j].id
                 PROVE  i = j
      BY <2>1 DEF OnceEach
    <3>1. \A n \in 1..(Len(t) + 1) : n # 1 => n - 1 \in 1..Len(t) /\ first[n] = t[n - 1]
      BY <1>5, <2>1
    <3>2. \A n \in 1..(Len(t) + 1) : first[n].id = x <=> n = 1
      BY <1>2, <1>5, <2>1, <3>1
    <3>3. CASE i = 1 \/ j = 1
      BY <3>2, <3>3
    <3>4. CASE i # 1 /\ j # 1
      <4>1. i - 1 = j - 1
        BY <1>1, <1>5, <3>1, <3>4 DEF OnceEach
      <4>2. QED
        BY <4>1
    <3>5. QED
      BY <3>3, <3>4
  <2>4. /\ Put(s, x) = Trimmed(first) /\ Trimmed(first) \in Seq(Entry)
        /\ OnceEach(Trimmed(first))
        /\ \A i \in 1..(Len(t) + 1) : ~jsonKind.capped \/ i <= JsonCap =>
             i \in DOMAIN Trimmed(first) /\ Trimmed(first)[i] = first[i]
    BY <1>4, <1>6, <2>1, <2>3, TrimmedKeeps
  <2>5. Kept(Put(s, x), x, 0)
    <3>1. 1 \in 1..(Len(t) + 1) /\ 1 <= JsonCap /\ first[1].id = x
      BY <1>2, <1>3, <1>5, <2>1
    <3>2. 1 \in DOMAIN Put(s, x) /\ Put(s, x)[1].id = x
      BY <2>4, <3>1
    <3>3. QED
      BY <3>2 DEF Kept
  <2>6. ASSUME NEW e \in Entries \ {x}, NEW k \in Nat, Kept(s, e, k)
        PROVE  Kept(Put(s, x), e, k + 1)
    <3>1. CASE jsonKind.capped /\ k + 1 >= JsonCap
      BY <3>1 DEF Kept
    <3>2. CASE ~(jsonKind.capped /\ k + 1 >= JsonCap)
      <4>1. PICK i \in DOMAIN s : s[i].id = e /\ (jsonKind.capped => i <= k + 1)
        BY <1>3, <2>6, <3>2 DEF Kept
      <4>2. PICK j \in DOMAIN t : j <= i /\ t[j].id = s[i].id
        BY <1>1, <4>1
      <4>3. /\ j + 1 \in 1..(Len(t) + 1) /\ first[j + 1].id = e
            /\ jsonKind.capped => j + 1 <= (k + 1) + 1 /\ j + 1 <= JsonCap
        BY <1>3, <1>5, <2>2, <3>2, <4>1, <4>2
      <4>4. j + 1 \in DOMAIN Put(s, x) /\ Put(s, x)[j + 1].id = e
        BY <1>3, <2>4, <4>3
      <4>5. QED
        BY <4>3, <4>4 DEF Kept
    <3>3. QED
      BY <3>1, <3>2
  <2>7. QED
    BY <2>4, <2>5, <2>6
<1>7. CASE jsonKind.newest # "first"
  <2>1. /\ last \in Seq(Entry) /\ DOMAIN last = 1..(Len(t) + 1)
        /\ \A i \in 1..Len(t) : last[i] = t[i]
        /\ last[Len(t) + 1] = new
    BY <1>1, <1>2, <1>5
  <2> HIDE DEF last
  <2>2. OnceEach(last)
    <3> SUFFICES ASSUME NEW i \in 1..(Len(t) + 1), NEW j \in 1..(Len(t) + 1),
                        last[i].id = last[j].id
                 PROVE  i = j
      BY <2>1 DEF OnceEach
    <3>1. \A n \in 1..(Len(t) + 1) : n # Len(t) + 1 => n \in 1..Len(t)
      BY <1>5
    <3>2. \A n \in 1..(Len(t) + 1) : last[n].id = x <=> n = Len(t) + 1
      BY <1>2, <1>5, <2>1, <3>1
    <3>3. CASE i = Len(t) + 1 \/ j = Len(t) + 1
      BY <1>5, <3>2, <3>3
    <3>4. CASE i # Len(t) + 1 /\ j # Len(t) + 1
      BY <1>1, <1>5, <2>1, <3>1, <3>4, SMTT(30) DEF OnceEach
    <3>5. QED
      BY <3>3, <3>4
  <2>3. ~jsonKind.capped /\ Put(s, x) = last
    BY <1>3, <1>4, <1>7 DEF Trimmed
  <2>4. Kept(Put(s, x), x, 0)
    BY <1>2, <1>5, <2>1, <2>3 DEF Kept
  <2>5. ASSUME NEW e \in Entries \ {x}, NEW k \in Nat, Kept(s, e, k)
        PROVE  Kept(Put(s, x), e, k + 1)
    <3>1. PICK i \in DOMAIN s : s[i].id = e
      BY <2>3, <2>5 DEF Kept
    <3>2. PICK j \in DOMAIN t : t[j].id = e
      BY <1>1, <3>1
    <3>3. j \in DOMAIN last /\ last[j].id = e
      BY <1>5, <2>1, <3>2
    <3>4. QED
      BY <2>3, <3>3 DEF Kept
  <2>6. QED
    BY <2>1, <2>2, <2>3, <2>4, <2>5
<1>8. QED
  BY <1>6, <1>7

\* A larger count claims less.
LEMMA KeptForMore ==
  ASSUME NEW s, NEW e, NEW k \in Nat, NEW m \in Nat, k <= m, Kept(s, e, k),
         \A i \in DOMAIN s : i \in Nat
  PROVE  Kept(s, e, m)
BY JsonAssumption DEF Kept

LEMMA UpdatedKeeps ==
  ASSUME NEW s \in Seq(Entry), OnceEach(s), NEW x \in Entries
  PROVE  /\ Updated(s, x) \in Seq(Entry) /\ OnceEach(Updated(s, x))
         /\ \A e, k : Kept(s, e, k) => Kept(Updated(s, x), e, k)
<1> DEFINE t == Updated(s, x)
<1>1. DOMAIN s = 1..Len(s) /\ Len(s) \in Nat /\ \A i \in DOMAIN s : s[i] \in Entry
  OBVIOUS
<1>2. DOMAIN t = DOMAIN s /\ t = [i \in 1..Len(s) |-> t[i]]
  BY <1>1 DEF Updated
<1>3. \A i \in DOMAIN s : t[i].id = s[i].id /\ t[i] \in Entry
  BY <1>1 DEF Updated, Entry
<1> HIDE DEF t
<1>4. t \in Seq(Entry)
  BY <1>1, <1>2, <1>3
<1>5. OnceEach(t)
  BY <1>2, <1>3 DEF OnceEach
<1>6. \A e, k : Kept(s, e, k) => Kept(t, e, k)
  BY <1>2, <1>3 DEF Kept
<1>7. QED
  BY <1>4, <1>5, <1>6 DEF t

\* What a file that can be read offers, once what a torn one forgets is forgotten.
LEMMA LoadedIsSound ==
  ASSUME JsonInv, NEW newer,
         newer = IF jsonFile = TornFile THEN [x \in {} |-> 0] ELSE jsonNewer
  PROVE  /\ Loaded \in Seq(Entry) /\ OnceEach(Loaded)
         /\ \A e \in DOMAIN newer : e \in Entries /\ newer[e] \in 0..JsonCap
                                    /\ Kept(Loaded, e, newer[e])
<1>1. CASE jsonFile = TornFile
  <2>1. Loaded = <<>> /\ DOMAIN newer = {}
    BY <1>1 DEF Loaded
  <2>2. QED
    BY <2>1 DEF OnceEach
<1>2. CASE jsonFile # TornFile
  BY <1>2 DEF JsonInv, JsonTypeOK, Loaded
<1>3. QED
  BY <1>1, <1>2

\* Whatever an operation of a store does, it is one of three changes to what it loaded.
LEMMA OneOfThreeChanges ==
  ASSUME NEW w \in JsonWorkers, NEW e \in Entries,
         \/ PredictZeroDays(w, e) \/ CreateEngagement(w, e) \/ LogFinding(w, e)
         \/ RecordEvent(w, e) \/ AnalyzeEvents(w, e) \/ StartAutonomousSimulation(w, e)
         \/ AddTarget(w, e) \/ RemoveTarget(w, e) \/ RecordScan(w, e)
         \/ CheckDomainBreach(w, e) \/ ScanPasteContent(w, e) \/ AddKeywordAlert(w, e)
         \/ AddDetection(w, e) \/ SubmitIoc(w, e)
  PROVE  \/ Changes(w, e, "put", Put(Loaded, e))
         \/ Changes(w, e, "update", Updated(Loaded, e))
         \/ Changes(w, e, "remove", Without(Loaded, e))
BY DEF PredictZeroDays, CreateEngagement, LogFinding, RecordEvent, AnalyzeEvents,
       StartAutonomousSimulation, AddTarget, RemoveTarget, RecordScan, CheckDomainBreach,
       ScanPasteContent, AddKeywordAlert, AddDetection, SubmitIoc, Adds

\* The copy of such an operation keeps what the file did.
LEMMA ChangesKeepWhat ==
  ASSUME JsonInv, NEW w \in JsonWorkers, NEW x \in Entries, NEW what, NEW copy,
         Changes(w, x, what, copy),
         \/ what = "put" /\ copy = Put(Loaded, x)
         \/ what = "update" /\ copy = Updated(Loaded, x)
         \/ what = "remove" /\ copy = Without(Loaded, x)
  PROVE  copy \in Seq(Entry) /\ OnceEach(copy) /\ KeepsWhat(copy, x, what)'
<1>1. /\ jsonKind \in Kinds /\ jsonKind' = jsonKind
      /\ jsonNewer' = IF jsonFile = TornFile THEN [e \in {} |-> 0] ELSE jsonNewer
  BY DEF Changes, JsonInv, JsonTypeOK
<1>2. /\ Loaded \in Seq(Entry) /\ OnceEach(Loaded)
      /\ \A e \in DOMAIN jsonNewer' : /\ e \in Entries /\ jsonNewer'[e] \in 0..JsonCap
                                      /\ Kept(Loaded, e, jsonNewer'[e])
  BY <1>1, LoadedIsSound
<1>3. JsonCap \in Nat /\ \A n \in 0..JsonCap : n \in Nat /\ n + 0 = n
  BY JsonAssumption
<1>4. \A e, k : Kept(copy, e, k)' <=> Kept(copy, e, k)
  BY <1>1 DEF Kept
<1>5. CASE what = "put" /\ copy = Put(Loaded, x)
  <2>1. /\ copy \in Seq(Entry) /\ OnceEach(copy) /\ Kept(copy, x, 0)
        /\ \A e \in Entries \ {x}, k \in Nat : Kept(Loaded, e, k) => Kept(copy, e, k + 1)
    BY <1>1, <1>2, <1>5, PutKeeps
  <2>2. \A e \in DOMAIN jsonNewer' : e = x \/ Kept(copy, e, jsonNewer'[e] + 1)
    BY <1>2, <1>3, <2>1
  <2>3. QED
    BY <1>1, <1>5, <2>1, <2>2 DEF KeepsWhat, Kept
<1>6. CASE what = "update" /\ copy = Updated(Loaded, x)
  <2>1. /\ copy \in Seq(Entry) /\ OnceEach(copy)
        /\ \A e, k : Kept(Loaded, e, k) => Kept(copy, e, k)
    BY <1>2, <1>6, UpdatedKeeps
  <2>2. \A e \in DOMAIN jsonNewer' : Kept(copy, e, jsonNewer'[e] + 0)
    BY <1>2, <1>3, <2>1
  <2>3. QED
    BY <1>1, <1>6, <2>1, <2>2 DEF KeepsWhat, Kept
<1>7. CASE what = "remove" /\ copy = Without(Loaded, x)
  <2>1. /\ copy \in Seq(Entry) /\ OnceEach(copy)
        /\ \A i \in DOMAIN Loaded : Loaded[i].id # x =>
             \E j \in DOMAIN copy : j <= i /\ copy[j].id = Loaded[i].id
    BY <1>2, <1>7, WithoutKeeps
  <2>2. ASSUME NEW e \in DOMAIN jsonNewer', e # x
        PROVE  Kept(copy, e, jsonNewer'[e] + 0)
    <3>1. DOMAIN copy \subseteq Nat /\ DOMAIN Loaded \subseteq Nat /\ jsonNewer'[e] \in Nat
          /\ JsonCap \in Nat
      BY <1>2, <1>3, <2>1
    <3>2. Kept(Loaded, e, jsonNewer'[e])
      BY <1>2
    <3>3. Kept(copy, e, jsonNewer'[e])
      BY <2>1, <2>2, <3>1, <3>2 DEF Kept
    <3>4. QED
      BY <3>1, <3>3
  <2>3. QED
    BY <1>1, <1>7, <2>1, <2>2 DEF KeepsWhat, Kept
<1>8. QED
  BY <1>5, <1>6, <1>7

LEMMA ChangesAreSound ==
  ASSUME JsonInv, NEW w \in JsonWorkers, NEW x \in Entries,
         NEW what \in {"put", "update", "remove"}, NEW copy, Changes(w, x, what, copy),
         copy \in Seq(Entry), OnceEach(copy), KeepsWhat(copy, x, what)'
  PROVE  JsonInv'
<1>1. /\ jsonStage[w] = "idle"
      /\ jsonStage' = [jsonStage EXCEPT ![w] = "saving"]
      /\ jsonCopy' = [jsonCopy EXCEPT ![w] = copy]
      /\ jsonOn' = [jsonOn EXCEPT ![w] = {<<x, what>>}]
      /\ jsonClear' = IF Others(w) = {} THEN {w} ELSE {}
      /\ jsonNewer' = IF jsonFile = TornFile THEN [e \in {} |-> 0] ELSE jsonNewer
      /\ UNCHANGED <<jsonKind, jsonFile>>
  BY DEF Changes
<1>2. /\ jsonStage \in [JsonWorkers -> {"idle", "saving", "writing"}]
      /\ jsonCopy \in [JsonWorkers -> Seq(Entry)]
      /\ \A v \in JsonWorkers : OnceEach(jsonCopy[v])
      /\ jsonOn \in [JsonWorkers -> SUBSET (Entries \X {"put", "update", "remove"})]
      /\ jsonClear \subseteq JsonWorkers
      /\ DOMAIN jsonNewer \subseteq Entries
      /\ \A e \in DOMAIN jsonNewer : jsonNewer[e] \in 0..JsonCap
      /\ jsonKind \in Kinds
      /\ jsonFile # TornFile => jsonFile \in Seq(Entry) /\ OnceEach(jsonFile)
  BY DEF JsonInv, JsonTypeOK
<1>3. \A v \in JsonWorkers \ {w} :
        jsonStage'[v] = jsonStage[v] /\ jsonCopy'[v] = jsonCopy[v] /\ jsonOn'[v] = jsonOn[v]
  BY <1>1, <1>2
<1>4. jsonStage'[w] = "saving" /\ jsonCopy'[w] = copy /\ jsonOn'[w] = {<<x, what>>}
  BY <1>1, <1>2
<1>5. JsonTypeOK'
  <2>1. /\ jsonStage' \in [JsonWorkers -> {"idle", "saving", "writing"}]
        /\ jsonCopy' \in [JsonWorkers -> Seq(Entry)]
        /\ jsonOn' \in [JsonWorkers -> SUBSET (Entries \X {"put", "update", "remove"})]
    BY <1>1, <1>2
  <2>2. \A v \in JsonWorkers : OnceEach(jsonCopy'[v])
    BY <1>2, <1>3, <1>4
  <2>3. /\ jsonClear' \subseteq JsonWorkers /\ DOMAIN jsonNewer' \subseteq Entries
        /\ \A e \in DOMAIN jsonNewer' : jsonNewer'[e] \in 0..JsonCap
    BY <1>1, <1>2
  <2>4. jsonKind' \in Kinds
        /\ (jsonFile' # TornFile => jsonFile' \in Seq(Entry) /\ OnceEach(jsonFile'))
    BY <1>1, <1>2
  <2>5. QED
    BY <2>1, <2>2, <2>3, <2>4 DEF JsonTypeOK, OnceEach
<1>6. (jsonFile # TornFile => \A e \in DOMAIN jsonNewer : Kept(jsonFile, e, jsonNewer[e]))'
  BY <1>1 DEF JsonInv, Kept
<1>7. (\A v \in jsonClear : Others(v) = {})'
  BY <1>1, <1>3 DEF Others
<1>8. ASSUME NEW v \in JsonWorkers, jsonStage'[v] # "idle" PROVE Saves(v)'
  <2>1. CASE v = w
    BY <1>4, <2>1 DEF Saves
  <2>2. CASE v # w
    <3>1. PICK y \in Entries, that \in {"put", "update", "remove"} :
            jsonOn[v] = {<<y, that>>} /\ KeepsWhat(jsonCopy[v], y, that)
      BY <1>3, <1>8, <2>2 DEF JsonInv, Saves
    <3>2. KeepsWhat(jsonCopy[v], y, that)'
      BY <1>1, <1>3, <2>2, <3>1 DEF KeepsWhat, Kept
    <3>3. QED
      BY <1>3, <2>2, <3>1, <3>2 DEF Saves
  <2>3. QED
    BY <2>1, <2>2
<1>9. QED
  BY <1>5, <1>6, <1>7, <1>8 DEF JsonInv

\* What is stored alone enters the count at none, what is put counts for the others.
LEMMA WriteKeeps ==
  ASSUME JsonInv, NEW w \in JsonWorkers, Write(w)
  PROVE  JsonInv'
<1>1. /\ jsonStage[w] = "writing"
      /\ jsonFile' = jsonCopy[w]
      /\ jsonStage' = [jsonStage EXCEPT ![w] = "idle"]
      /\ jsonCopy' = [jsonCopy EXCEPT ![w] = <<>>]
      /\ jsonOn' = [jsonOn EXCEPT ![w] = {}]
      /\ jsonClear' = jsonClear \ {w}
      /\ jsonKind' = jsonKind
  BY DEF Write
<1>2. /\ jsonStage \in [JsonWorkers -> {"idle", "saving", "writing"}]
      /\ jsonCopy \in [JsonWorkers -> Seq(Entry)]
      /\ \A v \in JsonWorkers : OnceEach(jsonCopy[v])
      /\ jsonOn \in [JsonWorkers -> SUBSET (Entries \X {"put", "update", "remove"})]
      /\ jsonClear \subseteq JsonWorkers
      /\ DOMAIN jsonNewer \subseteq Entries
      /\ \A e \in DOMAIN jsonNewer : jsonNewer[e] \in 0..JsonCap
      /\ jsonKind \in Kinds /\ jsonKind.capped \in BOOLEAN /\ JsonCap \in Nat
  BY JsonAssumption, KindsAreSound DEF JsonInv, JsonTypeOK
<1>3. PICK x \in Entries, what \in {"put", "update", "remove"} :
        jsonOn[w] = {<<x, what>>} /\ KeepsWhat(jsonCopy[w], x, what)
  BY <1>1 DEF JsonInv, Saves
<1>4. jsonNewer' = Counted(w, x, what)
  BY <1>3 DEF Write
<1> DEFINE left == DOMAIN jsonNewer \ (IF what = "update" THEN {} ELSE {x})
           new == IF what = "put" /\ w \in jsonClear THEN {x} ELSE {}
<1>5. /\ DOMAIN jsonNewer' = left \cup new
      /\ \A e \in new : jsonNewer'[e] = 0
      /\ \A e \in left \ new :
           jsonNewer'[e] = IF what = "put" /\ jsonNewer[e] < JsonCap THEN jsonNewer[e] + 1
                           ELSE jsonNewer[e]
  BY <1>4 DEF Counted
<1>6. /\ new \subseteq {x} /\ left \subseteq DOMAIN jsonNewer
      /\ \A e \in left : ~(e = x /\ what # "update")
      /\ \A e \in new : what = "put" /\ w \in jsonClear
  BY DEF left, new
<1> HIDE DEF left, new
<1>7. \A v \in JsonWorkers \ {w} :
        jsonStage'[v] = jsonStage[v] /\ jsonCopy'[v] = jsonCopy[v] /\ jsonOn'[v] = jsonOn[v]
  BY <1>1, <1>2
<1>8. jsonStage'[w] = "idle" /\ jsonCopy'[w] = <<>>
  BY <1>1, <1>2
<1>9. \A e \in DOMAIN jsonNewer' : e \in Entries /\ jsonNewer'[e] \in 0..JsonCap
  <2>1. \A e \in new : e \in Entries /\ jsonNewer'[e] \in 0..JsonCap
    BY <1>2, <1>5, <1>6
  <2>2. \A e \in left \ new : e \in Entries /\ jsonNewer'[e] \in 0..JsonCap
    BY <1>2, <1>5, <1>6
  <2>3. QED
    BY <1>5, <2>1, <2>2
<1>10. JsonTypeOK'
  <2>1. /\ jsonStage' \in [JsonWorkers -> {"idle", "saving", "writing"}]
        /\ jsonCopy' \in [JsonWorkers -> Seq(Entry)]
        /\ jsonOn' \in [JsonWorkers -> SUBSET (Entries \X {"put", "update", "remove"})]
    BY <1>1, <1>2
  <2>2. \A v \in JsonWorkers : OnceEach(jsonCopy'[v])
    <3>1. \A v \in JsonWorkers \ {w} : OnceEach(jsonCopy'[v])
      BY <1>2, <1>7
    <3>2. OnceEach(<<>>)
      BY DEF OnceEach
    <3>3. QED
      BY <1>8, <3>1, <3>2
  <2>3. jsonFile' \in Seq(Entry) /\ OnceEach(jsonFile')
    BY <1>1, <1>2
  <2>4. jsonClear' \subseteq JsonWorkers /\ jsonKind' \in Kinds
    BY <1>1, <1>2
  <2>5. QED
    BY <1>9, <2>1, <2>2, <2>3, <2>4 DEF JsonTypeOK, OnceEach
<1>11. ASSUME NEW e \in DOMAIN jsonNewer' PROVE Kept(jsonFile', e, jsonNewer'[e])
  <2>1. CASE e \in new
    <3>1. e = x /\ jsonNewer'[e] = 0 /\ Kept(jsonCopy[w], x, 0)
      BY <1>3, <1>5, <1>6, <2>1 DEF KeepsWhat
    <3>2. QED
      BY <1>1, <3>1
  <2>2. CASE e \notin new
    <3>1. e \in left /\ e \in DOMAIN jsonNewer /\ jsonNewer[e] \in 0..JsonCap
      BY <1>2, <1>5, <1>6, <2>2
    <3>2. Kept(jsonCopy[w], e, jsonNewer[e] + IF what = "put" THEN 1 ELSE 0)
      BY <1>3, <1>6, <3>1 DEF KeepsWhat
    <3>3. jsonNewer'[e] = IF what = "put" /\ jsonNewer[e] < JsonCap THEN jsonNewer[e] + 1
                          ELSE jsonNewer[e]
      BY <1>5, <2>2, <3>1
    <3>4. CASE (what = "put" /\ jsonNewer[e] < JsonCap) \/ what # "put"
      <4>1. jsonNewer'[e] = jsonNewer[e] + IF what = "put" THEN 1 ELSE 0
        BY <3>1, <3>3, <3>4
      <4>2. QED
        BY <1>1, <3>2, <4>1
    <3>5. CASE what = "put" /\ ~(jsonNewer[e] < JsonCap)
      <4>1. jsonNewer'[e] = jsonNewer[e] /\ jsonNewer[e] = JsonCap
        BY <1>2, <3>1, <3>3, <3>5
      <4>2. CASE jsonKind.capped
        BY <1>2, <4>1, <4>2 DEF Kept
      <4>3. CASE ~jsonKind.capped
        BY <1>1, <3>2, <4>3 DEF Kept
      <4>4. QED
        BY <4>2, <4>3
    <3>6. QED
      BY <3>4, <3>5
  <2>3. QED
    BY <2>1, <2>2
<1>12. (\A v \in jsonClear : Others(v) = {})'
  <2>1. \A v \in JsonWorkers : Others(v)' \subseteq Others(v)
    BY <1>1, <1>7, <1>8 DEF Others
  <2>2. \A v \in jsonClear : Others(v) = {}
    BY DEF JsonInv
  <2>3. QED
    BY <1>1, <1>2, <2>1, <2>2
<1>13. ASSUME NEW v \in JsonWorkers, jsonStage'[v] # "idle" PROVE Saves(v)'
  <2>1. v # w /\ jsonStage[v] # "idle"
    BY <1>7, <1>8, <1>13
  <2>2. PICK y \in Entries, that \in {"put", "update", "remove"} :
          jsonOn[v] = {<<y, that>>} /\ KeepsWhat(jsonCopy[v], y, that)
    BY <2>1 DEF JsonInv, Saves
  <2>3. w \notin jsonClear
    BY <1>2, <2>1 DEF JsonInv, Others
  <2>4. new = {}
    BY <1>6, <2>3
  <2> DEFINE one == IF that = "put" THEN 1 ELSE 0
  <2>5. ASSUME NEW e \in DOMAIN jsonNewer', ~(e = y /\ that # "update")
        PROVE  Kept(jsonCopy[v], e, jsonNewer'[e] + one)
    <3>1. e \in left /\ e \in DOMAIN jsonNewer /\ jsonNewer[e] \in 0..JsonCap
      BY <1>2, <1>5, <1>6, <2>4
    <3>2. Kept(jsonCopy[v], e, jsonNewer[e] + one)
      BY <2>2, <2>5, <3>1 DEF KeepsWhat
    <3>3. jsonNewer'[e] \in 0..JsonCap /\ jsonNewer[e] <= jsonNewer'[e]
      <4>1. jsonNewer'[e] \in 0..JsonCap
        BY <1>9
      <4>2. jsonNewer'[e] = jsonNewer[e] + 1 \/ jsonNewer'[e] = jsonNewer[e]
        BY <1>5, <2>4, <3>1
      <4>3. QED
        BY <1>2, <3>1, <4>1, <4>2
    <3>4. one \in Nat
      OBVIOUS
    <3> HIDE DEF one
    <3>5. /\ jsonNewer[e] + one \in Nat /\ jsonNewer'[e] + one \in Nat
          /\ jsonNewer[e] + one <= jsonNewer'[e] + one
      BY <1>2, <3>1, <3>3, <3>4
    <3>6. \A i \in DOMAIN jsonCopy[v] : i \in Nat
      BY <1>2
    <3>7. QED
      BY <3>2, <3>5, <3>6, KeptForMore
  <2>6. KeepsWhat(jsonCopy[v], y, that)'
    <3>1. \A c, e, k : Kept(c, e, k)' <=> Kept(c, e, k)
      BY <1>1 DEF Kept
    <3>2. jsonCopy'[v] = jsonCopy[v] /\ (that = "put" => Kept(jsonCopy[v], y, 0))
      BY <1>7, <2>1, <2>2 DEF KeepsWhat
    <3>3. QED
      BY <1>1, <2>5, <3>2 DEF KeepsWhat, Kept
  <2>7. QED
    BY <1>7, <2>1, <2>2, <2>6 DEF Saves
<1>14. (jsonFile # TornFile => \A e \in DOMAIN jsonNewer : Kept(jsonFile, e, jsonNewer[e]))'
  BY <1>1, <1>11 DEF Kept
<1>15. QED
  BY <1>10, <1>12, <1>13, <1>14 DEF JsonInv

LEMMA JsonInvStep == JsonInv /\ [JsonNext]_jsonVars => JsonInv'
<1> SUFFICES ASSUME JsonInv, [JsonNext]_jsonVars PROVE JsonInv'
  OBVIOUS
<1>1. ASSUME NEW w \in JsonWorkers, NEW e \in Entries, NEW what, NEW copy,
             Changes(w, e, what, copy),
             \/ what = "put" /\ copy = Put(Loaded, e)
             \/ what = "update" /\ copy = Updated(Loaded, e)
             \/ what = "remove" /\ copy = Without(Loaded, e)
      PROVE  JsonInv'
  <2>1. copy \in Seq(Entry) /\ OnceEach(copy) /\ KeepsWhat(copy, e, what)'
    BY <1>1, ChangesKeepWhat
  <2>2. what \in {"put", "update", "remove"}
    BY <1>1
  <2>3. QED
    BY <1>1, <2>1, <2>2, ChangesAreSound
<1>2. ASSUME NEW w \in JsonWorkers, Truncate(w) PROVE JsonInv'
  <2>1. /\ jsonStage[w] = "saving" /\ jsonFile' = TornFile
        /\ jsonStage' = [jsonStage EXCEPT ![w] = "writing"]
        /\ UNCHANGED <<jsonKind, jsonCopy, jsonOn, jsonClear, jsonNewer>>
    BY <1>2 DEF Truncate
  <2>2. jsonStage \in [JsonWorkers -> {"idle", "saving", "writing"}]
    BY DEF JsonInv, JsonTypeOK
  <2>3. \A v \in JsonWorkers : jsonStage'[v] = "idle" <=> jsonStage[v] = "idle"
    BY <2>1, <2>2
  <2>4. JsonTypeOK'
    BY <2>1, <2>2 DEF JsonInv, JsonTypeOK, OnceEach
  <2>5. \A v : Others(v)' = Others(v)
    BY <2>3 DEF Others
  <2>6. \A v \in JsonWorkers : Saves(v) => Saves(v)'
    BY <2>1 DEF Saves, KeepsWhat, Kept
  <2>7. QED
    BY <2>1, <2>3, <2>4, <2>5, <2>6 DEF JsonInv
<1>3. ASSUME NEW w \in JsonWorkers, JsonCrash(w) PROVE JsonInv'
  <2>1. /\ jsonStage' = [jsonStage EXCEPT ![w] = "idle"]
        /\ jsonCopy' = [jsonCopy EXCEPT ![w] = <<>>]
        /\ jsonOn' = [jsonOn EXCEPT ![w] = {}]
        /\ jsonClear' = jsonClear \ {w}
        /\ UNCHANGED <<jsonKind, jsonFile, jsonNewer>>
    BY <1>3 DEF JsonCrash
  <2>2. /\ jsonStage \in [JsonWorkers -> {"idle", "saving", "writing"}]
        /\ jsonCopy \in [JsonWorkers -> Seq(Entry)]
        /\ \A v \in JsonWorkers : OnceEach(jsonCopy[v])
        /\ jsonOn \in [JsonWorkers -> SUBSET (Entries \X {"put", "update", "remove"})]
        /\ jsonClear \subseteq JsonWorkers
    BY DEF JsonInv, JsonTypeOK
  <2>3. \A v \in JsonWorkers \ {w} :
          jsonStage'[v] = jsonStage[v] /\ jsonCopy'[v] = jsonCopy[v] /\ jsonOn'[v] = jsonOn[v]
    BY <2>1, <2>2
  <2>4. jsonStage'[w] = "idle" /\ jsonCopy'[w] = <<>>
    BY <2>1, <2>2
  <2>5. JsonTypeOK'
    <3>1. /\ jsonStage' \in [JsonWorkers -> {"idle", "saving", "writing"}]
          /\ jsonCopy' \in [JsonWorkers -> Seq(Entry)]
          /\ jsonOn' \in [JsonWorkers -> SUBSET (Entries \X {"put", "update", "remove"})]
      BY <2>1, <2>2
    <3>2. \A v \in JsonWorkers : OnceEach(jsonCopy'[v])
      BY <2>2, <2>3, <2>4 DEF OnceEach
    <3>3. QED
      BY <2>1, <3>1, <3>2 DEF JsonInv, JsonTypeOK, OnceEach
  <2>6. \A v : Others(v)' \subseteq Others(v)
    BY <2>3, <2>4 DEF Others
  <2>7. \A v \in JsonWorkers \ {w} : Saves(v) => Saves(v)'
    BY <2>1, <2>3 DEF Saves, KeepsWhat, Kept
  <2>8. (jsonFile # TornFile => \A e \in DOMAIN jsonNewer : Kept(jsonFile, e, jsonNewer[e]))'
    BY <2>1 DEF JsonInv, Kept
  <2>9. (\A v \in jsonClear : Others(v) = {})'
    BY <2>1, <2>6 DEF JsonInv
  <2>10. QED
    BY <2>3, <2>4, <2>5, <2>7, <2>8, <2>9 DEF JsonInv
<1>4. CASE JsonNext
  BY <1>1, <1>2, <1>3, <1>4, OneOfThreeChanges, WriteKeeps DEF JsonNext
<1>5. CASE UNCHANGED jsonVars
  BY <1>5, SMTT(30) DEF jsonVars, JsonInv, JsonTypeOK, OnceEach, Kept, Others, Saves, KeepsWhat
<1>6. QED
  BY <1>4, <1>5

\* What an operation that met no other has stored stays, in every store, whatever overlaps
\* later and whoever dies, for any workers, entries and cap.
THEOREM StoredAloneIsKept == JsonSpec => [](JsonTypeOK /\ StoredAloneStays)
<1>1. JsonInit => JsonInv
  BY DEF JsonInit, JsonInv, JsonTypeOK, OnceEach
<1>2. JsonInv => JsonTypeOK /\ StoredAloneStays
  <2> SUFFICES ASSUME JsonInv, jsonFile # TornFile, NEW e \in DOMAIN jsonNewer
               PROVE  \/ e \in Ids(jsonFile)
                      \/ jsonKind.capped /\ jsonNewer[e] = JsonCap
    BY DEF JsonInv, StoredAloneStays
  <2>1. Kept(jsonFile, e, jsonNewer[e]) /\ jsonNewer[e] \in 0..JsonCap /\ JsonCap \in Nat
    BY JsonAssumption DEF JsonInv, JsonTypeOK
  <2>2. CASE jsonKind.capped /\ jsonNewer[e] >= JsonCap
    BY <2>1, <2>2
  <2>3. CASE \E i \in DOMAIN jsonFile : jsonFile[i].id = e
    <3>1. PICK i \in DOMAIN jsonFile : jsonFile[i].id = e
      BY <2>3
    <3>2. e \in Ids(jsonFile)
      BY <3>1 DEF Ids
    <3>3. QED
      BY <3>2
  <2>4. QED
    BY <2>1, <2>2, <2>3 DEF Kept
<1>3. QED
  BY <1>1, <1>2, JsonInvStep, PTL DEF JsonSpec

-----------------------------------------------------------------------------
(* SlidingWindow                                                           *)

\* The entries from one on, and twice what two threads may still admit: with the list at
\* a and no copy taken, and with two lists (copies, or a copy and the list) at a and b.
Since(S, x) == {e \in S : e >= x}
SinceCount(S, x) == Cardinality(Since(S, x))
Rest(a) == (MaxRequests - a) * (MaxRequests - a + 3)
RestOf(a, b) == IF a <= b THEN 2 + 2 * (MaxRequests - b) + Rest(a + 1)
                          ELSE 2 + 2 * (MaxRequests - a) + Rest(b + 1)

\* The young admissions are the last ones, and all lists are short.
WindowShape ==
  /\ WindowTypeOK
  /\ bucket \subseteq 1..admissions
  /\ \A t \in Threads : timestamps[t] \subseteq 1..admissions
  /\ \E m \in 1..(admissions + 1) : young = m..admissions
  /\ ListsStayShort

\* From each young admission on, what was admitted and what may still be are no more
\* than what may be from an empty list.
WithinRest(x) ==
  LET spent == 2 * (admissions + 1 - x) IN
  /\ holding = {} => spent + Rest(SinceCount(bucket, x)) <= Rest(0)
  /\ \A t \in Threads : holding = {t} =>
       spent + RestOf(SinceCount(bucket, x), SinceCount(timestamps[t], x)) <= Rest(0)
  /\ \A t, u \in Threads : t # u /\ holding = {t, u} =>
       spent + RestOf(SinceCount(timestamps[t], x), SinceCount(timestamps[u], x)) <= Rest(0)

WindowInv ==
  /\ WindowShape
  /\ Cardinality(Threads) <= 2 =>
       \A x \in young \cup {admissions + 1} : WithinRest(x)

LEMMA RestFalls ==
  /\ \A a \in 0..MaxRequests : Rest(a) \in Nat
  /\ \A a \in 0..(MaxRequests - 1) : Rest(a) = Rest(a + 1) + 2 * (MaxRequests - a) + 2
  /\ \A a, b \in 0..MaxRequests : a <= b => Rest(b) <= Rest(a)
<1>1. MaxRequests \in Nat
  BY WindowAssumption
<1>2. \A d \in Nat : d * (d + 3) \in Nat
  OBVIOUS
<1>3. \A d \in Int : d * (d + 3) = (d - 1) * ((d - 1) + 3) + 2 * d + 2
  OBVIOUS
<1>4. \A c, d \in Nat : c <= d => c * (c + 3) <= d * (d + 3)
  <2> SUFFICES ASSUME NEW c \in Nat, NEW n \in Nat
               PROVE  c * (c + 3) <= (c + n) * ((c + n) + 3)
    <3>1. \A c, d \in Nat : c <= d => d - c \in Nat /\ c + (d - c) = d
      OBVIOUS
    <3>2. QED
      BY <3>1
  <2>1. (c + n) * ((c + n) + 3) = c * (c + 3) + (2 * c * n + n * n + 3 * n)
    OBVIOUS
  <2>2. c * n \in Nat /\ n * n \in Nat
    OBVIOUS
  <2>3. 2 * c * n = 2 * (c * n)
    OBVIOUS
  <2>4. c * (c + 3) \in Nat
    OBVIOUS
  <2>5. QED
    BY <2>1, <2>2, <2>3, <2>4
<1>5. \A a \in 0..MaxRequests : MaxRequests - a \in Nat
  BY <1>1
<1>6. \A a \in 0..(MaxRequests - 1) :
        MaxRequests - (a + 1) = (MaxRequests - a) - 1 /\ MaxRequests - a \in Int
  BY <1>1
<1>7. \A a, b \in 0..MaxRequests : a <= b => MaxRequests - b <= MaxRequests - a
  BY <1>1
<1>8. \A a \in 0..(MaxRequests - 1) : Rest(a) = Rest(a + 1) + 2 * (MaxRequests - a) + 2
  BY <1>3, <1>6 DEF Rest
<1>9. \A a \in 0..MaxRequests : Rest(a) \in Nat
  BY <1>2, <1>5 DEF Rest
<1>10. \A a, b \in 0..MaxRequests : a <= b => Rest(b) <= Rest(a)
  BY <1>4, <1>5, <1>7 DEF Rest
<1>11. QED
  BY <1>8, <1>9, <1>10

\* A copy spends nothing, and a write what it admits.
LEMMA StepsSpendRest ==
  /\ \A a \in 0..(MaxRequests - 1) : RestOf(a, a) = Rest(a)
  /\ \A a, b \in 0..MaxRequests : RestOf(a, b) = RestOf(b, a)
  /\ \A a \in 0..MaxRequests, b \in 0..(MaxRequests - 1) : 2 + Rest(b + 1) <= RestOf(a, b)
  /\ \A a, b \in 0..(MaxRequests - 1) : 2 + RestOf(a + 1, b) <= RestOf(a, b)
<1>1. MaxRequests \in Nat \ {0}
  BY WindowAssumption
<1> USE RestFalls, <1>1
<1>2. ASSUME NEW a \in 0..(MaxRequests - 1) PROVE RestOf(a, a) = Rest(a)
  BY DEF RestOf
<1>3. ASSUME NEW a \in 0..MaxRequests, NEW b \in 0..MaxRequests
      PROVE  RestOf(a, b) = RestOf(b, a)
  BY DEF RestOf
<1>4. ASSUME NEW a \in 0..MaxRequests, NEW b \in 0..(MaxRequests - 1)
      PROVE  2 + Rest(b + 1) <= RestOf(a, b)
  <2>1. CASE a <= b
    <3>1. a + 1 \in 0..MaxRequests /\ b + 1 \in 0..MaxRequests /\ a + 1 <= b + 1
      BY <2>1
    <3>2. Rest(b + 1) <= Rest(a + 1) /\ Rest(b + 1) \in Nat /\ Rest(a + 1) \in Nat
      BY <3>1
    <3>3. QED
      BY <2>1, <3>2 DEF RestOf
  <2>2. CASE ~(a <= b)
    <3>1. b + 1 \in 0..MaxRequests
      OBVIOUS
    <3>2. Rest(b + 1) \in Nat
      BY <3>1
    <3>3. QED
      BY <2>2, <3>2 DEF RestOf
  <2>3. QED
    BY <2>1, <2>2
<1>5. ASSUME NEW a \in 0..(MaxRequests - 1), NEW b \in 0..(MaxRequests - 1)
      PROVE  2 + RestOf(a + 1, b) <= RestOf(a, b)
  <2>1. CASE a < b
    <3>1. a + 1 \in 0..(MaxRequests - 1) /\ (a + 1) + 1 \in 0..MaxRequests
      BY <2>1
    <3>2. /\ Rest(a + 1) = Rest((a + 1) + 1) + 2 * (MaxRequests - (a + 1)) + 2
          /\ Rest((a + 1) + 1) \in Nat
      BY <3>1
    <3>3. RestOf(a + 1, b) = 2 + 2 * (MaxRequests - b) + Rest((a + 1) + 1)
      BY <2>1 DEF RestOf
    <3>4. RestOf(a, b) = 2 + 2 * (MaxRequests - b) + Rest(a + 1)
      BY <2>1 DEF RestOf
    <3>5. QED
      BY <2>1, <3>2, <3>3, <3>4
  <2>2. CASE a = b
    <3>1. RestOf(a + 1, b) = 2 + 2 * (MaxRequests - (a + 1)) + Rest(b + 1)
      BY <2>2 DEF RestOf
    <3>2. RestOf(a, b) = 2 + 2 * (MaxRequests - b) + Rest(a + 1)
      BY <2>2 DEF RestOf
    <3>3. a + 1 \in 0..MaxRequests /\ Rest(a + 1) \in Nat
      OBVIOUS
    <3>4. QED
      BY <2>2, <3>1, <3>2, <3>3
  <2>3. CASE a > b
    <3>1. RestOf(a + 1, b) = 2 + 2 * (MaxRequests - (a + 1)) + Rest(b + 1)
      BY <2>3 DEF RestOf
    <3>2. RestOf(a, b) = 2 + 2 * (MaxRequests - a) + Rest(b + 1)
      BY <2>3 DEF RestOf
    <3>3. b + 1 \in 0..MaxRequests /\ Rest(b + 1) \in Nat
      OBVIOUS
    <3>4. QED
      BY <2>3, <3>1, <3>2, <3>3
  <2>4. QED
    BY <2>1, <2>2, <2>3
<1>6. QED
  BY <1>2, <1>3, <1>4, <1>5

\* Counting from an entry on: what is in a short list, none after the last admission, and
\* one more with a new one.
LEMMA SinceIsCounted ==
  ASSUME NEW n \in Nat, NEW S \in SUBSET (1..n), NEW x \in 1..(n + 1)
  PROVE  /\ IsFiniteSet(S)
         /\ SinceCount(S, x) \in Nat /\ SinceCount(S, x) <= Cardinality(S)
         /\ SinceCount(S, n + 1) = 0
         /\ Cardinality(S \cup {n + 1}) = Cardinality(S) + 1
         /\ SinceCount(S \cup {n + 1}, x) = SinceCount(S, x) + 1
         /\ SinceCount(S \cup {n + 1}, n + 2) = 0
<1>1. IsFiniteSet(1..n)
  BY FS_Interval
<1>2. IsFiniteSet(S)
  BY <1>1, FS_Subset
<1>3. Since(S, x) \subseteq S /\ IsFiniteSet(Since(S, x))
  BY <1>2, FS_Subset DEF Since
<1>4. SinceCount(S, x) \in Nat /\ SinceCount(S, x) <= Cardinality(S)
  BY <1>2, <1>3, FS_Subset, FS_CardinalityType DEF SinceCount
<1>5. Since(S, n + 1) = {} /\ Since(S \cup {n + 1}, n + 2) = {}
  <2>1. \A e \in S : ~(e >= n + 1)
    OBVIOUS
  <2>2. \A e \in S \cup {n + 1} : ~(e >= n + 2)
    OBVIOUS
  <2>3. QED
    BY <2>1, <2>2 DEF Since
<1>6. n + 1 \notin S /\ n + 1 \notin Since(S, x)
  BY DEF Since
<1>7. Since(S \cup {n + 1}, x) = Since(S, x) \cup {n + 1}
  BY DEF Since
<1>8. SinceCount(S \cup {n + 1}, x) = SinceCount(S, x) + 1
  BY <1>3, <1>6, <1>7, FS_AddElement DEF SinceCount
<1>9. Cardinality(S \cup {n + 1}) = Cardinality(S) + 1
  BY <1>2, <1>6, FS_AddElement
<1>10. QED
  BY <1>2, <1>4, <1>5, <1>8, <1>9, FS_EmptySet DEF SinceCount

LEMMA TwoAtMost ==
  ASSUME NEW S, IsFiniteSet(S), Cardinality(S) <= 2, NEW p \in S
  PROVE  \E q \in S : S = {p, q}
<1>1. IsFiniteSet(S \ {p}) /\ Cardinality(S \ {p}) = Cardinality(S) - 1
  BY FS_RemoveElement
<1>2. Cardinality(S) \in Nat /\ Cardinality(S \ {p}) \in Nat
  BY <1>1, FS_CardinalityType
<1>3. CASE Cardinality(S \ {p}) = 0
  <2>1. S \ {p} = {}
    BY <1>1, <1>3, FS_EmptySet
  <2>2. QED
    BY <2>1
<1>4. CASE Cardinality(S \ {p}) = 1
  <2>1. \E q : S \ {p} = {q}
    BY <1>1, <1>4, FS_Singleton
  <2>2. QED
    BY <2>1
<1>5. QED
  BY <1>1, <1>2, <1>3, <1>4

LEMMA WindowShapeStep == WindowShape /\ [WindowNext]_windowVars => WindowShape'
<1> SUFFICES ASSUME WindowShape, [WindowNext]_windowVars PROVE WindowShape'
  OBVIOUS
<1>0. /\ MaxRequests \in Nat \ {0} /\ MaxAdmissions \in Nat /\ admissions \in 0..MaxAdmissions
      /\ bucket \subseteq 1..admissions
      /\ timestamps \in [Threads -> SUBSET (1..MaxAdmissions)]
      /\ \A t \in Threads : timestamps[t] \subseteq 1..admissions
      /\ holding \subseteq Threads /\ young \subseteq 1..MaxAdmissions
      /\ Cardinality(bucket) <= MaxRequests
      /\ \A t \in holding : Cardinality(timestamps[t]) < MaxRequests
  BY WindowAssumption DEF WindowShape, WindowTypeOK, ListsStayShort
<1>1. PICK m \in 1..(admissions + 1) : young = m..admissions
  BY DEF WindowShape
<1>2. ASSUME NEW t \in Threads, CopyTimestamps(t) PROVE WindowShape'
  <2>1. /\ Cardinality(bucket \cap young) < MaxRequests
        /\ timestamps' = [timestamps EXCEPT ![t] = bucket \cap young]
        /\ holding' = holding \cup {t}
        /\ UNCHANGED <<bucket, young, admissions>>
    BY <1>2 DEF CopyTimestamps, Admits
  <2>2. \A u \in Threads : timestamps'[u] = IF u = t THEN bucket \cap young ELSE timestamps[u]
    BY <1>0, <2>1
  <2>3. timestamps' \in [Threads -> SUBSET (1..MaxAdmissions)]
    BY <1>0, <2>1
  <2>4. \A u \in Threads : timestamps'[u] \subseteq 1..admissions
    BY <1>0, <2>2
  <2>5. \A u \in holding' : Cardinality(timestamps'[u]) < MaxRequests
    BY <1>0, <2>1, <2>2
  <2>6. QED
    BY <1>0, <1>2, <2>1, <2>3, <2>4, <2>5 DEF WindowShape, WindowTypeOK, ListsStayShort
<1>3. ASSUME NEW t \in Threads, WriteTimestamps(t) PROVE WindowShape'
  <2>1. /\ t \in holding /\ admissions < MaxAdmissions /\ admissions' = admissions + 1
        /\ bucket' = timestamps[t] \cup {admissions + 1}
        /\ young' = young \cup {admissions + 1}
        /\ timestamps' = [timestamps EXCEPT ![t] = {}]
        /\ holding' = holding \ {t}
    BY <1>3 DEF WriteTimestamps
  <2>2. \A u \in Threads : timestamps'[u] = IF u = t THEN {} ELSE timestamps[u]
    BY <1>0, <2>1
  <2>3. timestamps' \in [Threads -> SUBSET (1..MaxAdmissions)]
    BY <1>0, <2>1
  <2>4. 1..admissions \subseteq 1..(admissions + 1)
    BY <1>0
  <2>5. \A u \in Threads : timestamps'[u] \subseteq 1..(admissions + 1)
    BY <1>0, <2>2, <2>4
  <2>6. /\ bucket' \subseteq 1..(admissions + 1) /\ admissions' \in 0..MaxAdmissions
        /\ young' \subseteq 1..MaxAdmissions
    BY <1>0, <2>1, <2>4
  <2>7. /\ m \in 1..(admissions' + 1) /\ young' = m..admissions'
    BY <1>0, <1>1, <2>1
  <2>8. Cardinality(bucket') <= MaxRequests
    <3>1. Cardinality(timestamps[t]) < MaxRequests /\ timestamps[t] \in SUBSET (1..admissions)
      BY <1>0, <2>1
    <3>2. admissions \in Nat /\ admissions + 1 \in 1..(admissions + 1)
      BY <1>0
    <3>3. /\ IsFiniteSet(timestamps[t])
          /\ Cardinality(timestamps[t] \cup {admissions + 1}) = Cardinality(timestamps[t]) + 1
      BY <3>1, <3>2, SinceIsCounted
    <3>4. Cardinality(timestamps[t]) \in Nat
      BY <3>3, FS_CardinalityType
    <3>5. QED
      BY <1>0, <2>1, <3>1, <3>3, <3>4
  <2>9. \A u \in holding' : Cardinality(timestamps'[u]) < MaxRequests
    BY <1>0, <2>1, <2>2
  <2>10. WindowTypeOK'
    BY <1>0, <2>1, <2>3, <2>6 DEF WindowTypeOK
  <2>11. QED
    BY <2>1, <2>5, <2>6, <2>7, <2>8, <2>9, <2>10 DEF WindowShape, ListsStayShort
<1>4. ASSUME EntryAges PROVE WindowShape'
  <2>1. /\ young # {} /\ young' = young \ {CHOOSE e \in young : \A f \in young : e <= f}
        /\ UNCHANGED <<bucket, timestamps, holding, admissions>>
    BY <1>4 DEF EntryAges
  <2>2. young' = (m + 1)..admissions /\ m + 1 \in 1..(admissions + 1)
    <3>1. m \in young /\ \A f \in young : m <= f
      BY <1>0, <1>1, <2>1
    <3>2. \A e \in young : (\A f \in young : e <= f) => e = m
      BY <1>0, <1>1, <3>1
    <3>3. (CHOOSE e \in young : \A f \in young : e <= f) = m
      BY <3>1, <3>2
    <3>4. young' = (m..admissions) \ {m}
      BY <1>1, <2>1, <3>3
    <3>5. m \in Nat /\ m <= admissions /\ admissions \in Nat
      BY <1>0, <1>1, <3>1
    <3>6. QED
      BY <3>4, <3>5
  <2>3. young' \subseteq young
    BY <2>1
  <2>4. WindowTypeOK'
    <3>1. young' \in SUBSET (1..MaxAdmissions)
      BY <1>0, <2>3
    <3>2. QED
      BY <1>0, <2>1, <3>1 DEF WindowTypeOK
  <2>5. ListsStayShort'
    BY <1>0, <2>1 DEF ListsStayShort
  <2>6. QED
    BY <1>0, <2>1, <2>2, <2>4, <2>5 DEF WindowShape
<1>5. CASE UNCHANGED windowVars
  BY <1>5 DEF windowVars, WindowShape, WindowTypeOK, ListsStayShort
<1>6. QED
  BY <1>2, <1>3, <1>4, <1>5 DEF WindowNext

\* Every list, from an entry on, is as short as the limit admits.
LEMMA SinceIsShort ==
  ASSUME WindowShape, NEW x \in 1..(admissions + 1)
  PROVE  /\ SinceCount(bucket, x) \in 0..MaxRequests
         /\ \A t \in holding : SinceCount(timestamps[t], x) \in 0..(MaxRequests - 1)
<1>1. /\ MaxRequests \in Nat \ {0} /\ admissions \in Nat
      /\ bucket \in SUBSET (1..admissions) /\ holding \subseteq Threads
      /\ \A t \in Threads : timestamps[t] \in SUBSET (1..admissions)
      /\ Cardinality(bucket) <= MaxRequests
      /\ \A t \in holding : Cardinality(timestamps[t]) < MaxRequests
  BY WindowAssumption DEF WindowShape, WindowTypeOK, ListsStayShort
<1>2. \A S \in SUBSET (1..admissions) :
        /\ SinceCount(S, x) \in Nat /\ SinceCount(S, x) <= Cardinality(S)
        /\ Cardinality(S) \in Nat
  BY <1>1, SinceIsCounted, FS_CardinalityType
<1>3. ASSUME NEW t \in holding PROVE SinceCount(timestamps[t], x) \in 0..(MaxRequests - 1)
  <2>1. /\ SinceCount(timestamps[t], x) \in Nat
        /\ SinceCount(timestamps[t], x) <= Cardinality(timestamps[t])
        /\ Cardinality(timestamps[t]) \in Nat /\ Cardinality(timestamps[t]) < MaxRequests
    BY <1>1, <1>2
  <2>2. QED
    BY <1>1, <2>1
<1>4. SinceCount(bucket, x) \in 0..MaxRequests
  <2>1. /\ SinceCount(bucket, x) \in Nat /\ SinceCount(bucket, x) <= Cardinality(bucket)
        /\ Cardinality(bucket) \in Nat
    BY <1>1, <1>2
  <2>2. QED
    BY <1>1, <2>1
<1>5. QED
  BY <1>3, <1>4

\* A copy takes what the list has from a young entry on, and leaves the rest as it was.
LEMMA CopyStaysWithin ==
  ASSUME WindowShape, NEW t \in Threads, CopyTimestamps(t), NEW p, NEW q, Threads = {p, q},
         NEW x \in young \cup {admissions + 1}, WithinRest(x)
  PROVE  WithinRest(x)'
<1> DEFINE s == SinceCount(bucket, x)
           k(u) == SinceCount(timestamps[u], x)
           spent == 2 * (admissions + 1 - x)
<1>1. /\ t \notin holding /\ Cardinality(bucket \cap young) < MaxRequests
      /\ timestamps' = [timestamps EXCEPT ![t] = bucket \cap young]
      /\ holding' = holding \cup {t}
      /\ UNCHANGED <<bucket, young, admissions>>
  BY DEF CopyTimestamps, Admits
<1>2. PICK m \in 1..(admissions + 1) : young = m..admissions
  BY DEF WindowShape
<1>3. /\ admissions \in Nat /\ bucket \subseteq 1..admissions
      /\ MaxRequests \in Nat \ {0} /\ holding \subseteq Threads
      /\ DOMAIN timestamps = Threads
  BY WindowAssumption DEF WindowShape, WindowTypeOK
<1>4. x \in 1..(admissions + 1) /\ x >= m
  BY <1>2, <1>3
<1>5. Since(bucket \cap young, x) = Since(bucket, x)
  <2>1. \A e \in bucket : e >= x => e \in young
    BY <1>2, <1>3, <1>4
  <2>2. QED
    BY <2>1 DEF Since
<1>6. SinceCount(bucket \cap young, x) = s
  BY <1>5 DEF SinceCount
<1>7. s \in 0..(MaxRequests - 1)
  <2>1. bucket \cap young \in SUBSET (1..admissions)
    BY <1>3
  <2>2. /\ s \in Nat /\ s <= Cardinality(bucket \cap young)
        /\ Cardinality(bucket \cap young) \in Nat
    BY <1>3, <1>4, <1>6, <2>1, SinceIsCounted, FS_CardinalityType
  <2>3. QED
    BY <1>1, <1>3, <2>2
<1>8. /\ \A u \in Threads \ {t} : timestamps'[u] = timestamps[u]
      /\ timestamps'[t] = bucket \cap young
  BY <1>1, <1>3
<1>9. holding = {} \/ \E u \in Threads : u # t /\ holding = {u} /\ Threads = {t, u}
  BY <1>1, <1>3
<1>10. CASE holding = {}
  <2>1. holding' = {t} /\ SinceCount(timestamps'[t], x) = s
    BY <1>1, <1>6, <1>8, <1>10
  <2>2. spent + Rest(s) <= Rest(0)
    BY <1>10 DEF WithinRest
  <2>3. spent + RestOf(s, s) <= Rest(0)
    BY <1>7, <2>2, StepsSpendRest
  <2>4. \A u \in Threads : holding' = {u} => u = t
    BY <2>1
  <2>5. ~(holding' = {}) /\ \A u, v \in Threads : ~(u # v /\ holding' = {u, v})
    BY <2>1
  <2>6. spent' = spent /\ SinceCount(bucket', x) = s
    BY <1>1
  <2> HIDE DEF s
  <2>7. QED
    BY <1>1, <2>1, <2>3, <2>4, <2>5, <2>6 DEF WithinRest
<1>11. ASSUME NEW u \in Threads, u # t, holding = {u}, Threads = {t, u} PROVE WithinRest(x)'
  <2>1. /\ holding' = {t, u} /\ SinceCount(timestamps'[t], x) = s
        /\ SinceCount(timestamps'[u], x) = k(u)
    BY <1>1, <1>6, <1>8, <1>11
  <2>2. spent + RestOf(s, k(u)) <= Rest(0)
    BY <1>11 DEF WithinRest
  <2>3. k(u) \in 0..(MaxRequests - 1)
    BY <1>4, <1>11, SinceIsShort
  <2>4. RestOf(k(u), s) = RestOf(s, k(u))
    BY <1>3, <1>7, <2>3, StepsSpendRest
  <2>5. /\ ~(holding' = {}) /\ \A v \in Threads : ~(holding' = {v})
        /\ \A v, w \in Threads : v # w => (v = t /\ w = u) \/ (v = u /\ w = t)
    BY <1>11, <2>1
  <2> HIDE DEF s, k
  <2>6. QED
    BY <1>1, <2>1, <2>2, <2>4, <2>5 DEF WithinRest
<1>12. QED
  BY <1>9, <1>10, <1>11

LEMMA RestIsNatural ==
  \A a \in 0..MaxRequests, b \in 0..(MaxRequests - 1) : RestOf(a, b) \in Nat
<1> SUFFICES ASSUME NEW a \in 0..MaxRequests, NEW b \in 0..(MaxRequests - 1)
             PROVE  RestOf(a, b) \in Nat
  OBVIOUS
<1>1. MaxRequests \in Nat \ {0} /\ \A c \in 0..MaxRequests : Rest(c) \in Nat
  BY WindowAssumption, RestFalls
<1>2. CASE a <= b
  <2>1. a + 1 \in 0..MaxRequests
    BY <1>1, <1>2
  <2>2. QED
    BY <1>1, <1>2, <2>1 DEF RestOf
<1>3. CASE ~(a <= b)
  <2>1. b + 1 \in 0..MaxRequests
    BY <1>1
  <2>2. QED
    BY <1>1, <1>3, <2>1 DEF RestOf
<1>4. QED
  BY <1>2, <1>3

\* What is spent is no more than what there was.
LEMMA SpentIsWithin ==
  ASSUME WindowShape, Cardinality(Threads) <= 2, NEW x \in 1..(admissions + 1),
         WithinRest(x)
  PROVE  2 * (admissions + 1 - x) <= Rest(0)
<1> DEFINE s == SinceCount(bucket, x)
           k(u) == SinceCount(timestamps[u], x)
           spent == 2 * (admissions + 1 - x)
<1>1. /\ s \in 0..MaxRequests
      /\ \A u \in holding : k(u) \in 0..(MaxRequests - 1)
      /\ holding \subseteq Threads
  BY SinceIsShort DEF WindowShape, WindowTypeOK
<1>2. spent \in Nat /\ MaxRequests \in Nat \ {0} /\ Rest(0) \in Nat
  BY WindowAssumption, RestFalls DEF WindowShape, WindowTypeOK
<1>3. CASE holding = {}
  <2>1. spent + Rest(s) <= Rest(0) /\ Rest(s) \in Nat
    BY <1>1, <1>3, RestFalls DEF WithinRest
  <2>2. QED
    BY <1>2, <2>1
<1>4. ASSUME NEW t \in Threads, holding = {t} PROVE spent <= Rest(0)
  <2>1. spent + RestOf(s, k(t)) <= Rest(0) /\ RestOf(s, k(t)) \in Nat
    BY <1>1, <1>4, RestIsNatural DEF WithinRest
  <2>2. QED
    BY <1>2, <2>1
<1>5. ASSUME NEW t \in Threads, NEW u \in Threads, t # u, holding = {t, u}
      PROVE  spent <= Rest(0)
  <2>1. k(t) \in 0..(MaxRequests - 1) /\ k(u) \in 0..(MaxRequests - 1)
    BY <1>1, <1>5
  <2>2. k(t) \in 0..MaxRequests
    BY <1>2, <2>1
  <2>3. spent + RestOf(k(t), k(u)) <= Rest(0) /\ RestOf(k(t), k(u)) \in Nat
    BY <1>5, <2>1, <2>2, RestIsNatural DEF WithinRest
  <2>4. QED
    BY <1>2, <2>3
<1>6. \/ holding = {} \/ \E t \in Threads : holding = {t}
      \/ \E t, u \in Threads : t # u /\ holding = {t, u}
  <2>1. CASE Threads = {}
    BY <1>1, <2>1
  <2>2. ASSUME NEW t \in Threads
        PROVE  \/ holding = {} \/ \E v \in Threads : holding = {v}
               \/ \E v, u \in Threads : v # u /\ holding = {v, u}
    <3>1. PICK q \in Threads : Threads = {t, q}
      BY TwoAtMost, WindowAssumption
    <3>2. QED
      BY <1>1, <3>1
  <2>3. QED
    BY <2>1, <2>2
<1>7. QED
  BY <1>3, <1>4, <1>5, <1>6

\* A write admits one, and spends at least as much.
LEMMA WriteStaysWithin ==
  ASSUME WindowShape, NEW t \in Threads, WriteTimestamps(t), NEW p, NEW q, Threads = {p, q},
         NEW x \in young \cup {admissions + 1}, WithinRest(x)
  PROVE  WithinRest(x)'
<1> DEFINE s == SinceCount(bucket, x)
           k(u) == SinceCount(timestamps[u], x)
           spent == 2 * (admissions + 1 - x)
<1>1. /\ t \in holding
      /\ admissions' = admissions + 1
      /\ bucket' = timestamps[t] \cup {admissions + 1}
      /\ timestamps' = [timestamps EXCEPT ![t] = {}]
      /\ holding' = holding \ {t}
  BY DEF WriteTimestamps
<1>2. /\ admissions \in Nat /\ MaxRequests \in Nat \ {0} /\ holding \subseteq Threads
      /\ DOMAIN timestamps = Threads
      /\ \A u \in Threads : timestamps[u] \in SUBSET (1..admissions)
  BY WindowAssumption DEF WindowShape, WindowTypeOK
<1>3. x \in 1..(admissions + 1)
  <2>1. PICK m \in 1..(admissions + 1) : young = m..admissions
    BY DEF WindowShape
  <2>2. QED
    BY <1>2, <2>1
<1>4. SinceCount(bucket', x) = k(t) + 1
  BY <1>1, <1>2, <1>3, SinceIsCounted
<1>5. /\ s \in 0..MaxRequests
      /\ \A u \in holding : k(u) \in 0..(MaxRequests - 1)
  BY <1>3, SinceIsShort
<1>6. 2 * (admissions' + 1 - x) = spent + 2 /\ spent \in Nat
  BY <1>1, <1>2, <1>3
<1>7. \A u \in Threads \ {t} : timestamps'[u] = timestamps[u]
  BY <1>1, <1>2
<1>8. holding = {t} \/ \E u \in Threads : u # t /\ holding = {t, u} /\ Threads = {t, u}
  BY <1>1, <1>2
<1>9. CASE holding = {t}
  <2>1. holding' = {}
    BY <1>1, <1>9
  <2>2. spent + RestOf(s, k(t)) <= Rest(0)
    BY <1>9 DEF WithinRest
  <2>3. 2 + Rest(k(t) + 1) <= RestOf(s, k(t))
    BY <1>1, <1>5, StepsSpendRest
  <2>4. /\ k(t) + 1 \in 0..MaxRequests
        /\ Rest(k(t) + 1) \in Nat /\ Rest(0) \in Nat /\ RestOf(s, k(t)) \in Int
    <3>1. k(t) \in 0..(MaxRequests - 1) /\ s \in 0..MaxRequests
      BY <1>1, <1>5
    <3> HIDE DEF k, s
    <3>2. k(t) + 1 \in 0..MaxRequests /\ 0 \in 0..MaxRequests
      BY <1>2, <3>1
    <3>3. RestOf(s, k(t)) \in Nat
      BY <3>1, RestIsNatural
    <3>4. QED
      BY <3>2, <3>3, RestFalls
  <2>5. (spent + 2) + Rest(k(t) + 1) <= Rest(0)
    <3> HIDE DEF spent, k, s
    <3>1. QED
      BY <1>6, <2>2, <2>3, <2>4
  <2>6. \A u, v \in Threads : ~(holding' = {u}) /\ ~(u # v /\ holding' = {u, v})
    BY <2>1
  <2> HIDE DEF spent, k, s
  <2>7. QED
    BY <1>4, <1>6, <2>1, <2>5, <2>6 DEF WithinRest
<1>10. ASSUME NEW u \in Threads, u # t, holding = {t, u}, Threads = {t, u}
       PROVE  WithinRest(x)'
  <2>1. holding' = {u} /\ SinceCount(timestamps'[u], x) = k(u)
    BY <1>1, <1>7, <1>10
  <2>2. spent + RestOf(k(t), k(u)) <= Rest(0)
    BY <1>10 DEF WithinRest
  <2>3. k(t) \in 0..(MaxRequests - 1) /\ k(u) \in 0..(MaxRequests - 1)
    BY <1>5, <1>10
  <2>4. 2 + RestOf(k(t) + 1, k(u)) <= RestOf(k(t), k(u))
    BY <2>3, StepsSpendRest
  <2>5. /\ RestOf(k(t) + 1, k(u)) \in Int /\ RestOf(k(t), k(u)) \in Int
        /\ Rest(0) \in Int
    <3> HIDE DEF k
    <3>1. k(t) + 1 \in 0..MaxRequests /\ k(t) \in 0..MaxRequests /\ 0 \in 0..MaxRequests
      BY <1>2, <2>3
    <3>2. QED
      BY <2>3, <3>1, RestIsNatural, RestFalls
  <2>6. (spent + 2) + RestOf(k(t) + 1, k(u)) <= Rest(0)
    <3> HIDE DEF spent, k, s
    <3>1. QED
      BY <1>6, <2>2, <2>4, <2>5
  <2>7. /\ \A v \in Threads : holding' = {v} => v = u
        /\ ~(holding' = {}) /\ \A v, w \in Threads : ~(v # w /\ holding' = {v, w})
    BY <2>1
  <2> HIDE DEF spent, k, s
  <2>8. QED
    BY <1>4, <1>6, <2>1, <2>6, <2>7 DEF WithinRest
<1>11. QED
  BY <1>8, <1>9, <1>10

\* Behind the last admission nothing is spent, and no list has anything.
LEMMA NothingSpentYet == WindowShape => WithinRest(admissions + 1)
<1> SUFFICES ASSUME WindowShape PROVE WithinRest(admissions + 1)
  OBVIOUS
<1> DEFINE x == admissions + 1
<1>1. /\ admissions \in Nat /\ MaxRequests \in Nat \ {0} /\ bucket \in SUBSET (1..admissions)
      /\ \A t \in Threads : timestamps[t] \in SUBSET (1..admissions)
  BY WindowAssumption DEF WindowShape, WindowTypeOK
<1>2. x \in 1..(admissions + 1)
  BY <1>1
<1>3. /\ SinceCount(bucket, x) = 0
      /\ \A t \in Threads : SinceCount(timestamps[t], x) = 0
  BY <1>1, <1>2, SinceIsCounted
<1>4. RestOf(0, 0) = Rest(0) /\ Rest(0) \in Nat
  BY <1>1, StepsSpendRest, RestFalls
<1>5. 2 * (admissions + 1 - x) + Rest(0) <= Rest(0)
  BY <1>1, <1>4
<1> HIDE DEF x
<1>6. WithinRest(x)
  BY <1>3, <1>4, <1>5 DEF WithinRest
<1>7. QED
  BY <1>6 DEF x

LEMMA WindowInvStep == WindowInv /\ [WindowNext]_windowVars => WindowInv'
<1> SUFFICES ASSUME WindowInv, [WindowNext]_windowVars PROVE WindowInv'
  OBVIOUS
<1>1. WindowShape /\ WindowShape'
  BY WindowShapeStep DEF WindowInv
<1>2. ASSUME Cardinality(Threads) <= 2, NEW x \in (young \cup {admissions + 1})'
      PROVE  WithinRest(x)'
  <2>1. \A y \in young \cup {admissions + 1} : WithinRest(y)
    BY <1>2 DEF WindowInv
  <2>2. ASSUME NEW t \in Threads, CopyTimestamps(t) PROVE WithinRest(x)'
    <3>1. \E q \in Threads : Threads = {t, q}
      BY <1>2, TwoAtMost, WindowAssumption
    <3>2. young' = young /\ admissions' = admissions
      BY <2>2 DEF CopyTimestamps
    <3>3. x \in young \cup {admissions + 1}
      BY <3>2
    <3>4. QED
      BY <1>1, <2>1, <2>2, <3>1, <3>3, CopyStaysWithin
  <2>3. ASSUME NEW t \in Threads, WriteTimestamps(t) PROVE WithinRest(x)'
    <3>1. \E q \in Threads : Threads = {t, q}
      BY <1>2, TwoAtMost, WindowAssumption
    <3>2. young' = young \cup {admissions + 1} /\ admissions' = admissions + 1
      BY <2>3 DEF WriteTimestamps
    <3>3. CASE x \in young \cup {admissions + 1}
      BY <1>1, <2>1, <2>3, <3>1, <3>3, WriteStaysWithin
    <3>4. CASE x = (admissions + 1)'
      <4>1. WithinRest(admissions + 1)'
        BY <1>1, NothingSpentYet, PTL
      <4>2. QED
        BY <3>4, <4>1
    <3>5. QED
      BY <3>2, <3>3, <3>4
  <2>4. ASSUME EntryAges \/ UNCHANGED windowVars PROVE WithinRest(x)'
    <3>1. /\ young' \subseteq young
          /\ UNCHANGED <<bucket, timestamps, holding, admissions>>
      BY <2>4 DEF EntryAges, windowVars
    <3>2. x \in young \cup {admissions + 1}
      BY <3>1
    <3>3. WithinRest(x)
      BY <2>1, <3>2
    <3>4. QED
      BY <3>1, <3>3 DEF WithinRest
  <2>5. QED
    BY <2>2, <2>3, <2>4 DEF WindowNext
<1>3. QED
  BY <1>1, <1>2 DEF WindowInv

\* The limiter's lists stay as short as its limit, for any number of threads; and two
\* threads admit no more than limit * (limit + 3) / 2 within a window, however they
\* overwrite each other's entries.
THEOREM LimiterStaysWithin ==
  WindowSpec => [](WindowTypeOK /\ ListsStayShort /\ AdmittedInWindow)
<1>1. WindowInit => WindowInv
  <2> SUFFICES ASSUME WindowInit PROVE WindowInv
    OBVIOUS
  <2>1. WindowShape
    <3>1. /\ bucket = {} /\ timestamps = [t \in Threads |-> {}] /\ holding = {}
          /\ young = {} /\ admissions = 0
      BY DEF WindowInit
    <3>2. MaxRequests \in Nat \ {0} /\ MaxAdmissions \in Nat
      BY WindowAssumption
    <3>3. 1 \in 1..(admissions + 1) /\ young = 1..admissions
      BY <3>1
    <3>4. Cardinality(bucket) <= MaxRequests
      BY <3>1, <3>2, FS_EmptySet
    <3>5. WindowTypeOK
      BY <3>1, <3>2 DEF WindowTypeOK
    <3>6. QED
      BY <3>1, <3>3, <3>4, <3>5 DEF WindowShape, ListsStayShort
  <2>2. \A x \in young \cup {admissions + 1} : WithinRest(x)
    BY <2>1, NothingSpentYet DEF WindowInit
  <2>3. QED
    BY <2>1, <2>2 DEF WindowInv
<1>2. WindowInv => WindowTypeOK /\ ListsStayShort /\ AdmittedInWindow
  <2> SUFFICES ASSUME WindowInv, Cardinality(Threads) <= 2
               PROVE  2 * Cardinality(young) <= MaxRequests * (MaxRequests + 3)
    BY DEF WindowInv, WindowShape, AdmittedInWindow
  <2>1. PICK m \in 1..(admissions + 1) : young = m..admissions
    BY DEF WindowInv, WindowShape
  <2>2. admissions \in Nat /\ MaxRequests \in Nat /\ m \in Int /\ Rest(0) \in Nat
    BY WindowAssumption, RestFalls DEF WindowInv, WindowShape, WindowTypeOK
  <2>3. Cardinality(young) = admissions + 1 - m
    <3>1. Cardinality(young) = IF m > admissions THEN 0 ELSE admissions - m + 1
      BY <2>1, <2>2, FS_Interval
    <3>2. QED
      BY <2>1, <2>2, <3>1
  <2>4. m \in young \cup {admissions + 1}
    BY <2>1, <2>2
  <2>5. WithinRest(m) /\ WindowShape
    BY <2>4 DEF WindowInv
  <2>6. 2 * (admissions + 1 - m) <= Rest(0)
    BY <2>1, <2>5, SpentIsWithin
  <2>7. Rest(0) = MaxRequests * (MaxRequests + 3)
    BY <2>2 DEF Rest
  <2>8. QED
    BY <2>3, <2>6, <2>7
<1>3. QED
  BY <1>1, <1>2, WindowInvStep, PTL DEF WindowSpec

-----------------------------------------------------------------------------
(* The services side by side                                               *)

\* The federation's counters are within their bounds.
LEMMA FedTypeCorrect == FedSpec => []FedTypeOK
<1> DEFINE Bounds == fedSent \in 0..MaxTasks /\ fedStale \subseteq FedOps
<1>1. FedInit => Bounds
  BY FedAssumption DEF FedInit
<1>2. Bounds /\ [FedNext]_fedVars => Bounds'
  <2> SUFFICES ASSUME Bounds, [FedNext]_fedVars PROVE Bounds'
    OBVIOUS
  <2>1. ASSUME NEW t \in Tasks, DispatchScan(t) PROVE Bounds'
    BY <2>1, FedAssumption DEF DispatchScan, Tasks
  <2>2. ASSUME NEW o \in FedOps, WriteFile(o) PROVE Bounds'
    BY <2>2 DEF WriteFile
  <2>3. ASSUME NEW o \in FedOps, FedCrash(o) PROVE Bounds'
    BY <2>3 DEF FedCrash
  <2>4. ASSUME UNCHANGED <<fedSent, fedStale>> PROVE Bounds'
    BY <2>4
  <2>5. CASE UNCHANGED fedVars
    BY <2>4, <2>5 DEF fedVars
  <2>6. CASE FedNext
    <3>1. \/ \E t \in Tasks : DispatchScan(t)
          \/ \E o \in FedOps : WriteFile(o) \/ FedCrash(o)
          \/ UNCHANGED <<fedSent, fedStale>>
      BY <2>6 DEF FedNext, InitializeNode, PingAllNodes, RegisterPeer, RemoveNode, PingNode,
                  PingAnswered, SendToNodes, CollectResults, ResultsArrive, TruncateFile
    <3>2. QED
      BY <2>1, <2>2, <2>3, <2>4, <3>1
  <2>7. QED
    BY <2>5, <2>6
<1>3. FedInv /\ Bounds => FedTypeOK
  BY DEF FedInv, FedTypeOK, Sound
<1>4. QED
  BY <1>1, <1>2, <1>3, CopiesStaySound, PTL DEF FedSpec

Parts == {"ioc", "dark", "fed", "json", "traffic", "vpn", "quota", "window", "sockets",
          "license", "archive"}

\* A behaviour of the services is one of each of them: the one that was chosen takes its
\* steps, the others stutter.
LEMMA EachServiceRuns ==
  /\ ServicesSpec => IocSpec
  /\ ServicesSpec => DarkSpec
  /\ ServicesSpec => FedSpec
  /\ ServicesSpec => JsonSpec
  /\ ServicesSpec => TrafficSpec
  /\ ServicesSpec => VpnSpec
  /\ ServicesSpec => QuotaSpec
  /\ ServicesSpec => WindowSpec
  /\ ServicesSpec => SocketSpec
  /\ ServicesSpec => LicenseSpec
  /\ ServicesSpec => ArchiveSpec
  /\ ServicesSpec => [](part \in Parts)
<1>1. ServicesSpec => IocSpec
  <2>1. ServicesInit => IocInit
    BY DEF ServicesInit
  <2>2. [ServicesNext]_servicesVars => [IocNext]_iocVars
    <3>1. ServicesNext => IocNext \/ UNCHANGED iocVars
      BY DEF ServicesNext, Stays
    <3>2. UNCHANGED servicesVars => UNCHANGED iocVars
      BY DEF servicesVars
    <3>3. QED
      BY <3>1, <3>2
  <2>3. QED
    BY <2>1, <2>2, PTL DEF ServicesSpec, IocSpec
<1>2. ServicesSpec => DarkSpec
  <2>1. ServicesInit => DarkInit
    BY DEF ServicesInit
  <2>2. [ServicesNext]_servicesVars => [DarkNext]_darkVars
    <3>1. ServicesNext => DarkNext \/ UNCHANGED darkVars
      BY DEF ServicesNext, Stays
    <3>2. UNCHANGED servicesVars => UNCHANGED darkVars
      BY DEF servicesVars
    <3>3. QED
      BY <3>1, <3>2
  <2>3. QED
    BY <2>1, <2>2, PTL DEF ServicesSpec, DarkSpec
<1>3. ServicesSpec => FedSpec
  <2>1. ServicesInit => FedInit
    BY DEF ServicesInit
  <2>2. [ServicesNext]_servicesVars => [FedNext]_fedVars
    <3>1. ServicesNext => FedNext \/ UNCHANGED fedVars
      BY DEF ServicesNext, Stays
    <3>2. UNCHANGED servicesVars => UNCHANGED fedVars
      BY DEF servicesVars
    <3>3. QED
      BY <3>1, <3>2
  <2>3. QED
    BY <2>1, <2>2, PTL DEF ServicesSpec, FedSpec
<1>4. ServicesSpec => JsonSpec
  <2>1. ServicesInit => JsonInit
    BY DEF ServicesInit
  <2>2. [ServicesNext]_servicesVars => [JsonNext]_jsonVars
    <3>1. ServicesNext => JsonNext \/ UNCHANGED jsonVars
      BY DEF ServicesNext, Stays
    <3>2. UNCHANGED servicesVars => UNCHANGED jsonVars
      BY DEF servicesVars
    <3>3. QED
      BY <3>1, <3>2
  <2>3. QED
    BY <2>1, <2>2, PTL DEF ServicesSpec, JsonSpec
<1>5. ServicesSpec => TrafficSpec
  <2>1. ServicesInit => TrafficInit
    BY DEF ServicesInit
  <2>2. [ServicesNext]_servicesVars => [TrafficNext]_trafficVars
    <3>1. ServicesNext => TrafficNext \/ UNCHANGED trafficVars
      BY DEF ServicesNext, Stays
    <3>2. UNCHANGED servicesVars => UNCHANGED trafficVars
      BY DEF servicesVars
    <3>3. QED
      BY <3>1, <3>2
  <2>3. QED
    BY <2>1, <2>2, PTL DEF ServicesSpec, TrafficSpec
<1>6. ServicesSpec => VpnSpec
  <2>1. ServicesInit => VpnInit
    BY DEF ServicesInit
  <2>2. [ServicesNext]_servicesVars => [VpnNext]_vpnVars
    <3>1. ServicesNext => VpnNext \/ UNCHANGED vpnVars
      BY DEF ServicesNext, Stays
    <3>2. UNCHANGED servicesVars => UNCHANGED vpnVars
      BY DEF servicesVars
    <3>3. QED
      BY <3>1, <3>2
  <2>3. QED
    BY <2>1, <2>2, PTL DEF ServicesSpec, VpnSpec
<1>7. ServicesSpec => QuotaSpec
  <2>1. ServicesInit => QuotaInit
    BY DEF ServicesInit
  <2>2. [ServicesNext]_servicesVars => [QuotaNext]_quotaVars
    <3>1. ServicesNext => QuotaNext \/ UNCHANGED quotaVars
      BY DEF ServicesNext, Stays
    <3>2. UNCHANGED servicesVars => UNCHANGED quotaVars
      BY DEF servicesVars
    <3>3. QED
      BY <3>1, <3>2
  <2>3. QED
    BY <2>1, <2>2, PTL DEF ServicesSpec, QuotaSpec
<1>8. ServicesSpec => WindowSpec
  <2>1. ServicesInit => WindowInit
    BY DEF ServicesInit
  <2>2. [ServicesNext]_servicesVars => [WindowNext]_windowVars
    <3>1. ServicesNext => WindowNext \/ UNCHANGED windowVars
      BY DEF ServicesNext, Stays
    <3>2. UNCHANGED servicesVars => UNCHANGED windowVars
      BY DEF servicesVars
    <3>3. QED
      BY <3>1, <3>2
  <2>3. QED
    BY <2>1, <2>2, PTL DEF ServicesSpec, WindowSpec
<1>9. ServicesSpec => SocketSpec
  <2>1. ServicesInit => SocketInit
    BY DEF ServicesInit
  <2>2. [ServicesNext]_servicesVars => [SocketNext]_socketVars
    <3>1. ServicesNext => SocketNext \/ UNCHANGED socketVars
      BY DEF ServicesNext, Stays
    <3>2. UNCHANGED servicesVars => UNCHANGED socketVars
      BY DEF servicesVars
    <3>3. QED
      BY <3>1, <3>2
  <2>3. QED
    BY <2>1, <2>2, PTL DEF ServicesSpec, SocketSpec
<1>10. ServicesSpec => LicenseSpec
  <2>1. ServicesInit => LicenseInit
    BY DEF ServicesInit
  <2>2. [ServicesNext]_servicesVars => [LicenseNext]_licenseVars
    <3>1. ServicesNext => LicenseNext \/ UNCHANGED licenseVars
      BY DEF ServicesNext, Stays
    <3>2. UNCHANGED servicesVars => UNCHANGED licenseVars
      BY DEF servicesVars
    <3>3. QED
      BY <3>1, <3>2
  <2>3. QED
    BY <2>1, <2>2, PTL DEF ServicesSpec, LicenseSpec
<1>11. ServicesSpec => ArchiveSpec
  <2>1. ServicesInit => ArchiveInit
    BY DEF ServicesInit
  <2>2. [ServicesNext]_servicesVars => [ArchiveNext]_archiveVars
    <3>1. ServicesNext => ArchiveNext \/ UNCHANGED archiveVars
      BY DEF ServicesNext, Stays
    <3>2. UNCHANGED servicesVars => UNCHANGED archiveVars
      BY DEF servicesVars
    <3>3. QED
      BY <3>1, <3>2
  <2>3. QED
    BY <2>1, <2>2, PTL DEF ServicesSpec, ArchiveSpec
<1>12. ServicesSpec => [](part \in Parts)
  <2>1. ServicesInit => part \in Parts
    BY DEF ServicesInit, Parts
  <2>2. part \in Parts /\ [ServicesNext]_servicesVars => (part \in Parts)'
    BY DEF ServicesNext, servicesVars
  <2>3. QED
    BY <2>1, <2>2, PTL DEF ServicesSpec
<1>13. QED
  BY <1>1, <1>2, <1>3, <1>4, <1>5, <1>6, <1>7, <1>8, <1>9, <1>10, <1>11, <1>12

\* The state of every service has its shape: for any values of the constants.
THEOREM ServicesTypeCorrect == ServicesSpec => []ServicesTypeOK
<1>1. /\ part \in Parts
      /\ IocTypeOK /\ DarkTypeOK /\ FedTypeOK /\ JsonTypeOK /\ TrafficTypeOK /\ VpnTypeOK
      /\ QuotaTypeOK /\ WindowTypeOK /\ SocketInv /\ LicenseInv /\ ArchiveTypeOK
      => ServicesTypeOK
  BY DEF ServicesTypeOK, Parts, SocketInv, LicenseInv
<1>2. QED
  BY <1>1, EachServiceRuns, BatchesStoredWhole, AlertsStayBounded, FedTypeCorrect,
     StoredAloneIsKept, MarksStayExact, VpnStaysConsistent, QuotaTypeCorrect,
     LimiterStaysWithin, SocketsStayDead, LicensesAreSigned, ArchiveKeepsEverything, PTL

\* What the stores hold is what they were given: whole batches, alerts of leaks that exist,
\* every archived event, the marks of a burst nobody interrupted, peers that agree with
\* their configurations, and the entries that were stored alone.
THEOREM StoresStayExact == ServicesSpec => []StoresAreExact
<1>1. /\ BatchesAreWhole /\ AlertsBounded /\ ArchiveKeepsAll /\ MarksAreExact
      /\ PeersAreConsistent /\ StoredAloneStays
      => StoresAreExact
  BY DEF StoresAreExact
<1>2. QED
  BY <1>1, EachServiceRuns, BatchesStoredWhole, AlertsStayBounded, ArchiveKeepsEverything,
     MarksStayExact, VpnStaysConsistent, StoredAloneIsKept, PTL

\* The quotas, the limiter and the sockets let no more through than was under way when
\* their limit was reached.
THEOREM LimitsAlwaysHold == ServicesSpec => []LimitsHold
<1>1. /\ OvershootIsInFlight /\ ListsStayShort /\ AdmittedInWindow /\ SocketsAreCounted
      => LimitsHold
  BY DEF LimitsHold
<1>2. QED
  BY <1>1, EachServiceRuns, OvershootBounded, LimiterStaysWithin, SocketsCounted, PTL
=============================================================================
