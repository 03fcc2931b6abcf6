--------------------------- MODULE InstanceLicense ---------------------------
(***************************************************************************)
(* The signed license of the installation (web/license.py and its routes   *)
(* in web/app.py).  It lives in data/license.json, which every worker       *)
(* process reads once and then keeps in its global _current_license: a save *)
(* truncates the file and writes it, and nothing tells the other workers.   *)
(* The clock of the model counts days.  A key that is refused changes       *)
(* nothing here; the limiter that counts it is a meter of Quotas.           *)
(***************************************************************************)
EXTENDS Naturals

CONSTANTS
  WebWorkers,
  LicenseKeys,   \* strings an administrator may present
  Signed,        \* those that generate_license_key made with this secret
  TierOf,        \* what a signed key says of its tier ...
  ExpiryOf,      \* ... and the last day on which it is valid
  LastDay        \* the clock stops here

FreePlan == "FREE"
EmptyFile == "empty"    \* truncated, not written
TornLicense == "torn"      \* two texts on top of each other
AbsentFile == "absent"
Unset == "unset"

ASSUME LicenseAssumption ==
  /\ Signed \subseteq LicenseKeys
  /\ TierOf \in [LicenseKeys -> {"pro", "enterprise"}]
  /\ ExpiryOf \in [LicenseKeys -> Nat]
  /\ LastDay \in Nat
  /\ LicenseKeys \cap {FreePlan, EmptyFile, TornLicense, AbsentFile, Unset} = {}

VARIABLES
  licenseFile,   \* data/license.json
  licenseCache,  \* _current_license of each worker
  saving,        \* the license a worker has truncated the file for, or Unset
  fresh,         \* the file has not been touched since the worker's copy was made
  today

licenseVars == <<licenseFile, licenseCache, saving, fresh, today>>

LicenseInit ==
  /\ licenseFile = AbsentFile
  /\ licenseCache = [w \in WebWorkers |-> Unset]
  /\ saving = [w \in WebWorkers |-> Unset]
  /\ fresh = [w \in WebWorkers |-> FALSE]
  /\ today = 0

-----------------------------------------------------------------------------

\* TIER_FEATURES: each tier has the features of the tier below it.
TierFeatures ==
  [free       |-> {"free"},
   pro        |-> {"free", "pro"},
   enterprise |-> {"free", "pro", "enterprise"}]

LicenseExpired(lic) == lic # FreePlan /\ today > ExpiryOf[lic]

Verifies(key) == key \in Signed /\ ~LicenseExpired(key)

\* load_license verifies the key again and returns the license the file describes:
\* that of the key, as nothing but save_license writes the file.
LoadLicense(f) == IF f \in LicenseKeys /\ Verifies(f) THEN f ELSE FreePlan

\* Mutant of FeaturesOf.
FeaturesOfTheTier(lic) == TierFeatures[IF lic = FreePlan THEN "free" ELSE TierOf[lic]]

\* has_feature: a license that has expired in memory falls back to free.
FeaturesOf(lic) ==
  TierFeatures[IF lic = FreePlan \/ LicenseExpired(lic) THEN "free" ELSE TierOf[lic]]

\* get_license.
CurrentLicense(w) ==
  IF licenseCache[w] = Unset THEN LoadLicense(licenseFile) ELSE licenseCache[w]

-----------------------------------------------------------------------------

\* A request that asks for a feature of the installation.
GetLicense(w) ==
  /\ saving[w] = Unset /\ licenseCache[w] = Unset
  /\ licenseCache' = [licenseCache EXCEPT ![w] = LoadLicense(licenseFile)]
  /\ fresh' = [fresh EXCEPT ![w] = TRUE]
  /\ UNCHANGED <<licenseFile, saving, today>>

\* write_text opens the file, which empties it.
BeginSave(w, lic) ==
  /\ saving[w] = Unset
  /\ saving' = [saving EXCEPT ![w] = lic]
  /\ licenseFile' = EmptyFile
  /\ fresh' = [v \in WebWorkers |-> FALSE]
  /\ UNCHANGED <<licenseCache, today>>

ActivateLicense(w) == \E k \in LicenseKeys : Verifies(k) /\ BeginSave(w, k)

DeactivateLicense(w) == BeginSave(w, FreePlan)

\* ... and writes: over what another worker wrote since, whose longer text may
\* show behind this one's.
EndSave(w) ==
  /\ saving[w] # Unset
  /\ licenseFile' \in {saving[w]} \cup (IF licenseFile = EmptyFile THEN {} ELSE {TornLicense})
  /\ licenseCache' = [licenseCache EXCEPT ![w] = saving[w]]
  /\ fresh' = [v \in WebWorkers |-> v = w /\ licenseFile' = saving[w]]
  /\ saving' = [saving EXCEPT ![w] = Unset]
  /\ UNCHANGED today

\* Mutant of SaveFails.
SaveFailsSilently(w) ==
  /\ saving[w] # Unset
  /\ licenseCache' = [licenseCache EXCEPT ![w] = saving[w]]
  /\ fresh' = [fresh EXCEPT ![w] = TRUE]
  /\ saving' = [saving EXCEPT ![w] = Unset]
  /\ UNCHANGED <<licenseFile, today>>

\* The disk is full: save_license raises before the cache is assigned.
SaveFails(w) ==
  /\ saving[w] # Unset
  /\ saving' = [saving EXCEPT ![w] = Unset]
  /\ UNCHANGED <<licenseFile, licenseCache, fresh, today>>

RestartWorker(w) ==
  /\ licenseCache' = [licenseCache EXCEPT ![w] = Unset]
  /\ saving' = [saving EXCEPT ![w] = Unset]
  /\ fresh' = [fresh EXCEPT ![w] = FALSE]
  /\ UNCHANGED <<licenseFile, today>>

DayPasses ==
  /\ today < LastDay
  /\ today' = today + 1
  /\ UNCHANGED <<licenseFile, licenseCache, saving, fresh>>

LicenseNext ==
  \/ \E w \in WebWorkers :
       \/ GetLicense(w) \/ ActivateLicense(w) \/ DeactivateLicense(w)
       \/ EndSave(w) \/ SaveFails(w) \/ RestartWorker(w)
  \/ DayPasses

LicenseSpec == LicenseInit /\ [][LicenseNext]_licenseVars

-----------------------------------------------------------------------------

LicenseTypeOK ==
  /\ licenseFile \in LicenseKeys \cup {FreePlan, EmptyFile, TornLicense, AbsentFile}
  /\ licenseCache \in [WebWorkers -> LicenseKeys \cup {FreePlan, Unset}]
  /\ saving \in [WebWorkers -> LicenseKeys \cup {FreePlan, Unset}]
  /\ fresh \in [WebWorkers -> BOOLEAN]
  /\ today \in 0..LastDay

\* Whatever is saved, lost, overwritten or let expire meanwhile, a worker
\* grants more than the free features only for a key that was signed here and
\* has not expired.
PaidNeedsALiveKey ==
  \A w \in WebWorkers :
    FeaturesOf(CurrentLicense(w)) # TierFeatures["free"] =>
      CurrentLicense(w) \in Signed /\ today <= ExpiryOf[CurrentLicense(w)]

\* The copy of a worker grants something else than the file would only if the
\* file was touched after the copy was made: a save that failed, or a key that
\* expired, does not make them differ.
FreshCachesAgree ==
  \A w \in WebWorkers :
    fresh[w] => FeaturesOf(licenseCache[w]) = FeaturesOf(LoadLicense(licenseFile))

\* Both: no worker grants what no live key grants, nor anything else than the
\* file while its copy is fresh (get_license and its cache).
LicenseIsHonest == PaidNeedsALiveKey /\ FreshCachesAgree

\* web/license.py:323 "Activate a key globally": while no worker is saving, the
\* workers grant the same features.
ActivatedGlobally ==
  (\A w \in WebWorkers : saving[w] = Unset) =>
    \A v, w \in WebWorkers :
      FeaturesOf(CurrentLicense(v)) = FeaturesOf(CurrentLicense(w))
=============================================================================
