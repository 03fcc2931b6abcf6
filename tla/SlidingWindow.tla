--------------------------- MODULE SlidingWindow ---------------------------
(***************************************************************************)
(* The in-memory limiter in front of most routes: web/rate_limit.py        *)
(* rate_limiter, and app/core/rate_limit.py enforce_rate_limit, which is   *)
(* the same function.  Both are plain functions, so the framework runs     *)
(* them in its thread pool, and no lock covers them: a thread copies the   *)
(* young part of the address's list, and later puts its own copy, with     *)
(* one more entry, in the list's place.  Entries are numbered in the order *)
(* in which they were admitted.                                            *)
(***************************************************************************)
EXTENDS FiniteSets, Naturals

CONSTANTS
  Threads,        \* the threads that serve this address
  MaxRequests,    \* max_requests
  MaxAdmissions   \* bound: admissions in a behaviour

ASSUME WindowAssumption ==
  /\ IsFiniteSet(Threads) /\ MaxRequests \in Nat \ {0} /\ MaxAdmissions \in Nat

VARIABLES
  bucket,    \* bucket[ip]: the entries the list holds
  timestamps,\* each thread's copy
  holding,   \* the threads between their copy and their write
  young,     \* the admissions not yet older than the window
  admissions \* how many there have been

windowVars == <<bucket, timestamps, holding, young, admissions>>

WindowInit ==
  /\ bucket = {}
  /\ timestamps = [t \in Threads |-> {}]
  /\ holding = {}
  /\ young = {}
  /\ admissions = 0

\* Mutant of Admits.
AdmitsAtLimit(entries) == Cardinality(entries) <= MaxRequests

\* Below the limit the thread goes on to write; otherwise it raises 429.
Admits(entries) == Cardinality(entries) < MaxRequests

CopyTimestamps(t) ==
  /\ t \notin holding
  /\ Admits(bucket \cap young)
  /\ admissions < MaxAdmissions
  /\ timestamps' = [timestamps EXCEPT ![t] = bucket \cap young]
  /\ holding' = holding \cup {t}
  /\ UNCHANGED <<bucket, young, admissions>>

WriteTimestamps(t) ==
  /\ t \in holding
  /\ admissions < MaxAdmissions
  /\ admissions' = admissions + 1
  /\ bucket' = timestamps[t] \cup {admissions'}
  /\ young' = young \cup {admissions'}
  /\ timestamps' = [timestamps EXCEPT ![t] = {}]
  /\ holding' = holding \ {t}

\* The oldest admission leaves the window.
EntryAges ==
  /\ young # {}
  /\ young' = young \ {CHOOSE e \in young : \A f \in young : e <= f}
  /\ UNCHANGED <<bucket, timestamps, holding, admissions>>

WindowNext ==
  \/ \E t \in Threads : CopyTimestamps(t) \/ WriteTimestamps(t)
  \/ EntryAges

WindowSpec == WindowInit /\ [][WindowNext]_windowVars

-----------------------------------------------------------------------------

WindowTypeOK ==
  /\ admissions \in 0..MaxAdmissions
  /\ bucket \subseteq 1..MaxAdmissions
  /\ timestamps \in [Threads -> SUBSET (1..MaxAdmissions)]
  /\ holding \subseteq Threads
  /\ young \subseteq 1..MaxAdmissions

\* Nobody holds a longer list than the limit admits, however the copies of
\* the threads overwrite each other.
ListsStayShort ==
  /\ Cardinality(bucket) <= MaxRequests
  /\ \A t \in holding : Cardinality(timestamps[t]) < MaxRequests

\* Threads that overwrite each other's entries admit more than the limit
\* within one window, but two of them at most limit * (limit + 3) / 2: one
\* waits with a copy of k entries while the other fills the list, and its
\* write then leaves k + 1, for every k below the limit.
AdmittedInWindow ==
  Cardinality(Threads) <= 2 =>
    2 * Cardinality(young) <= MaxRequests * (MaxRequests + 3)
=============================================================================
