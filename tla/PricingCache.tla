---------------------------- MODULE PricingCache ----------------------------
(***************************************************************************)
(* Price calculations over the caches of the pricing rules and of an       *)
(* exchange rate: read the cache, on a miss rebuild it under a lock that   *)
(* expires, or wait and rebuild without it.  Every access to Redis, to the *)
(* database and to the rates' API is a step of its own.  Meanwhile an      *)
(* administrator changes the rules and the periodic task refreshes the     *)
(* rate.  A rate is known by the day the API quoted it.                    *)
(***************************************************************************)
EXTENDS Integers

CONSTANTS CWorkers,   \* requests that calculate a price at the same time
          CTtl,       \* days an exchange rate is cached
          CHorizon,   \* bound: days
          CMaxRules,  \* bound: versions of the rules
          CMaxCrashes \* bound: requests that die

ASSUME CAssumption ==
  /\ CTtl \in Nat \ {0} /\ CHorizon \in Nat /\ CMaxRules \in Nat \ {0} /\ CMaxCrashes \in Nat

VARIABLES
  cDay,       \* the day it is
  cApiUp,     \* the rates' API answers
  cDbRules,   \* database: version of the rules; 0: there are none
  cAdmin,     \* administrator's request: "idle", "flushed", "invalidated"
  cRules,     \* Redis: version of the rules cached, or Nothing
  cRulesLock, \* Redis: lock of the rules' rebuilding
  cRate,      \* Redis: [rate, till], or NoRate
  cRateLock,  \* Redis: lock of the rate's rebuilding
  cPc,        \* request: the step it is at
  cHolds,     \* request: lock_acquired
  cGot,       \* request: rules and rate it has got
  cCrashes    \* counter for CMaxCrashes

cRedis == <<cRules, cRulesLock, cRate, cRateLock>>
cRequest == <<cPc, cHolds, cGot>>
cVars == <<cDay, cApiUp, cDbRules, cAdmin, cRedis, cRequest, cCrashes>>

Nothing == -1
FromRules == -2  \* the rate of the rules, or of the engine's defaults
NoRate == [rate |-> Nothing, till |-> 0]
CSteps == {"idle", "lockRules", "waitRules", "readRules", "storeRules", "unlockRules",
           "rate", "lockRate", "waitRate", "fetchRate", "storeRate", "unlockRate", "use"}

CInit ==
  /\ cDay = 0 /\ cApiUp \in BOOLEAN
  /\ cDbRules \in {0, 1} /\ cAdmin = "idle"
  /\ cRules = Nothing /\ cRulesLock = FALSE /\ cRate = NoRate /\ cRateLock = FALSE
  /\ cPc = [w \in CWorkers |-> "idle"] /\ cHolds = [w \in CWorkers |-> FALSE]
  /\ cGot = [w \in CWorkers |-> [rules |-> Nothing, rate |-> Nothing]]
  /\ cCrashes = 0

Goto(w, step) == cPc' = [cPc EXCEPT ![w] = step]
Rest == UNCHANGED <<cDay, cApiUp, cDbRules, cAdmin, cCrashes>>

-----------------------------------------------------------------------------
(* The rules *)

\* get_cached_rules: on a hit the request goes on to the rate.
GetCachedRules(w, miss) ==
  /\ IF cRules # Nothing THEN cGot' = [cGot EXCEPT ![w].rules = cRules] /\ Goto(w, "rate")
                         ELSE UNCHANGED cGot /\ Goto(w, miss)
  /\ UNCHANGED <<cRedis, cHolds>> /\ Rest

CalculatePrice(w) == cPc[w] = "idle" /\ GetCachedRules(w, "lockRules")

\* SET NX: one request gets the lock, the others wait.
LockRules(w) ==
  /\ cPc[w] = "lockRules"
  /\ cRulesLock' = TRUE /\ cHolds' = [cHolds EXCEPT ![w] = ~cRulesLock]
  /\ Goto(w, IF cRulesLock THEN "waitRules" ELSE "readRules")
  /\ UNCHANGED <<cRules, cRate, cRateLock, cGot>> /\ Rest

\* Mutant of AfterWaiting: wait on as long as the lock is held.
WaitOn(lock, waiting, go) == IF lock THEN waiting ELSE go

\* After the wait a request goes on, whoever holds the lock.
AfterWaiting(lock, waiting, go) == go

WaitRules(w) ==
  cPc[w] = "waitRules" /\ GetCachedRules(w, AfterWaiting(cRulesLock, "waitRules", "readRules"))

\* What is committed.
ReadRules(w) ==
  /\ cPc[w] = "readRules"
  /\ cGot' = [cGot EXCEPT ![w].rules = cDbRules]
  /\ Goto(w, "storeRules")
  /\ UNCHANGED <<cRedis, cHolds>> /\ Rest

\* No rules, nothing cached.
StoreRules(w) ==
  /\ cPc[w] = "storeRules"
  /\ cRules' = (IF cGot[w].rules = 0 THEN cRules ELSE cGot[w].rules)
  /\ Goto(w, IF cHolds[w] THEN "unlockRules" ELSE "rate")
  /\ UNCHANGED <<cRulesLock, cRate, cRateLock, cHolds, cGot>> /\ Rest

\* The lock is deleted, by now perhaps another request's.
UnlockRules(w) ==
  /\ cPc[w] = "unlockRules"
  /\ cRulesLock' = FALSE /\ cHolds' = [cHolds EXCEPT ![w] = FALSE]
  /\ Goto(w, "rate")
  /\ UNCHANGED <<cRules, cRate, cRateLock, cGot>> /\ Rest

-----------------------------------------------------------------------------
(* The exchange rate *)

Cached == cRate.till > cDay

GetCachedRate(w, miss) ==
  /\ IF Cached THEN cGot' = [cGot EXCEPT ![w].rate = cRate.rate] /\ Goto(w, "use")
               ELSE UNCHANGED cGot /\ Goto(w, miss)
  /\ UNCHANGED <<cRedis, cHolds>> /\ Rest

GetExchangeRate(w) == cPc[w] = "rate" /\ GetCachedRate(w, "lockRate")

LockRate(w) ==
  /\ cPc[w] = "lockRate"
  /\ cRateLock' = TRUE /\ cHolds' = [cHolds EXCEPT ![w] = ~cRateLock]
  /\ Goto(w, IF cRateLock THEN "waitRate" ELSE "fetchRate")
  /\ UNCHANGED <<cRules, cRulesLock, cRate, cGot>> /\ Rest

WaitRate(w) ==
  cPc[w] = "waitRate" /\ GetCachedRate(w, AfterWaiting(cRateLock, "waitRate", "fetchRate"))

\* The API's rate of today; without an answer the rules' rate is used.
FetchRate(w) ==
  /\ cPc[w] = "fetchRate"
  /\ cGot' = [cGot EXCEPT ![w].rate = IF cApiUp THEN cDay ELSE FromRules]
  /\ Goto(w, IF cApiUp THEN "storeRate" ELSE IF cHolds[w] THEN "unlockRate" ELSE "use")
  /\ UNCHANGED <<cRedis, cHolds>> /\ Rest

SetCachedExchangeRate(rate) == cRate' = [rate |-> rate, till |-> cDay + CTtl]

StoreRate(w) ==
  /\ cPc[w] = "storeRate"
  /\ SetCachedExchangeRate(cGot[w].rate)
  /\ Goto(w, IF cHolds[w] THEN "unlockRate" ELSE "use")
  /\ UNCHANGED <<cRules, cRulesLock, cRateLock, cHolds, cGot>> /\ Rest

UnlockRate(w) ==
  /\ cPc[w] = "unlockRate"
  /\ cRateLock' = FALSE /\ cHolds' = [cHolds EXCEPT ![w] = FALSE]
  /\ Goto(w, "use")
  /\ UNCHANGED <<cRules, cRulesLock, cRate, cGot>> /\ Rest

\* The calculation; then the rate it used is cached anew, for the whole time.
UseRate(w) ==
  /\ cPc[w] = "use"
  /\ SetCachedExchangeRate(cGot[w].rate)
  /\ cGot' = [cGot EXCEPT ![w] = [rules |-> Nothing, rate |-> Nothing]]
  /\ Goto(w, "idle")
  /\ UNCHANGED <<cDay, cApiUp, cDbRules, cAdmin, cRules, cRulesLock, cRateLock, cHolds, cCrashes>>

\* A request dies: what it has locked stays locked.
Dies(w) ==
  /\ cPc[w] # "idle" /\ cCrashes < CMaxCrashes
  /\ cCrashes' = cCrashes + 1
  /\ cGot' = [cGot EXCEPT ![w] = [rules |-> Nothing, rate |-> Nothing]]
  /\ cHolds' = [cHolds EXCEPT ![w] = FALSE]
  /\ Goto(w, "idle")
  /\ UNCHANGED <<cDay, cApiUp, cDbRules, cAdmin, cRedis>>

-----------------------------------------------------------------------------
(* Changes, refreshes, and time *)

\* create_rule, update_rule, delete_rule: flush, invalidate, and commit when
\* the request ends.
ChangeRule ==
  /\ cAdmin = "idle" /\ cDbRules < CMaxRules /\ cAdmin' = "flushed"
  /\ UNCHANGED <<cDay, cApiUp, cDbRules, cRedis, cRequest, cCrashes>>

InvalidateRulesCache ==
  /\ cAdmin = "flushed" /\ cAdmin' = "invalidated"
  /\ cRules' = Nothing
  /\ UNCHANGED <<cDay, cApiUp, cDbRules, cRulesLock, cRate, cRateLock, cRequest, cCrashes>>

CommitRule ==
  /\ cAdmin = "invalidated" /\ cAdmin' = "idle"
  /\ cDbRules' = cDbRules + 1
  /\ UNCHANGED <<cDay, cApiUp, cRedis, cRequest, cCrashes>>

\* The periodic task, and the administrators' endpoint: today's rate, if the
\* API answers (and, for the task, if a rule names the pair).
RefreshExchangeRates ==
  /\ cApiUp /\ SetCachedExchangeRate(cDay)
  /\ UNCHANGED <<cDay, cApiUp, cDbRules, cAdmin, cRules, cRulesLock, cRateLock, cRequest, cCrashes>>

\* Mutant of ExpiryOfRules: the rules are cached for good.
NoExpiryOfRules(rules) == FALSE

\* RULES_CACHE_TTL: an hour after they were stored the rules are gone.
ExpiryOfRules(rules) == rules # Nothing

RulesExpire ==
  /\ ExpiryOfRules(cRules) /\ cRules' = Nothing
  /\ UNCHANGED <<cDay, cApiUp, cDbRules, cAdmin, cRulesLock, cRate, cRateLock, cRequest, cCrashes>>

\* REBUILD_LOCK_TTL: ten seconds, whether the holder has finished or not.
LockExpires ==
  /\ \/ cRulesLock /\ cRulesLock' = FALSE /\ UNCHANGED cRateLock
     \/ cRateLock /\ cRateLock' = FALSE /\ UNCHANGED cRulesLock
  /\ UNCHANGED <<cDay, cApiUp, cDbRules, cAdmin, cRules, cRate, cRequest, cCrashes>>

\* A calculation takes seconds: none is under way from one day to the next.
NextDay ==
  /\ cDay < CHorizon /\ \A w \in CWorkers : cPc[w] = "idle"
  /\ cDay' = cDay + 1 /\ cApiUp' \in BOOLEAN
  /\ UNCHANGED <<cDbRules, cAdmin, cRedis, cRequest, cCrashes>>

-----------------------------------------------------------------------------

CProceed(w) ==
  \/ LockRules(w) \/ WaitRules(w) \/ ReadRules(w) \/ StoreRules(w) \/ UnlockRules(w)
  \/ GetExchangeRate(w) \/ LockRate(w) \/ WaitRate(w) \/ FetchRate(w) \/ StoreRate(w)
  \/ UnlockRate(w) \/ UseRate(w)

CNext ==
  \/ \E w \in CWorkers : CalculatePrice(w) \/ CProceed(w) \/ Dies(w)
  \/ ChangeRule \/ InvalidateRulesCache \/ CommitRule
  \/ RefreshExchangeRates \/ RulesExpire \/ LockExpires \/ NextDay

CSpec == CInit /\ [][CNext]_cVars

\* Requests go on and rules expire.  Locks need not: nobody waits for them.
CFairness ==
  /\ \A w \in CWorkers : WF_cVars(CProceed(w))
  /\ WF_cVars(RulesExpire) /\ WF_cVars(InvalidateRulesCache) /\ WF_cVars(CommitRule)

-----------------------------------------------------------------------------
(* Properties *)

\* Type invariant.
CTypeOK ==
  /\ cDay \in 0 .. CHorizon /\ cDbRules \in 0 .. CMaxRules /\ cAdmin \in {"idle", "flushed", "invalidated"}
  /\ cRules \in {Nothing} \cup 1 .. CMaxRules
  /\ cRate \in [rate : {Nothing, FromRules} \cup 0 .. CHorizon, till : 0 .. CHorizon + CTtl]
  /\ {cApiUp, cRulesLock, cRateLock} \subseteq BOOLEAN
  /\ cPc \in [CWorkers -> CSteps] /\ cHolds \in [CWorkers -> BOOLEAN]
  /\ cCrashes \in 0 .. CMaxCrashes

\* A changed rule is used in the end: requests that cache the old rules again
\* between the invalidation and the commit, or after both, do not do so for
\* ever.
ChangedRulesReach == <>[](cRules \in {Nothing, cDbRules})

\* Every calculation ends, also when the request that holds a lock has died.
CalculationsEnd == \A w \in CWorkers : cPc[w] # "idle" ~> cPc[w] = "idle"

=============================================================================
