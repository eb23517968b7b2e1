---------------------------- MODULE TablesProofs ----------------------------
(* Theorems about the services that keep tables of their own: Accounts,    *)
(* StudyPlans, Legislature, ItemCalibration, RLHFExport and DummyData, each *)
(* for every value of its constants.                                       *)
EXTENDS Accounts, StudyPlans, Legislature, ItemCalibration, RLHFExport,
        DummyData, FiniteSetTheorems, FunctionTheorems, TLAPS

-----------------------------------------------------------------------------
(* Accounts, for every length of a second and of a token's life.           *)

(* A call carries a token that was given out.                              *)
BearersIssued == \A c \in AuthCalls : bearer[c] \subseteq issued

(* The key of a token whose logout was answered outlives all of the token's *)
(* life but less than a second.                                            *)
KeptNearlyToTheEnd == \A t \in invalidated : blacklist[t] + Second > expiry[t]

AccountsInv == AccountsTypeOK /\ BearersIssued /\ KeptNearlyToTheEnd

(* Whole seconds: at most the duration, and less than a second short of it. *)
LEMMA WholeSeconds ==
    ASSUME NEW n \in Nat
    PROVE  /\ (n \div Second) * Second \in Nat
           /\ (n \div Second) * Second + Second > n
<1>1. Second \in Nat /\ Second > 0
  BY ClockAssumption
<1>2. n \div Second \in Nat /\ n % Second \in 0 .. Second - 1
  BY <1>1
<1>3. n = Second * (n \div Second) + (n % Second)
  BY <1>1
<1> DEFINE q == n \div Second
           m == n % Second
<1>4. q \in Nat /\ m \in 0 .. Second - 1 /\ n = Second * q + m
  BY <1>2, <1>3
<1> SUFFICES q * Second \in Nat /\ q * Second + Second > n
  OBVIOUS
<1> HIDE DEF q, m
<1>5. q * Second \in Nat /\ q * Second = Second * q
  BY <1>1, <1>4
<1> QED
  BY <1>1, <1>4, <1>5

LEMMA InitAccountsInv == AccountsInit => AccountsInv
  BY ClockAssumption
     DEF AccountsInit, AccountsInv, AccountsTypeOK, BearersIssued,
         KeptNearlyToTheEnd, Roles

(* A new token is new, so no token that was given out is touched.          *)
LEMMA CreateTokenKeeps ==
    ASSUME AccountsInv, NEW r \in Roles, CreateToken(r),
           UNCHANGED <<tick, blacklist, invalidated, bearer>>
    PROVE  /\ issued' \subseteq Tokens /\ issued \subseteq issued'
           /\ role' \in [Tokens -> Roles]
           /\ expiry' \in [Tokens -> Nat]
           /\ invalidated' \subseteq issued'
           /\ BearersIssued' /\ KeptNearlyToTheEnd'
<1> USE DEF AccountsInv, AccountsTypeOK
<1>1. PICK t \in Tokens \ issued :
        /\ issued' = issued \cup {t}
        /\ role' = [role EXCEPT ![t] = r]
        /\ expiry' = [expiry EXCEPT
                        ![t] = ((tick + Lifetime) \div Second) * Second]
  BY DEF CreateToken
<1>2. ((tick + Lifetime) \div Second) * Second \in Nat
  <2>1. tick + Lifetime \in Nat
    BY ClockAssumption
  <2> QED
    BY <2>1, WholeSeconds
<1>3. \A u \in issued : expiry'[u] = expiry[u]
  BY <1>1
<1>4. BearersIssued'
  BY <1>1 DEF BearersIssued
<1>5. KeptNearlyToTheEnd'
  BY <1>3 DEF KeptNearlyToTheEnd
<1> QED
  BY <1>1, <1>2, <1>4, <1>5

(* The ttl of the key, added to the time of the logout.                    *)
LEMMA RemainingSuffices ==
    ASSUME AccountsInv, NEW t \in Tokens
    PROVE  tick + Remaining(t) \in Nat
           /\ tick + Remaining(t) + Second > expiry[t]
<1> USE ClockAssumption DEF AccountsInv, AccountsTypeOK
<1>1. CASE tick + Second > expiry[t]
  BY <1>1 DEF Remaining
<1>2. CASE ~(tick + Second > expiry[t])
  <2>1. expiry[t] - tick \in Nat
    BY <1>2
  <2> DEFINE kept == ((expiry[t] - tick) \div Second) * Second
  <2>2. kept \in Nat /\ kept + Second > expiry[t] - tick
    BY <2>1, WholeSeconds
  <2>3. Remaining(t) = kept
    BY <1>2 DEF Remaining
  <2> HIDE DEF kept
  <2> QED
    BY <2>2, <2>3
<1> QED
  BY <1>1, <1>2

LEMMA StepAccountsInv ==
    AccountsInv /\ [AccountsNext]_accountsVars => AccountsInv'
<1> SUFFICES ASSUME AccountsInv, [AccountsNext]_accountsVars
             PROVE  AccountsInv'
  OBVIOUS
<1> USE DEF AccountsInv, AccountsTypeOK
<1>1. CASE TimePasses
  BY <1>1, ClockAssumption
     DEF TimePasses, tokenVars, BearersIssued, KeptNearlyToTheEnd
<1>2. ASSUME NEW c \in AuthCalls, Register(c) PROVE AccountsInv'
  BY <1>2 DEF Register, Advance, tokenVars, BearersIssued, KeptNearlyToTheEnd
<1>3. ASSUME NEW c \in AuthCalls, CheckDuplicate(c) PROVE AccountsInv'
  BY <1>3 DEF CheckDuplicate, Advance, tokenVars, BearersIssued,
              KeptNearlyToTheEnd
<1>4. ASSUME NEW c \in AuthCalls, InsertAccount(c) PROVE AccountsInv'
  <2>1. accounts' \subseteq Account
    BY <1>4 DEF InsertAccount, Account
  <2> QED
    BY <1>4, <2>1, CreateTokenKeeps DEF InsertAccount, Advance, Roles
<1>5. ASSUME NEW c \in AuthCalls, LoginByPassword(c) PROVE AccountsInv'
  <2>1. CASE CreateToken("guardian")
    BY <1>5, <2>1, CreateTokenKeeps DEF LoginByPassword, Advance, Roles
  <2>2. CASE UNCHANGED tokenVars
    BY <1>5, <2>2 DEF LoginByPassword, Advance, tokenVars, BearersIssued,
                      KeptNearlyToTheEnd
  <2> QED
    BY <1>5, <2>1, <2>2 DEF LoginByPassword
<1>6. ASSUME NEW c \in AuthCalls, LoginByLearner(c) PROVE AccountsInv'
  <2>1. CASE CreateToken("guardian")
    BY <1>6, <2>1, CreateTokenKeeps DEF LoginByLearner, Advance, Roles
  <2>2. CASE UNCHANGED tokenVars
    BY <1>6, <2>2 DEF LoginByLearner, Advance, tokenVars, BearersIssued,
                      KeptNearlyToTheEnd
  <2> QED
    BY <1>6, <2>1, <2>2 DEF LoginByLearner
<1>7. ASSUME NEW c \in AuthCalls, LearnerSession(c) PROVE AccountsInv'
  BY <1>7, CreateTokenKeeps DEF LearnerSession, Advance, Roles
<1>8. ASSUME NEW c \in AuthCalls, Authenticate(c) PROVE AccountsInv'
  BY <1>8 DEF Authenticate, Advance, tokenVars, BearersIssued,
              KeptNearlyToTheEnd
<1>9. ASSUME NEW c \in AuthCalls,
             CheckBlacklist(c) \/ CheckFails(c) \/ Serve(c)
      PROVE  AccountsInv'
  BY <1>9 DEF CheckBlacklist, CheckFails, Serve, Advance, tokenVars,
              BearersIssued, KeptNearlyToTheEnd
<1>10. ASSUME NEW c \in AuthCalls, Logout(c) PROVE AccountsInv'
  <2>1. PICK t \in bearer[c] :
          /\ blacklist' = [blacklist EXCEPT ![t] = tick + Remaining(t)]
          /\ invalidated' = invalidated \cup {t}
    BY <1>10 DEF Logout
  <2>2. t \in Tokens /\ t \in issued
    BY <2>1 DEF BearersIssued
  <2> DEFINE until == tick + Remaining(t)
  <2>3. until \in Nat /\ until + Second > expiry[t]
    BY <2>2, RemainingSuffices
  <2>4. blacklist' = [blacklist EXCEPT ![t] = until]
    BY <2>1
  <2> HIDE DEF until
  <2>5. UNCHANGED <<tick, accounts, issued, role, expiry, subject, bearer>>
        /\ call' = [call EXCEPT ![c] = "done"]
    BY <1>10 DEF Logout, Advance, tokenVars
  <2>6. KeptNearlyToTheEnd'
    BY <2>1, <2>2, <2>3, <2>4, <2>5 DEF KeptNearlyToTheEnd
  <2> QED
    BY <2>1, <2>2, <2>3, <2>4, <2>5, <2>6 DEF BearersIssued
<1>11. CASE UNCHANGED accountsVars
  BY <1>11 DEF accountsVars, BearersIssued, KeptNearlyToTheEnd
<1> QED
  BY <1>1, <1>2, <1>3, <1>4, <1>5, <1>6, <1>7, <1>8, <1>9, <1>10, <1>11
     DEF AccountsNext

(* Every variable keeps its type; a token that was logged out is one that  *)
(* was given out.                                                          *)
THEOREM AccountsTypes == AccountsSpec => []AccountsTypeOK
<1>1. AccountsInv => AccountsTypeOK
  BY DEF AccountsInv
<1> QED
  BY InitAccountsInv, StepAccountsInv, <1>1, PTL DEF AccountsSpec

(* A token that was logged out is on the blacklist until less than a       *)
(* second before it expires, whatever a second and a life are.             *)
THEOREM LoggedOut == AccountsSpec => []LoggedOutStaysOut
<1>1. AccountsInv => LoggedOutStaysOut
  BY ClockAssumption
     DEF AccountsInv, AccountsTypeOK, KeptNearlyToTheEnd, LoggedOutStaysOut,
         Blacklisted
<1> QED
  BY InitAccountsInv, StepAccountsInv, <1>1, PTL DEF AccountsSpec

-----------------------------------------------------------------------------
(* StudyPlans: a delivery is the first, or follows a retry or a lost       *)
(* worker; and what a job saved, it saved in a delivery it has had.        *)
PlansTyped ==
    /\ kind \in [Jobs -> DOMAIN MaxRetries]
    /\ job \in [Jobs -> {"queued", "selecting", "running", "insert",
                         "success", "failed"}]
    /\ retries \in [Jobs -> Nat]
    /\ deliveries \in [Jobs -> Nat]

RetriesBounded == \A j \in Jobs : retries[j] <= MaxRetries[kind[j]]

DeliveriesBounded ==
    \A j \in Jobs :
        /\ deliveries[j] <= retries[j] + MaxCrashes + 1
        /\ job[j] = "queued" => deliveries[j] <= retries[j] + MaxCrashes

DeliveredOnce == \A j \in Jobs : job[j] # "queued" => deliveries[j] >= 1

SavesDelivered ==
    \A s \in saved : s.by \in Jobs => s.delivery \in 1 .. deliveries[s.by]

PlansInv ==
    /\ PlansTyped /\ RetriesBounded /\ DeliveriesBounded /\ DeliveredOnce
    /\ SavesDelivered

LEMMA MaxRetriesType == \A k \in DOMAIN MaxRetries : MaxRetries[k] \in Nat
  BY StudyPlansAssumption

LEMMA InitPlansInv == PlansInit => PlansInv
  BY StudyPlansAssumption, MaxRetriesType
     DEF PlansInit, PlansInv, PlansTyped, RetriesBounded, DeliveriesBounded,
         DeliveredOnce, SavesDelivered

(* What a request does leaves the jobs and what they saved alone.          *)
LEMMA RequestStep ==
    ASSUME PlansInv, NEW r \in WebRequests,
           MakePlan(r) \/ EmitAuditEvent(r) \/ CommitRequest(r) \/ ReadPlan(r)
    PROVE  PlansInv'
<1>1. r \notin Jobs
  BY StudyPlansAssumption
<1>2. UNCHANGED jobVars /\ \A s \in saved' : s \in saved \/ s.by = r
  BY DEF MakePlan, EmitAuditEvent, CommitRequest, ReadPlan
<1> QED
  BY <1>1, <1>2 DEF jobVars, PlansInv, PlansTyped, RetriesBounded,
                    DeliveriesBounded, DeliveredOnce, SavesDelivered

(* A job that was delivered moves on in its delivery.                      *)
LEMMA MovesOn ==
    ASSUME PlansInv, NEW j \in Jobs, job[j] # "queued",
           NEW to \in {"running", "insert", "success", "failed"},
           job' = [job EXCEPT ![j] = to],
           UNCHANGED <<kind, saved, retries, deliveries>>
    PROVE  PlansInv'
<1> USE DEF PlansInv, PlansTyped
<1>1. DeliveriesBounded' /\ DeliveredOnce'
  BY DEF DeliveriesBounded, DeliveredOnce
<1>2. RetriesBounded' /\ SavesDelivered'
  BY DEF RetriesBounded, SavesDelivered
<1> QED
  BY <1>1, <1>2

(* A retry makes room for one delivery more, if there is one left.         *)
LEMMA RetryKeeps ==
    ASSUME PlansInv, NEW j \in Jobs, job[j] # "queued", Retry(j),
           UNCHANGED <<kind, saved, deliveries>>
    PROVE  PlansInv'
<1> USE StudyPlansAssumption, MaxRetriesType DEF PlansInv, PlansTyped
<1>1. CASE retries[j] < MaxRetries[kind[j]]
  <2>1. /\ job' = [job EXCEPT ![j] = "queued"]
        /\ retries' = [retries EXCEPT ![j] = @ + 1]
    BY <1>1 DEF Retry
  <2>2. PlansTyped' /\ RetriesBounded'
    BY <1>1, <2>1 DEF RetriesBounded
  <2>3. DeliveriesBounded' /\ DeliveredOnce'
    BY <2>1 DEF DeliveriesBounded, DeliveredOnce
  <2>4. SavesDelivered'
    BY DEF SavesDelivered
  <2> QED
    BY <2>2, <2>3, <2>4
<1>2. CASE ~(retries[j] < MaxRetries[kind[j]])
  BY <1>2, MovesOn DEF Retry
<1> QED
  BY <1>1, <1>2

LEMMA RaiseKeeps ==
    ASSUME PlansInv, NEW j \in Jobs, job[j] # "queued", Raise(j),
           UNCHANGED <<kind, saved, deliveries>>
    PROVE  PlansInv'
  BY RetryKeeps, MovesOn DEF Raise, NextLearner

LEMMA JobStepKeeps ==
    ASSUME PlansInv, NEW j \in Jobs, JobStep(j) \/ WorkerLost(j)
    PROVE  PlansInv'
<1>1. CASE StartJob(j)
  <2> USE StudyPlansAssumption DEF PlansInv, PlansTyped
  <2>1. /\ job[j] = "queued" /\ UNCHANGED <<kind, saved, retries>>
        /\ job' = [job EXCEPT ![j] = "selecting"]
        /\ deliveries' = [deliveries EXCEPT ![j] = @ + 1]
    BY <1>1 DEF StartJob
  <2>2. PlansTyped' /\ RetriesBounded'
    BY <2>1 DEF RetriesBounded
  <2>3. DeliveriesBounded' /\ DeliveredOnce'
    BY <2>1 DEF DeliveriesBounded, DeliveredOnce
  <2>4. SavesDelivered'
    BY <2>1 DEF SavesDelivered
  <2> QED
    BY <2>2, <2>3, <2>4
<1>2. CASE SelectLearners(j)
  BY <1>2, MovesOn DEF SelectLearners
<1>3. CASE SelectFails(j)
  BY <1>3, RetryKeeps DEF SelectFails
<1>4. CASE NothingSaved(j)
  <2>1. job[j] = "running" /\ UNCHANGED <<kind, saved, deliveries>>
    BY <1>4 DEF NothingSaved
  <2>2. CASE NextLearner(j)
    BY <2>1, <2>2, MovesOn DEF NextLearner
  <2>3. CASE Raise(j)
    BY <2>1, <2>3, RaiseKeeps
  <2> QED
    BY <1>4, <2>2, <2>3 DEF NothingSaved
<1>5. CASE WorkerSaves(j)
  <2> USE DEF PlansInv, PlansTyped
  <2> DEFINE row == [by |-> j, learner |-> Head(left[j]),
                     delivery |-> deliveries[j]]
  <2>1. /\ UNCHANGED <<kind, retries, deliveries>> /\ job[j] = "running"
        /\ saved' = saved \cup {row}
        /\ \E to \in {"running", "insert"} : job' = [job EXCEPT ![j] = to]
    BY <1>5 DEF WorkerSaves, NextLearner
  <2>2. row.by = j /\ row.delivery = deliveries[j]
    OBVIOUS
  <2> HIDE DEF row
  <2>3. PlansTyped' /\ RetriesBounded'
    BY <2>1 DEF RetriesBounded
  <2>4. DeliveriesBounded' /\ DeliveredOnce'
    BY <2>1 DEF DeliveriesBounded, DeliveredOnce
  <2>5. SavesDelivered'
    BY <2>1, <2>2 DEF SavesDelivered, DeliveredOnce
  <2> QED
    BY <2>3, <2>4, <2>5
<1>6. CASE InsertPlan(j)
  BY <1>6, RaiseKeeps DEF InsertPlan
<1>7. CASE JobReturns(j)
  BY <1>7, MovesOn DEF JobReturns
<1>8. CASE WorkerLost(j)
  <2> USE StudyPlansAssumption DEF PlansInv, PlansTyped
  <2>1. /\ UNCHANGED <<kind, saved, retries, deliveries>>
        /\ deliveries[j] <= retries[j] + MaxCrashes
        /\ job' = [job EXCEPT ![j] = "queued"]
    BY <1>8 DEF WorkerLost
  <2>2. PlansTyped' /\ RetriesBounded' /\ SavesDelivered'
    BY <2>1 DEF RetriesBounded, SavesDelivered
  <2>3. DeliveriesBounded' /\ DeliveredOnce'
    BY <2>1 DEF DeliveriesBounded, DeliveredOnce
  <2> QED
    BY <2>2, <2>3
<1> QED
  BY <1>1, <1>2, <1>3, <1>4, <1>5, <1>6, <1>7, <1>8 DEF JobStep

LEMMA StepPlansInv == PlansInv /\ [PlansNext]_plansVars => PlansInv'
<1> SUFFICES ASSUME PlansInv, [PlansNext]_plansVars PROVE PlansInv'
  OBVIOUS
<1>1. CASE UNCHANGED plansVars
  BY <1>1 DEF plansVars, PlansInv, PlansTyped, RetriesBounded,
              DeliveriesBounded, DeliveredOnce, SavesDelivered
<1> QED
  BY <1>1, RequestStep, JobStepKeeps DEF PlansNext

(* For any bounds: no job commits more plans, or reports, of a learner     *)
(* than it has a first delivery, retries and lost workers (self.retry,     *)
(* task_acks_late).                                                        *)
THEOREM SavesAreBounded == PlansSpec => []SavesBoundedByRetries
<1>1. ASSUME PlansInv, NEW s \in saved, s.by \in Jobs
      PROVE  s.delivery \in 1 .. MaxRetries[kind[s.by]] + MaxCrashes + 1
  <2>1. s.delivery \in 1 .. deliveries[s.by] /\ deliveries[s.by] \in Nat
    BY <1>1 DEF PlansInv, PlansTyped, SavesDelivered
  <2>2. deliveries[s.by] <= retries[s.by] + MaxCrashes + 1
        /\ retries[s.by] <= MaxRetries[kind[s.by]] /\ retries[s.by] \in Nat
    BY <1>1 DEF PlansInv, PlansTyped, DeliveriesBounded, RetriesBounded
  <2>3. MaxRetries[kind[s.by]] \in Nat /\ MaxCrashes \in Nat
    BY <1>1, StudyPlansAssumption, MaxRetriesType DEF PlansInv, PlansTyped
  <2> QED
    BY <2>1, <2>2, <2>3
<1>2. PlansInv => SavesBoundedByRetries
  BY <1>1 DEF SavesBoundedByRetries
<1> QED
  BY InitPlansInv, StepPlansInv, <1>2, PTL DEF PlansSpec

-----------------------------------------------------------------------------
(* Legislature: an agent has persisted every rule before the one it is at, *)
(* has read no other document than it hashed before it reads again, and    *)
(* inserts only rules the document has.                                    *)
RulesBefore ==
    \A a \in Agents : \A i \in 1 .. Places :
        i < ruleAt[a] => RuleOf(parsed[a], i, dated[a]) \in ruleRows

NotYetRead ==
    \A a \in Agents : agent[a] \in {"idle", "hashed"} =>
                          ruleAt[a] = 1 /\ hashed[a] = parsed[a]

InsertingWithin ==
    \A a \in Agents : agent[a] = "inserting" => ruleAt[a] <= Places

LegislatureInv ==
    /\ LegislatureTypeOK /\ RulesBefore /\ NotYetRead /\ InsertingWithin
    /\ HashMeansRules

LEMMA InitLegislatureInv == LegislatureInit => LegislatureInv
  BY PlacesAssumption
     DEF LegislatureInit, LegislatureInv, LegislatureTypeOK, RulesBefore,
         NotYetRead, InsertingWithin, HashMeansRules

(* Rules are never deleted, and what an agent has read it keeps once it is *)
(* past its SELECT: what a recorded hash means does not change.            *)
LEMMA StillMeansRules ==
    ASSUME LegislatureInv, sourceHash' = sourceHash,
           ruleRows \subseteq ruleRows',
           \A a \in Agents : \/ agent[a] \in {"idle", "hashed"}
                             \/ hashed'[a] = hashed[a] /\ parsed'[a] = parsed[a]
    PROVE  HashMeansRules'
<1> SUFFICES ASSUME NEW d \in sourceHash PROVE Ingested(d)' \/ Torn(d)'
  BY DEF HashMeansRules
<1>1. CASE Ingested(d)
  BY <1>1 DEF Ingested, RuleOf
<1>2. CASE Torn(d)
  <2>1. PICK a \in Agents : hashed[a] = d /\ parsed[a] # d
    BY <1>2 DEF Torn
  <2>2. hashed'[a] = hashed[a] /\ parsed'[a] = parsed[a]
    BY <2>1 DEF LegislatureInv, NotYetRead
  <2> QED
    BY <2>1, <2>2 DEF Torn
<1> QED
  BY <1>1, <1>2 DEF LegislatureInv, HashMeansRules

LEMMA StepLegislatureInv ==
    LegislatureInv /\ [LegislatureNext]_legislatureVars => LegislatureInv'
<1> SUFFICES ASSUME LegislatureInv, [LegislatureNext]_legislatureVars
             PROVE  LegislatureInv'
  OBVIOUS
<1> USE PlacesAssumption DEF LegislatureInv, LegislatureTypeOK
<1>1. ASSUME NEW d \in Documents, ReplaceFile(d) PROVE LegislatureInv'
  <2>1. HashMeansRules'
    BY <1>1, StillMeansRules DEF ReplaceFile
  <2> QED
    BY <1>1, <2>1 DEF ReplaceFile, RulesBefore, NotYetRead,
              InsertingWithin
<1>2. ASSUME NEW a \in Agents, HashFile(a) PROVE LegislatureInv'
  <2>1. HashMeansRules'
    BY <1>2, StillMeansRules DEF HashFile
  <2>2. RulesBefore'
    BY <1>2 DEF HashFile, RulesBefore, NotYetRead
  <2> QED
    BY <1>2, <2>1, <2>2 DEF HashFile, NotYetRead, InsertingWithin
<1>3. ASSUME NEW a \in Agents, ReadFile(a) PROVE LegislatureInv'
  <2>1. HashMeansRules'
    BY <1>3, StillMeansRules DEF ReadFile
  <2>2. RulesBefore'
    BY <1>3 DEF ReadFile, RulesBefore, NotYetRead
  <2>3. NotYetRead' /\ InsertingWithin'
    BY <1>3 DEF ReadFile, NotYetRead, InsertingWithin
  <2>4. LegislatureTypeOK'
    BY <1>3 DEF ReadFile
  <2> QED
    BY <2>1, <2>2, <2>3, <2>4
<1>4. ASSUME NEW a \in Agents, SelectRule(a) PROVE LegislatureInv'
  <2>1. HashMeansRules'
    BY <1>4, StillMeansRules DEF SelectRule
  <2>2. RulesBefore'
    BY <1>4 DEF SelectRule, RulesBefore, Persisting
  <2>3. NotYetRead' /\ InsertingWithin'
    BY <1>4 DEF SelectRule, NotYetRead, InsertingWithin
  <2>4. LegislatureTypeOK'
    BY <1>4 DEF SelectRule
  <2> QED
    BY <2>1, <2>2, <2>3, <2>4
<1>5. ASSUME NEW a \in Agents, InsertRule(a) PROVE LegislatureInv'
  <2>1. CASE Conflicts(Persisting(a))
    <3>1. HashMeansRules'
      BY <1>5, <2>1, StillMeansRules DEF InsertRule
    <3> QED
      BY <1>5, <2>1, <3>1 DEF InsertRule, RulesBefore, NotYetRead,
              InsertingWithin
  <2>2. CASE ~Conflicts(Persisting(a))
    <3>1. /\ ruleRows' = ruleRows \cup {Persisting(a)}
          /\ ruleAt' = [ruleAt EXCEPT ![a] = @ + 1]
          /\ agent' = [agent EXCEPT ![a] = "selecting"]
          /\ agent[a] = "inserting"
          /\ UNCHANGED <<file, sourceHash, hashed, parsed, dated>>
      BY <1>5, <2>2 DEF InsertRule
    <3>2. HashMeansRules'
      BY <3>1, StillMeansRules
    <3>3. RulesBefore'
      BY <3>1 DEF RulesBefore, Persisting
    <3>4. NotYetRead' /\ InsertingWithin'
      BY <3>1 DEF NotYetRead, InsertingWithin
    <3>5. ruleAt[a] \in 1 .. Places
      BY <1>5 DEF InsertRule, InsertingWithin
    <3>6. Persisting(a) \in Rule
      BY <3>5 DEF Persisting, RuleOf, Rule, Texts
    <3> QED
      BY <3>1, <3>2, <3>3, <3>4, <3>5, <3>6
  <2> QED
    BY <2>1, <2>2
<1>6. ASSUME NEW a \in Agents, RecordHash(a) PROVE LegislatureInv'
  <2>1. Ingested(hashed[a]) \/ Torn(hashed[a])
    <3>1. CASE hashed[a] = parsed[a]
      <4>1. \A i \in 1 .. Places :
              RuleOf(hashed[a], i, dated[a]) \in ruleRows
        BY <1>6, <3>1 DEF RecordHash, RulesBefore
      <4> QED
        BY <4>1 DEF Ingested
    <3>2. CASE hashed[a] # parsed[a]
      BY <3>2 DEF Torn
    <3> QED
      BY <3>1, <3>2
  <2>2. HashMeansRules'
    BY <1>6, <2>1 DEF RecordHash, HashMeansRules, Ingested, Torn, RuleOf
  <2> QED
    BY <1>6, <2>2 DEF RecordHash, RulesBefore, NotYetRead,
              InsertingWithin
<1>7. ASSUME NEW a \in Agents, AgentStops(a) PROVE LegislatureInv'
  <2>1. HashMeansRules'
    BY <1>7, StillMeansRules DEF AgentStops
  <2> QED
    BY <1>7, <2>1 DEF AgentStops, RulesBefore, NotYetRead,
              InsertingWithin
<1>8. CASE UNCHANGED legislatureVars
  BY <1>8 DEF legislatureVars, RulesBefore, NotYetRead, InsertingWithin,
              HashMeansRules, Ingested, Torn, RuleOf
<1> QED
  BY <1>1, <1>2, <1>3, <1>4, <1>5, <1>6, <1>7, <1>8 DEF LegislatureNext

(* For any number of agents and documents, a recorded hash means that the  *)
(* rules are all there, or that the file was replaced under the refresh    *)
(* (refresh_source).                                                       *)
THEOREM HashesMeanRules == LegislatureSpec => []HashMeansRules
<1>1. LegislatureInv => HashMeansRules
  BY DEF LegislatureInv
<1> QED
  BY InitLegislatureInv, StepLegislatureInv, <1>1, PTL DEF LegislatureSpec

-----------------------------------------------------------------------------
(* ItemCalibration: the versions of an item are 1 .. n, each in one row,   *)
(* and a call wants one of those or the next.                              *)
OneRowEach ==
    /\ IsFiniteSet(parameters) /\ parameters \subseteq ParameterRow
    /\ \A p, q \in parameters :
          p.item_id = q.item_id /\ p.version = q.version => p = q

WantedWithin ==
    \A c \in Updates : engine[c] = "read" =>
        newVersion[c] \in 1 .. Cardinality(Of(item[c])) + 1

CalibrationInv ==
    /\ engine \in [EngineCalls -> {"idle", "read", "returned", "raised"}]
    /\ newVersion \in [Updates -> Nat]
    /\ OneRowEach /\ WantedWithin /\ VersionsInSequence

(* Of(i) of a given state has as many rows as versions.                    *)
LEMMA OfFacts ==
    ASSUME OneRowEach, NEW i
    PROVE  /\ IsFiniteSet(Of(i)) /\ Cardinality(Of(i)) \in Nat
           /\ Of(i) \subseteq parameters
<1>1. Of(i) \in SUBSET parameters
  BY DEF Of
<1>2. IsFiniteSet(Of(i))
  BY <1>1, FS_Subset DEF OneRowEach
<1> QED
  BY <1>1, <1>2, FS_CardinalityType

LEMMA InitCalibrationInv == CalibrationInit => CalibrationInv
<1> SUFFICES ASSUME CalibrationInit PROVE CalibrationInv
  OBVIOUS
<1>1. \A i : Of(i) = {}
  BY DEF CalibrationInit, Of
<1>2. IsFiniteSet({}) /\ Cardinality({}) = 0
  BY FS_EmptySet
<1>3. ASSUME NEW i \in Items
      PROVE  {p.version : p \in Of(i)} = 1 .. Cardinality(Of(i))
  <2>1. {p.version : p \in Of(i)} = {}
    BY <1>1
  <2>2. 1 .. Cardinality(Of(i)) = {}
    BY <1>1, <1>2
  <2> QED
    BY <2>1, <2>2
<1>4. OneRowEach
  BY <1>2 DEF CalibrationInit, OneRowEach
<1>5. WantedWithin
  BY DEF CalibrationInit, WantedWithin, EngineCalls
<1>6. VersionsInSequence
  BY <1>3 DEF CalibrationInit, VersionsInSequence, EngineCalls
<1> QED
  BY <1>4, <1>5, <1>6 DEF CalibrationInit, CalibrationInv

(* One more version of an item, the next in sequence.                      *)
LEMMA AddVersion ==
    ASSUME CalibrationInv, NEW c \in Updates, engine[c] = "read",
           ~\E p \in Of(item[c]) : p.version = newVersion[c],
           parameters' = parameters \cup {Row(c)},
           engine' = [engine EXCEPT ![c] = "returned"],
           newVersion' = newVersion
    PROVE  CalibrationInv'
<1> USE DEF CalibrationInv, OneRowEach
<1> DEFINE i0 == item[c]
           n == Cardinality(Of(i0))
           row == Row(c)
<1>1. c \in EngineCalls /\ i0 \in Items
  BY CalibrationAssumption DEF EngineCalls
<1>2. IsFiniteSet(Of(i0)) /\ n \in Nat
  BY OfFacts
<1>3. {p.version : p \in Of(i0)} = 1 .. n
  BY <1>1 DEF VersionsInSequence
<1>4. newVersion[c] = n + 1
  <2>1. newVersion[c] \in 1 .. n + 1
    BY DEF WantedWithin
  <2>2. newVersion[c] \notin 1 .. n
    BY <1>3
  <2> HIDE DEF n
  <2> QED
    BY <1>2, <2>1, <2>2
<1>5. row.item_id = i0 /\ row.version = n + 1 /\ row \in ParameterRow
  BY <1>1, <1>2, <1>4 DEF Row, ParameterRow
<1>6. row \notin Of(i0)
  BY <1>4, <1>5
<1>7. Of(i0)' = Of(i0) \cup {row}
  BY <1>5 DEF Of
<1>8. ASSUME NEW j, j # i0 PROVE Of(j)' = Of(j)
  BY <1>5, <1>8 DEF Of
<1>9. Cardinality(Of(i0)') = n + 1
  BY <1>2, <1>6, <1>7, FS_AddElement
<1> HIDE DEF row
<1>10. OneRowEach'
  <2>1. IsFiniteSet(parameters')
    BY FS_AddElement DEF row
  <2>2. parameters' \subseteq ParameterRow
    BY <1>5 DEF row
  <2>3. ASSUME NEW p \in parameters, p.item_id = i0 PROVE p.version # n + 1
    BY <2>3, <1>4 DEF Of
  <2>4. \A p, q \in parameters' :
          p.item_id = q.item_id /\ p.version = q.version => p = q
    BY <2>3, <1>5 DEF row
  <2> QED
    BY <2>1, <2>2, <2>4
<1>11. WantedWithin'
  <2> SUFFICES ASSUME NEW d \in Updates, engine'[d] = "read"
               PROVE  newVersion[d] \in 1 .. Cardinality(Of(item[d])') + 1
    BY DEF WantedWithin
  <2>1. d \in EngineCalls /\ d # c
    BY <1>1 DEF EngineCalls
  <2>2. newVersion[d] \in 1 .. Cardinality(Of(item[d])) + 1
    BY <2>1 DEF WantedWithin
  <2>3. CASE item[d] = i0
    <3>1. newVersion[d] \in 1 .. n + 1
      BY <2>2, <2>3
    <3> HIDE DEF n
    <3>2. newVersion[d] \in 1 .. (n + 1) + 1
      BY <3>1, <1>2
    <3> QED
      BY <3>2, <2>3, <1>9
  <2>4. CASE item[d] # i0
    BY <2>2, <2>4, <1>8
  <2> QED
    BY <2>3, <2>4
<1>12. VersionsInSequence'
  <2>1. {p.version : p \in Of(i0)'} = 1 .. n + 1
    <3>1. {p.version : p \in Of(i0)'} = (1 .. n) \cup {n + 1}
      BY <1>3, <1>5, <1>7
    <3> HIDE DEF n
    <3>2. (1 .. n) \cup {n + 1} = 1 .. n + 1
      BY <1>2
    <3> QED
      BY <3>1, <3>2
  <2>2. ASSUME NEW j \in Items
        PROVE  {p.version : p \in Of(j)'} = 1 .. Cardinality(Of(j)')
    <3>1. CASE j = i0
      BY <2>1, <1>9, <3>1
    <3>2. CASE j # i0
      BY <1>8, <3>2 DEF VersionsInSequence
    <3> QED
      BY <3>1, <3>2
  <2>3. ASSUME NEW d \in Updates, engine'[d] = "returned"
        PROVE  Row(d)' \in parameters'
    <3>1. Row(d)' = Row(d)
      BY DEF Row
    <3>2. CASE d = c
      BY <3>1, <3>2
    <3>3. CASE d # c
      <4>1. engine[d] = "returned"
        BY <2>3, <3>3 DEF EngineCalls
      <4> QED
        BY <3>1, <4>1 DEF VersionsInSequence
    <3> QED
      BY <3>2, <3>3
  <2> QED
    BY <2>2, <2>3 DEF VersionsInSequence
<1> QED
  BY <1>1, <1>10, <1>11, <1>12

(* The version a call wants is one more than there are.                    *)
LEMMA NextVersion ==
    ASSUME CalibrationInv, NEW c \in Updates, ReadVersion(c)
    PROVE  newVersion'[c] = Cardinality(Of(item[c])) + 1
<1> USE DEF CalibrationInv, OneRowEach
<1> DEFINE i0 == item[c]
           n == Cardinality(Of(i0))
<1>1. i0 \in Items
  BY CalibrationAssumption
<1>2. IsFiniteSet(Of(i0)) /\ n \in Nat /\ Of(i0) \subseteq parameters
  BY OfFacts
<1>3. {p.version : p \in Of(i0)} = 1 .. n
  BY <1>1 DEF VersionsInSequence
<1>4. CASE Of(i0) = {}
  <2>1. n = 0
    BY <1>4, FS_EmptySet
  <2>2. newVersion'[c] = 1
    BY <1>4 DEF ReadVersion
  <2> QED
    BY <2>1, <2>2
<1>5. CASE Of(i0) # {}
  <2> DEFINE best == CHOOSE p \in Newest(i0) : TRUE
  <2>1. n # 0
    BY <1>2, <1>5, FS_EmptySet
  <2>2. n \in 1 .. n
    BY <2>1, <1>2
  <2>3. PICK top \in Of(i0) : top.version = n
    BY <2>2, <1>3
  <2>4. \A q \in Of(i0) : q.version \in 1 .. n
    BY <1>3
  <2>5. top \in Newest(i0)
    <3> HIDE DEF n
    <3> QED
      BY <1>2, <2>3, <2>4 DEF Newest
  <2>6. best \in Newest(i0)
    BY <2>5
  <2>7. best \in Of(i0) /\ top.version <= best.version
    BY <2>3, <2>6 DEF Newest
  <2>8. best.version \in 1 .. n
    BY <2>4, <2>7
  <2>9. best.version = n
    <3> HIDE DEF n, best
    <3> QED
      BY <1>2, <2>3, <2>7, <2>8
  <2>10. newVersion'[c] = 1 + best.version
    BY <1>5 DEF ReadVersion
  <2> HIDE DEF best, n
  <2>11. newVersion'[c] = n + 1
    BY <2>9, <2>10, <1>2
  <2> QED
    BY <2>11 DEF n
<1> QED
  BY <1>4, <1>5

(* A call that moves without a row: an update raises, an answer does       *)
(* anything.                                                               *)
LEMMA EngineMoves ==
    ASSUME CalibrationInv, NEW c \in EngineCalls,
           NEW to \in {"read", "returned", "raised"},
           engine' = [engine EXCEPT ![c] = to],
           c \in Answers \/ to = "raised",
           UNCHANGED <<parameters, newVersion>>
    PROVE  CalibrationInv'
<1> USE DEF CalibrationInv
<1>1. c \in Updates => to = "raised"
  BY CalibrationAssumption
<1>2. \A d \in Updates : /\ engine'[d] = "read" => engine[d] = "read"
                         /\ engine'[d] = "returned" => engine[d] = "returned"
  BY <1>1 DEF EngineCalls
<1>3. \A i : Of(i)' = Of(i)
  BY DEF Of
<1>4. \A d \in Updates : Row(d)' = Row(d)
  BY DEF Row
<1>5. WantedWithin'
  BY <1>2, <1>3 DEF WantedWithin
<1>6. VersionsInSequence'
  BY <1>2, <1>3, <1>4 DEF VersionsInSequence
<1> QED
  BY <1>5, <1>6 DEF OneRowEach

LEMMA StepCalibrationInv ==
    CalibrationInv /\ [CalibrationNext]_calibrationVars => CalibrationInv'
<1> SUFFICES ASSUME CalibrationInv, [CalibrationNext]_calibrationVars
             PROVE  CalibrationInv'
  OBVIOUS
<1> USE CalibrationAssumption DEF CalibrationInv
<1>1. ASSUME NEW c \in Updates, ReadVersion(c) PROVE CalibrationInv'
  <2>1. parameters' = parameters /\ engine' = [engine EXCEPT ![c] = "read"]
        /\ engine[c] = "idle" /\ c \in EngineCalls
    BY <1>1 DEF ReadVersion, Step, EngineCalls
  <2>2. newVersion'[c] = Cardinality(Of(item[c])) + 1
    BY <1>1, NextVersion
  <2>3. Cardinality(Of(item[c])) \in Nat
    BY OfFacts
  <2>4. newVersion' \in [Updates -> Nat]
        /\ \A d \in Updates : d # c => newVersion'[d] = newVersion[d]
    <3>1. PICK v : newVersion' = [newVersion EXCEPT ![c] = v]
      BY <1>1 DEF ReadVersion
    <3>2. v \in Nat
      BY <2>2, <2>3, <3>1
    <3> QED
      BY <3>1, <3>2
  <2>5. \A i : Of(i)' = Of(i)
    BY <2>1 DEF Of
  <2>6. WantedWithin'
    BY <2>1, <2>2, <2>3, <2>4, <2>5 DEF WantedWithin, EngineCalls
  <2>7. \A d \in Updates : engine'[d] = "returned" =>
            engine[d] = "returned" /\ Row(d)' = Row(d)
    BY <2>1, <2>4 DEF Row, EngineCalls
  <2>8. VersionsInSequence'
    BY <2>1, <2>5, <2>7 DEF VersionsInSequence
  <2> QED
    BY <2>1, <2>4, <2>6, <2>8 DEF OneRowEach
<1>2. ASSUME NEW c \in Updates, InsertVersion(c) PROVE CalibrationInv'
  <2>1. CASE \E p \in Of(item[c]) : p.version = newVersion[c]
    BY <1>2, <2>1, EngineMoves DEF InsertVersion, Step, EngineCalls
  <2>2. CASE ~\E p \in Of(item[c]) : p.version = newVersion[c]
    BY <1>2, <2>2, AddVersion DEF InsertVersion, Step
  <2> QED
    BY <2>1, <2>2
<1>3. ASSUME NEW c \in Answers, ReadTheta(c) \/ PersistResponse(c)
      PROVE  CalibrationInv'
  BY <1>3, EngineMoves DEF ReadTheta, PersistResponse, Step, EngineCalls
<1>4. ASSUME NEW c \in EngineCalls, EngineRaises(c) PROVE CalibrationInv'
  BY <1>4, EngineMoves DEF EngineRaises, Step
<1>5. CASE ReadSnapshot \/ UploadSnapshot \/ UNCHANGED calibrationVars
  BY <1>5 DEF ReadSnapshot, UploadSnapshot, calibrationVars, OneRowEach,
              WantedWithin, VersionsInSequence, Of, Row
<1> QED
  BY <1>1, <1>2, <1>3, <1>4, <1>5 DEF CalibrationNext

(* For any number of overlapping updates, an item's versions have no gap   *)
(* and no double, and what a call was told it inserted is there            *)
(* (update_item_params and the unique key).                                *)
THEOREM VersionsAreInSequence == CalibrationSpec => []VersionsInSequence
<1>1. CalibrationInv => VersionsInSequence
  BY DEF CalibrationInv
<1> QED
  BY InitCalibrationInv, StepCalibrationInv, <1>1, PTL DEF CalibrationSpec

-----------------------------------------------------------------------------
(* RLHFExport: what an export has selected, and what its data set holds.   *)
Chosen(e) == positives[e] \cup negatives[e]

RLHFTyped ==
    /\ rating \in [Feedback -> 0 .. 5]
    /\ step \in [Exports -> {"idle", "selecting", "building", "flushed",
                             "committed", "failed"}]
    /\ positives \in [Exports -> SUBSET Feedback]
    /\ negatives \in [Exports -> SUBSET Feedback]
    /\ dataset \in [Exports -> SUBSET SUBSET Feedback]
    /\ preceding \in [Exports -> SUBSET Exports]

SelectedByRating ==
    \A e \in Exports : /\ \A f \in positives[e] : Positive(f)
                       /\ \A f \in negatives[e] : Negative(f)

SelectedInOrder ==
    \A e \in Exports : /\ step[e] = "idle" => positives[e] = {}
                       /\ step[e] \in {"idle", "selecting"} => negatives[e] = {}

DatasetsMarked ==
    \A e \in Exports : /\ UNION dataset[e] \subseteq Chosen(e)
                       /\ UNION dataset[e] \subseteq marked
                       /\ step[e] # "committed" => dataset[e] = {}

PrecedingApart ==
    \A e \in Exports : \A earlier \in preceding[e] :
        /\ step[earlier] = "committed"
        /\ (UNION dataset[earlier]) \cap Chosen(e) = {}

RLHFInv ==
    /\ RLHFTyped /\ SelectedByRating /\ SelectedInOrder /\ DatasetsMarked
    /\ PrecedingApart

LEMMA InitRLHFInv == RLHFInit => RLHFInv
  BY DEF RLHFInit, RLHFInv, RLHFTyped, SelectedByRating, SelectedInOrder,
         DatasetsMarked, PrecedingApart, Chosen

LEMMA InvExportedOnce == RLHFInv => ExportedOnce
<1> SUFFICES ASSUME RLHFInv PROVE ExportedOnce
  OBVIOUS
<1>1. ASSUME NEW e \in Exports, NEW earlier \in preceding[e]
      PROVE  (UNION dataset[earlier]) \cap (UNION dataset[e]) = {}
  <2>1. UNION dataset[e] \subseteq Chosen(e)
    BY DEF RLHFInv, DatasetsMarked
  <2>2. (UNION dataset[earlier]) \cap Chosen(e) = {}
    BY DEF RLHFInv, PrecedingApart
  <2> QED
    BY <2>1, <2>2
<1>2. ASSUME NEW e \in Exports, NEW f \in UNION dataset[e]
      PROVE  Positive(f) \/ Negative(f)
  <2>1. f \in positives[e] \/ f \in negatives[e]
    BY DEF RLHFInv, DatasetsMarked, Chosen
  <2> QED
    BY <2>1 DEF RLHFInv, SelectedByRating
<1> QED
  BY <1>1, <1>2 DEF ExportedOnce

(* Records are made of what was selected.                                  *)
LEMMA RecordsOfChosen ==
    ASSUME RLHFInv, NEW e \in Exports, NEW records \in BuildDataset(e)
    PROVE  records \in SUBSET SUBSET Feedback
           /\ UNION records \subseteq Chosen(e)
<1> USE DEF RLHFInv, RLHFTyped, Chosen
<1>1. CASE records = {{f} : f \in positives[e]}
  BY <1>1
<1>2. CASE records = {{f} : f \in positives[e] \cup negatives[e]}
  BY <1>2
<1>3. CASE records \in Pairings(positives[e], negatives[e])
  <2>1. records \subseteq {{p, n} : p \in positives[e], n \in negatives[e]}
    BY <1>3 DEF Pairings
  <2> QED
    BY <2>1
<1> QED
  BY <1>1, <1>2, <1>3 DEF BuildDataset

LEMMA StepRLHFInv == RLHFInv /\ [RLHFNext]_rlhfVars => RLHFInv'
<1> SUFFICES ASSUME RLHFInv, [RLHFNext]_rlhfVars PROVE RLHFInv'
  OBVIOUS
<1> USE DEF RLHFInv, RLHFTyped
<1>1. ASSUME NEW f \in Feedback, RecordFeedback(f) PROVE RLHFInv'
  <2>1. /\ rating' \in [Feedback -> 0 .. 5]
        /\ \A g \in Feedback : rating[g] # 0 => rating'[g] = rating[g]
        /\ UNCHANGED <<language, marked, step, positives, negatives, dataset,
                       preceding>>
    BY <1>1 DEF RecordFeedback
  <2>2. SelectedByRating'
    BY <2>1 DEF SelectedByRating, Positive, Negative
  <2> QED
    BY <2>1, <2>2 DEF SelectedInOrder, DatasetsMarked, PrecedingApart, Chosen
<1>2. ASSUME NEW e \in Exports, SelectPositives(e) PROVE RLHFInv'
  <2> DEFINE found == {f \in Pending(e) : Positive(f)}
  <2>1. /\ step[e] = "idle" /\ step' = [step EXCEPT ![e] = "selecting"]
        /\ positives' = [positives EXCEPT ![e] = found]
        /\ preceding' = [preceding EXCEPT ![e] = Committed]
        /\ UNCHANGED <<rating, marked, negatives, dataset>>
    BY <1>2 DEF SelectPositives
  <2>2. found \subseteq Feedback \ marked /\ \A f \in found : Positive(f)
    BY DEF Pending
  <2> HIDE DEF found
  <2>3. Committed \subseteq Exports /\ e \notin Committed
        /\ \A x \in Committed : step[x] = "committed"
    BY <2>1 DEF Committed
  <2>4. RLHFTyped'
    BY <2>1, <2>2, <2>3
  <2>5. SelectedByRating'
    BY <2>1, <2>2 DEF SelectedByRating, Positive, Negative
  <2>6. SelectedInOrder'
    BY <2>1 DEF SelectedInOrder
  <2>7. DatasetsMarked'
    BY <2>1 DEF DatasetsMarked, Chosen
  <2>8. PrecedingApart'
    <3> SUFFICES ASSUME NEW x \in Exports, NEW earlier \in preceding'[x]
                 PROVE  /\ step'[earlier] = "committed"
                        /\ (UNION dataset[earlier]) \cap Chosen(x)' = {}
      BY <2>1 DEF PrecedingApart
    <3>1. CASE x = e
      <4>1. earlier \in Committed /\ negatives'[e] = {} /\ positives'[e] = found
        BY <2>1, <3>1 DEF SelectedInOrder
      <4>2. earlier \in Exports /\ earlier # e /\ step[earlier] = "committed"
        BY <4>1, <2>3
      <4>3. UNION dataset[earlier] \subseteq marked
        BY <4>2 DEF DatasetsMarked
      <4>4. Chosen(x)' = found
        BY <3>1, <4>1 DEF Chosen
      <4>5. step'[earlier] = "committed"
        BY <4>2, <2>1
      <4> QED
        BY <4>3, <4>4, <4>5, <2>2
    <3>2. CASE x # e
      BY <2>1, <3>2 DEF PrecedingApart, Chosen
    <3> QED
      BY <3>1, <3>2
  <2> QED
    BY <2>4, <2>5, <2>6, <2>7, <2>8
<1>3. ASSUME NEW e \in Exports, SelectNegatives(e) PROVE RLHFInv'
  <2> DEFINE found == {f \in Pending(e) : Negative(f)}
  <2>1. /\ step[e] = "selecting" /\ step' = [step EXCEPT ![e] = "building"]
        /\ negatives' = [negatives EXCEPT ![e] = found]
        /\ UNCHANGED <<rating, marked, positives, dataset, preceding>>
    BY <1>3 DEF SelectNegatives
  <2>2. found \subseteq Feedback \ marked /\ \A f \in found : Negative(f)
    BY DEF Pending
  <2> HIDE DEF found
  <2>3. RLHFTyped'
    BY <2>1, <2>2
  <2>4. SelectedByRating'
    BY <2>1, <2>2 DEF SelectedByRating, Positive, Negative
  <2>5. SelectedInOrder'
    BY <2>1 DEF SelectedInOrder
  <2>6. DatasetsMarked'
    BY <2>1 DEF DatasetsMarked, Chosen
  <2>7. PrecedingApart'
    <3> SUFFICES ASSUME NEW x \in Exports, NEW earlier \in preceding[x]
                 PROVE  /\ step'[earlier] = "committed"
                        /\ (UNION dataset[earlier]) \cap Chosen(x)' = {}
      BY <2>1 DEF PrecedingApart
    <3>0. step[earlier] = "committed" /\ earlier \in Exports
          /\ (UNION dataset[earlier]) \cap Chosen(x) = {}
          /\ UNION dataset[earlier] \subseteq marked
      BY DEF PrecedingApart, DatasetsMarked
    <3>1. earlier # e /\ step'[earlier] = "committed"
      BY <2>1, <3>0
    <3>2. CASE x = e
      <4>1. Chosen(x)' \subseteq Chosen(x) \cup found
        BY <2>1, <3>2 DEF Chosen
      <4> QED
        BY <4>1, <2>2, <3>0, <3>1
    <3>3. CASE x # e
      <4>1. Chosen(x)' = Chosen(x)
        BY <2>1, <3>3 DEF Chosen
      <4> QED
        BY <4>1, <3>0, <3>1
    <3> QED
      BY <3>2, <3>3
  <2> QED
    BY <2>3, <2>4, <2>5, <2>6, <2>7
<1>4. ASSUME NEW e \in Exports, FlushExport(e) \/ ExportFails(e) PROVE RLHFInv'
  BY <1>4 DEF FlushExport, ExportFails, SelectedByRating, SelectedInOrder,
              DatasetsMarked, PrecedingApart, Chosen, Positive, Negative
<1>5. ASSUME NEW e \in Exports, CommitExport(e) PROVE RLHFInv'
  <2>1. PICK records \in BuildDataset(e) :
          dataset' = [dataset EXCEPT ![e] = records]
    BY <1>5 DEF CommitExport
  <2>2. /\ step[e] = "flushed" /\ step' = [step EXCEPT ![e] = "committed"]
        /\ marked' = marked \cup Chosen(e)
        /\ UNCHANGED <<rating, positives, negatives, preceding>>
    BY <1>5 DEF CommitExport, Selected, Chosen
  <2>3. records \in SUBSET SUBSET Feedback /\ UNION records \subseteq Chosen(e)
    BY RecordsOfChosen
  <2>4. RLHFTyped'
    BY <2>1, <2>2, <2>3
  <2>5. SelectedByRating' /\ SelectedInOrder'
    BY <2>2 DEF SelectedByRating, SelectedInOrder, Positive, Negative
  <2>6. DatasetsMarked'
    BY <2>1, <2>2, <2>3 DEF DatasetsMarked, Chosen
  <2>7. PrecedingApart'
    <3>1. \A x \in Exports : \A earlier \in preceding[x] :
            earlier # e /\ step'[earlier] = "committed"
            /\ dataset'[earlier] = dataset[earlier]
      BY <2>1, <2>2 DEF PrecedingApart
    <3> QED
      BY <2>2, <3>1 DEF PrecedingApart, Chosen
  <2> QED
    BY <2>4, <2>5, <2>6, <2>7
<1>6. CASE UNCHANGED rlhfVars
  BY <1>6 DEF rlhfVars, SelectedByRating, SelectedInOrder, DatasetsMarked,
              PrecedingApart, Chosen, Positive, Negative
<1> QED
  BY <1>1, <1>2, <1>3, <1>4, <1>5, <1>6 DEF RLHFNext

(* However many exports overlap, a rating is not exported again by one     *)
(* that began after the commit of another that did (export_dataset).       *)
THEOREM RatingsExportedOnce == RLHFSpec => []ExportedOnce
  BY InitRLHFInv, StepRLHFInv, InvExportedOnce, PTL DEF RLHFSpec

-----------------------------------------------------------------------------
(* DummyData: no task knows of more persistent rows than there are, none   *)
(* is about to delete one, and rows are numbered as they were created.     *)
PointsNumbered ==
    IsFiniteSet(points) /\ \A p \in points : p.number <= created

KnownThere == \A s \in Starts : known[s] <= Cardinality(Persistent)

DoomedSurplus == \A s \in Starts : \A p \in doomed[s] : ~p.is_persistent

DummyInv ==
    /\ DummyTypeOK /\ PointsNumbered /\ KnownThere /\ DoomedSurplus
    /\ FloorBeforeSurplus

LEMMA PointsCounted ==
    ASSUME IsFiniteSet(points)
    PROVE  /\ Cardinality(points) \in Nat
           /\ IsFiniteSet(Persistent) /\ Cardinality(Persistent) \in Nat
<1>1. Persistent \in SUBSET points
  BY DEF Persistent
<1> QED
  BY <1>1, FS_Subset, FS_CardinalityType

LEMMA InitDummyInv == DummyInit => DummyInv
<1> SUFFICES ASSUME DummyInit PROVE DummyInv
  OBVIOUS
<1>1. Persistent = {} /\ Surplus = {}
  BY DEF DummyInit, Persistent, Surplus
<1>2. IsFiniteSet({}) /\ Cardinality({}) = 0
  BY FS_EmptySet
<1> QED
  BY <1>1, <1>2 DEF DummyInit, DummyInv, DummyTypeOK, PointsNumbered,
                    KnownThere, DoomedSurplus, FloorBeforeSurplus

(* A batch: n rows, of which m are persistent.                             *)
LEMMA BatchFacts ==
    ASSUME created \in Nat, NEW n \in Nat, NEW m \in 0 .. n
    PROVE  /\ IsFiniteSet(Batch(n, m))
           /\ Batch(n, m) \subseteq Point
           /\ \A p \in Batch(n, m) : created < p.number /\ p.number <= created + n
           /\ IsFiniteSet({p \in Batch(n, m) : p.is_persistent})
           /\ Cardinality({p \in Batch(n, m) : p.is_persistent}) = m
           /\ m = n => \A p \in Batch(n, m) : p.is_persistent
<1> DEFINE row(i) == [number |-> created + i, is_persistent |-> i <= m]
           B == {row(i) : i \in 1 .. n}
           P == {p \in B : p.is_persistent}
<1>1. Batch(n, m) = B
  BY DEF Batch
<1>2. ASSUME NEW i \in 1 .. n
      PROVE  /\ row(i).number = created + i
             /\ row(i).is_persistent <=> i <= m
             /\ row(i) \in Point
  <2>1. (i <= m) \in BOOLEAN /\ created + i \in Nat
    OBVIOUS
  <2> QED
    BY <2>1 DEF Point
<1> HIDE DEF row
<1>3. ExistsBijection(1 .. n, B)
  <2> DEFINE f == [i \in 1 .. n |-> row(i)]
  <2>1. f \in [1 .. n -> B]
    OBVIOUS
  <2>2. \A i, j \in 1 .. n : f[i] = f[j] => i = j
    <3> SUFFICES ASSUME NEW i \in 1 .. n, NEW j \in 1 .. n, row(i) = row(j)
                 PROVE  i = j
      OBVIOUS
    <3>1. created + i = created + j
      BY <1>2
    <3> QED
      BY <3>1
  <2>3. \A b \in B : \E i \in 1 .. n : f[i] = b
    OBVIOUS
  <2> HIDE DEF f, B
  <2>4. f \in Bijection(1 .. n, B)
    BY <2>1, <2>2, <2>3, Fun_IsBij
  <2> QED
    BY <2>4 DEF ExistsBijection
<1>4. ExistsBijection(1 .. m, P)
  <2> DEFINE g == [i \in 1 .. m |-> row(i)]
  <2>0. \A i \in 1 .. m : i \in 1 .. n /\ i <= m
    OBVIOUS
  <2>1. g \in [1 .. m -> P]
    <3> SUFFICES ASSUME NEW i \in 1 .. m PROVE row(i) \in P
      OBVIOUS
    <3>1. row(i) \in B
      BY <2>0
    <3>2. row(i).is_persistent
      BY <2>0, <1>2
    <3> QED
      BY <3>1, <3>2
  <2>2. \A i, j \in 1 .. m : g[i] = g[j] => i = j
    <3> SUFFICES ASSUME NEW i \in 1 .. m, NEW j \in 1 .. m, row(i) = row(j)
                 PROVE  i = j
      OBVIOUS
    <3>1. created + i = created + j
      BY <1>2, <2>0
    <3> QED
      BY <3>1
  <2>3. \A b \in P : \E i \in 1 .. m : g[i] = b
    <3> SUFFICES ASSUME NEW b \in P PROVE \E i \in 1 .. m : g[i] = b
      OBVIOUS
    <3>1. PICK i \in 1 .. n : b = row(i)
      OBVIOUS
    <3>2. row(i).is_persistent
      BY <3>1
    <3>3. i <= m
      BY <3>2, <1>2
    <3>4. i \in 1 .. m
      BY <3>3
    <3> QED
      BY <3>1, <3>4
  <2> HIDE DEF g, P
  <2>4. g \in Bijection(1 .. m, P)
    BY <2>1, <2>2, <2>3, Fun_IsBij
  <2> QED
    BY <2>4 DEF ExistsBijection
<1>5. IsFiniteSet(1 .. n) /\ IsFiniteSet(1 .. m) /\ Cardinality(1 .. m) = m
  BY FS_Interval
<1>6. IsFiniteSet(B)
  <2> HIDE DEF B
  <2> QED
    BY <1>3, <1>5, FS_Bijection
<1>7. IsFiniteSet(P) /\ Cardinality(P) = m
  <2> HIDE DEF P
  <2> QED
    BY <1>4, <1>5, FS_Bijection
<1>8. ASSUME NEW p \in B
      PROVE  p \in Point /\ created < p.number /\ p.number <= created + n
  <2>1. PICK i \in 1 .. n : p = row(i)
    OBVIOUS
  <2> QED
    BY <2>1, <1>2
<1>9. ASSUME m = n, NEW p \in B PROVE p.is_persistent
  <2>1. PICK i \in 1 .. n : p = row(i)
    OBVIOUS
  <2>2. i <= m
    BY <1>9
  <2> QED
    BY <2>1, <2>2, <1>2
<1> QED
  BY <1>1, <1>6, <1>7, <1>8, <1>9

(* Rows are added that are new, m of them persistent.                      *)
LEMMA AddBatch ==
    ASSUME DummyInv, NEW n \in Nat, NEW m \in 0 .. n,
           points' = points \cup Batch(n, m), created' = created + n
    PROVE  /\ points' \subseteq Point /\ PointsNumbered'
           /\ Cardinality(Persistent') = Cardinality(Persistent) + m
           /\ m = n => Surplus' = Surplus
<1> USE DEF DummyInv, DummyTypeOK, PointsNumbered
<1> DEFINE B == Batch(n, m)
           P == {p \in B : p.is_persistent}
<1>1. /\ IsFiniteSet(B) /\ B \subseteq Point
      /\ \A p \in B : created < p.number /\ p.number <= created + n
      /\ IsFiniteSet(P) /\ Cardinality(P) = m
      /\ m = n => \A p \in B : p.is_persistent
  BY BatchFacts
<1>2. points' = points \cup B
  OBVIOUS
<1> HIDE DEF B
<1>3. \A p \in points : p.number \in Nat /\ p.number <= created
  BY DEF Point
<1>4. points \cap B = {}
  BY <1>1, <1>3
<1>5. Persistent' = Persistent \cup P /\ Persistent \cap P = {}
  BY <1>2, <1>4 DEF Persistent
<1>6. IsFiniteSet(Persistent) /\ Cardinality(Persistent) \in Nat
  BY PointsCounted
<1>7. Cardinality(Persistent') = Cardinality(Persistent) + m
  <2>1. Cardinality(Persistent \cap P) = 0
    BY <1>5, FS_EmptySet
  <2> HIDE DEF P
  <2>2. Cardinality(Persistent \cup P)
          = Cardinality(Persistent) + Cardinality(P) - Cardinality(Persistent \cap P)
    BY <1>1, <1>6, FS_Union
  <2> QED
    BY <1>1, <1>5, <1>6, <2>1, <2>2
<1>8. IsFiniteSet(points')
  <2>1. IsFiniteSet(points) /\ IsFiniteSet(B)
    BY <1>1
  <2>2. IsFiniteSet(points \cup B)
    BY <2>1, FS_Union
  <2> QED
    BY <1>2, <2>2
<1>9. \A p \in points' : p.number <= created'
  BY <1>1, <1>2, <1>3
<1>10. m = n => Surplus' = Surplus
  BY <1>1, <1>2, <1>4 DEF Surplus, Persistent
<1> QED
  BY <1>1, <1>2, <1>7, <1>8, <1>9, <1>10

(* A step that leaves the table and the tasks' knowledge alone.            *)
LEMMA TableKept ==
    ASSUME DummyInv, UNCHANGED <<points, created, known>>
    PROVE  PointsNumbered' /\ KnownThere' /\ FloorBeforeSurplus'
  BY DEF DummyInv, PointsNumbered, KnownThere, FloorBeforeSurplus, Persistent,
         Surplus

LEMMA StepDummyInv == DummyInv /\ [DummyNext]_dummyVars => DummyInv'
<1> SUFFICES ASSUME DummyInv, [DummyNext]_dummyVars PROVE DummyInv'
  OBVIOUS
<1> USE TargetAssumption DEF DummyInv, DummyTypeOK
<1>0. /\ Cardinality(points) \in Nat /\ IsFiniteSet(Persistent)
      /\ Cardinality(Persistent) \in Nat
  BY PointsCounted DEF PointsNumbered
<1>1. ASSUME NEW s \in Starts, CountExisting(s) PROVE DummyInv'
  <2>1. PointsNumbered' /\ KnownThere' /\ FloorBeforeSurplus'
    BY <1>1, TableKept DEF CountExisting
  <2> QED
    BY <1>0, <1>1, <2>1 DEF CountExisting, DoomedSurplus
<1>2. ASSUME NEW s \in Starts, CountPersistent(s) PROVE DummyInv'
  <2>1. /\ known' = [known EXCEPT ![s] = Cardinality(Persistent)]
        /\ UNCHANGED <<points, created, toCreate, doomed>>
    BY <1>2 DEF CountPersistent
  <2>2. Persistent' = Persistent /\ Surplus' = Surplus
    BY <2>1 DEF Persistent, Surplus
  <2>3. KnownThere'
    BY <1>0, <2>1, <2>2 DEF KnownThere
  <2>4. DummyTypeOK'
    BY <1>0, <1>2, <2>1 DEF CountPersistent
  <2> QED
    BY <2>1, <2>2, <2>3, <2>4 DEF PointsNumbered, DoomedSurplus,
                                  FloorBeforeSurplus
<1>3. ASSUME NEW s \in Starts, CreateBatch(s) PROVE DummyInv'
  <2>0. PICK n \in Nat, m \in Nat :
          /\ m \in 0 .. n
          /\ points' = points \cup Batch(n, m)
          /\ created' = created + n
          /\ known' = [known EXCEPT ![s] = @ + m]
          /\ toCreate' = [toCreate EXCEPT ![s] = @ - n]
          /\ toCreate[s] - n \in Nat
          /\ m # n => known[s] + m >= Floor
          /\ \E to \in {"checking", "creating"} : task' = [task EXCEPT ![s] = to]
    <3> DEFINE nn == Least(BatchSize, toCreate[s])
               mm == Least(nn, IF known[s] >= Floor THEN 0 ELSE Floor - known[s])
    <3>1. /\ points' = points \cup Batch(nn, mm)
          /\ created' = created + nn
          /\ known' = [known EXCEPT ![s] = @ + mm]
          /\ toCreate' = [toCreate EXCEPT ![s] = @ - nn]
          /\ \E to \in {"checking", "creating"} : task' = [task EXCEPT ![s] = to]
      BY <1>3 DEF CreateBatch
    <3>2. nn \in Nat /\ toCreate[s] - nn \in Nat
      BY DEF Least
    <3>3. mm \in 0 .. nn /\ (mm # nn => known[s] + mm >= Floor)
      <4> HIDE DEF nn
      <4> QED
        BY <3>2 DEF Least
    <3>4. mm \in Nat
      <4> HIDE DEF nn, mm
      <4> QED
        BY <3>2, <3>3
    <3> USE <3>2, <3>4
    <3> HIDE DEF nn, mm
    <3> WITNESS nn \in Nat, mm \in Nat
    <3> QED
      BY <3>1, <3>2, <3>3
  <2>1. known[s] \in Nat /\ toCreate[s] \in Nat /\ UNCHANGED doomed
    BY <1>3 DEF CreateBatch
  <2>3. /\ points' \subseteq Point /\ PointsNumbered'
        /\ Cardinality(Persistent') = Cardinality(Persistent) + m
        /\ m = n => Surplus' = Surplus
    <3> HIDE DEF DummyInv, DummyTypeOK
    <3> QED
      BY <2>0, AddBatch
  <2>4. DummyTypeOK'
    <3>1. known' \in [Starts -> Nat]
      BY <2>0, <2>1
    <3>2. toCreate' \in [Starts -> Nat]
      BY <2>0, <2>1
    <3>3. created' \in Nat /\ doomed' \in [Starts -> SUBSET Point]
      BY <2>0, <2>1
    <3>4. task' \in [Starts -> {"waiting", "counted", "creating", "checking",
                                "comparing", "selecting", "deleting", "done"}]
      BY <2>0
    <3> QED
      BY <2>3, <3>1, <3>2, <3>3, <3>4
  <2>5. KnownThere'
    <3> DEFINE k == Cardinality(Persistent)
    <3>1. \A x \in Starts : known[x] \in Nat /\ known[x] <= k
      BY DEF KnownThere
    <3>2. k \in Nat /\ Cardinality(Persistent') = k + m
      BY <1>0, <2>3
    <3> HIDE DEF k
    <3>3. \A x \in Starts : known'[x] <= k + m
      BY <2>0, <2>1, <3>1, <3>2
    <3> QED
      BY <3>2, <3>3 DEF KnownThere
  <2>6. FloorBeforeSurplus'
    <3> DEFINE k == Cardinality(Persistent)
    <3>0. k \in Nat /\ Cardinality(Persistent') = k + m /\ known[s] \in Nat
          /\ known[s] <= k /\ (Surplus # {} => k >= Floor)
      BY <1>0, <2>3 DEF KnownThere, FloorBeforeSurplus
    <3> HIDE DEF k
    <3>1. CASE m = n
      BY <2>3, <3>0, <3>1 DEF FloorBeforeSurplus
    <3>2. CASE m # n
      <4>1. k + m >= Floor
        BY <2>0, <3>0, <3>2
      <4> QED
        BY <3>0, <4>1 DEF FloorBeforeSurplus
    <3> QED
      BY <3>1, <3>2
  <2> QED
    BY <2>1, <2>3, <2>4, <2>5, <2>6 DEF DoomedSurplus
<1>4. ASSUME NEW s \in Starts, CountTotal(s) \/ ComparePersistent(s)
      PROVE  DummyInv'
  <2>1. PointsNumbered' /\ KnownThere' /\ FloorBeforeSurplus'
    BY <1>4, TableKept DEF CountTotal, ComparePersistent
  <2> QED
    BY <1>0, <1>4, <2>1 DEF CountTotal, ComparePersistent, DoomedSurplus
<1>5. ASSUME NEW s \in Starts, SelectSurplus(s) PROVE DummyInv'
  <2>1. PointsNumbered' /\ KnownThere' /\ FloorBeforeSurplus'
    BY <1>5, TableKept DEF SelectSurplus
  <2>2. \A k : \A p \in Oldest(Surplus, k) : p \in Point /\ ~p.is_persistent
    BY DEF Oldest, Surplus, Persistent
  <2>3. DummyTypeOK'
    BY <1>5, <2>2 DEF SelectSurplus
  <2>4. DoomedSurplus'
    BY <1>5, <2>2 DEF SelectSurplus, DoomedSurplus
  <2> QED
    BY <2>1, <2>3, <2>4
<1>6. ASSUME NEW s \in Starts, DeleteSurplus(s) PROVE DummyInv'
  <2>1. points' = points \ doomed[s] /\ UNCHANGED <<created, known, doomed>>
    BY <1>6 DEF DeleteSurplus
  <2>2. Persistent' = Persistent /\ Surplus' \subseteq Surplus
    BY <2>1 DEF DoomedSurplus, Persistent, Surplus
  <2>3. PointsNumbered'
    <3>1. IsFiniteSet(points')
      BY <2>1, FS_Subset DEF PointsNumbered
    <3> QED
      BY <2>1, <3>1 DEF PointsNumbered
  <2>4. KnownThere' /\ FloorBeforeSurplus'
    BY <2>1, <2>2 DEF KnownThere, FloorBeforeSurplus
  <2> QED
    BY <1>6, <2>1, <2>3, <2>4 DEF DeleteSurplus, DoomedSurplus
<1>7. ASSUME NEW s \in Starts, TaskStops(s) PROVE DummyInv'
  <2>1. PointsNumbered' /\ KnownThere' /\ FloorBeforeSurplus'
    BY <1>7, TableKept DEF TaskStops
  <2> QED
    BY <1>7, <2>1 DEF TaskStops, DoomedSurplus
<1>8. CASE UNCHANGED dummyVars
  <2>1. PointsNumbered' /\ KnownThere' /\ FloorBeforeSurplus'
    BY <1>8, TableKept DEF dummyVars
  <2> QED
    BY <1>8, <2>1 DEF dummyVars, DoomedSurplus
<1> QED
  BY <1>1, <1>2, <1>3, <1>4, <1>5, <1>6, <1>7, <1>8 DEF DummyNext

(* For any number of start-up tasks, any target, floor and batch size: the *)
(* rows that may be trimmed never stand on fewer than Floor that may not   *)
(* (ensure_target_points).                                                 *)
THEOREM FloorHolds == DummySpec => []FloorBeforeSurplus
<1>1. DummyInv => FloorBeforeSurplus
  BY DEF DummyInv
<1> QED
  BY InitDummyInv, StepDummyInv, <1>1, PTL DEF DummySpec
=============================================================================
