------------------------- MODULE WebhookRulesProofs -------------------------
(***************************************************************************)
(* The safety of the webhook configuration reconcilers, for any bindings,  *)
(* kinds and resources, any time to live of a review, and any number of    *)
(* edits and faults.                                                       *)
(***************************************************************************)
EXTENDS WebhookRules, TLAPS

----------------------------------------------------------------------------
(***************************************************************************)
(* The access checker.  A review that says yes is at least as old as the   *)
(* loss of the permission.                                                 *)
(***************************************************************************)
ReviewsInv ==
  /\ since \in [Resources -> 0 .. TTL]
  /\ access \in [Resources -> Review]
  /\ \A r \in Resources : access[r].allowed => r \in allowed \/ since[r] <= access[r].age

\* Time does not run past the time to live.
LEMMA LaterIsBounded ==
  \A m, n \in 0 .. TTL : Later(m) \in 0 .. TTL /\ (m <= n => Later(m) <= Later(n))
PROOF BY BoundsAssumption DEF Later

\* The entry of a resource that was never asked about is a review like any other.
LEMMA NoReviewIsReview == NoReview \in Review
PROOF BY BoundsAssumption DEF NoReview, Review

\* At the start nothing was asked.
LEMMA InitReviews == Init => ReviewsInv
<1>. SUFFICES ASSUME Init
              PROVE  ReviewsInv
  OBVIOUS
<1>1. since \in [Resources -> 0 .. TTL]
  BY BoundsAssumption DEF Init
<1>2. access \in [Resources -> Review]
  BY NoReviewIsReview DEF Init
<1>3. \A r \in Resources : access[r].allowed = FALSE
  BY DEF Init, NoReview
<1>. QED
  BY <1>1, <1>2, <1>3 DEF ReviewsInv

\* A review is made, an error is kept as a denial, or all reviews are as they
\* were: what a step other than Tick and Crash can do to the access checker.
LEMMA AccessStep ==
  ASSUME Next
  PROVE  \/ access' = access
         \/ Tick
         \/ Crash
         \/ \E r \in Resources, age \in {0, TTL}, answer \in BOOLEAN :
              /\ r \in todo
              /\ answer => r \in allowed
              /\ access' = [access EXCEPT ![r] = [allowed |-> answer, age |-> age]]
              /\ allowed' = allowed
              /\ since' = since
<1>1. ASSUME NEW r \in Resources, NEW age \in {0, TTL}, CanI(r, age)
      PROVE  /\ r \in todo
             /\ access' = [access EXCEPT ![r] = [allowed |-> r \in allowed, age |-> age]]
             /\ allowed' = allowed
             /\ since' = since
  BY <1>1 DEF CanI, Answered, clusterVars
<1>2. ASSUME NEW r \in Resources, CanIFails(r)
      PROVE  /\ r \in todo
             /\ access' = [access EXCEPT ![r] = [allowed |-> FALSE, age |-> 0]]
             /\ allowed' = allowed
             /\ since' = since
  BY <1>2 DEF CanIFails, Answered, clusterVars
<1>3. \/ access' = access
      \/ Tick
      \/ Crash
      \/ \E r \in Resources, age \in {0, TTL} : CanI(r, age)
      \/ \E r \in Resources : CanIFails(r)
  BY DEF Next, Step, ChangeBinding, ChangeInstalled, ChangeAccess, ApplyConfig, Edit, SyncConfig,
         Resync, Load, CanICached, Update, UpdateFails
<1>4. ASSUME NEW r \in Resources, NEW age \in {0, TTL}, CanI(r, age)
      PROVE  \E answer \in BOOLEAN :
               /\ r \in todo
               /\ answer => r \in allowed
               /\ access' = [access EXCEPT ![r] = [allowed |-> answer, age |-> age]]
               /\ allowed' = allowed
               /\ since' = since
  <2>1. (r \in allowed) \in BOOLEAN
    OBVIOUS
  <2>. WITNESS (r \in allowed) \in BOOLEAN
  <2>. QED
    BY <1>1, <1>4, Zenon
<1>5. ASSUME NEW r \in Resources, CanIFails(r)
      PROVE  \E age \in {0, TTL}, answer \in BOOLEAN :
               /\ r \in todo
               /\ answer => r \in allowed
               /\ access' = [access EXCEPT ![r] = [allowed |-> answer, age |-> age]]
               /\ allowed' = allowed
               /\ since' = since
  <2>. WITNESS 0 \in {0, TTL}, FALSE \in BOOLEAN
  <2>. QED
    BY <1>2, <1>5, Zenon
<1>. QED
  BY <1>3, <1>4, <1>5, Zenon

\* The other side: a permission comes or goes, time passes, or nothing changes.
LEMMA PermissionStep ==
  ASSUME Next
  PROVE  \/ allowed' = allowed /\ since' = since
         \/ Tick
         \/ \E r \in Resources : ChangeAccess(r) /\ access' = access
<1>1. \A r \in Resources : ChangeAccess(r) => access' = access
  BY DEF ChangeAccess, Edit
<1>2. \/ allowed' = allowed /\ since' = since
      \/ Tick
      \/ \E r \in Resources : ChangeAccess(r)
  BY DEF Next, Step, ChangeBinding, ChangeInstalled, ApplyConfig, SyncConfig, Resync, Crash, Load,
         CanICached, CanI, CanIFails, Answered, Update, UpdateFails, clusterVars
<1>. QED
  BY <1>1, <1>2

\* A review ages no slower than the loss of the permission (Tick).
LEMMA TickReviews ==
  ASSUME ReviewsInv, Tick
  PROVE  ReviewsInv'
<1>1. /\ since' = [r \in Resources |-> IF r \in allowed THEN 0 ELSE Later(since[r])]
      /\ access' = [r \in Resources |-> [access[r] EXCEPT !.age = Later(@)]]
      /\ allowed' = allowed
  BY DEF Tick
<1>2. \A r \in Resources : since[r] \in 0 .. TTL /\ access[r] \in Review
  BY DEF ReviewsInv
<1>3. \A r \in Resources : access[r].age \in 0 .. TTL
  BY <1>2 DEF Review
<1>4. since' \in [Resources -> 0 .. TTL]
  BY <1>1, <1>2, LaterIsBounded, BoundsAssumption
<1>5. \A r \in Resources : /\ access'[r] \in Review
                           /\ access'[r].allowed = access[r].allowed
                           /\ access'[r].age = Later(access[r].age)
  <2>. SUFFICES ASSUME NEW r \in Resources
                PROVE  /\ access'[r] \in Review
                       /\ access'[r].allowed = access[r].allowed
                       /\ access'[r].age = Later(access[r].age)
    OBVIOUS
  <2>1. access'[r] = [access[r] EXCEPT !.age = Later(access[r].age)]
    BY <1>1
  <2>2. Later(access[r].age) \in 0 .. TTL
    BY <1>3, LaterIsBounded
  <2>. QED
    BY <1>2, <2>1, <2>2 DEF Review
<1>6. access' \in [Resources -> Review]
  BY <1>1, <1>5
<1>7. ASSUME NEW r \in Resources, access'[r].allowed, r \notin allowed'
      PROVE  since'[r] <= access'[r].age
  <2>1. since[r] <= access[r].age
    BY <1>1, <1>5, <1>7 DEF ReviewsInv
  <2>2. since'[r] = Later(since[r])
    BY <1>1, <1>7
  <2>. QED
    BY <1>2, <1>3, <1>5, <2>1, <2>2, LaterIsBounded
<1>. QED
  BY <1>4, <1>6, <1>7 DEF ReviewsInv

\* Every step keeps the cached answers justified.
LEMMA NextReviews ==
  ASSUME ReviewsInv, Next
  PROVE  ReviewsInv'
<1>1. CASE Tick
  BY <1>1, TickReviews
<1>2. CASE access' = access /\ allowed' = allowed /\ since' = since
  BY <1>2 DEF ReviewsInv
<1>3. ASSUME NEW r \in Resources, ChangeAccess(r), access' = access
      PROVE  ReviewsInv'
  <2>1. /\ allowed' = (allowed \ {r}) \cup ({r} \ allowed)
        /\ since' = [since EXCEPT ![r] = 0]
    BY <1>3 DEF ChangeAccess
  <2>2. since' \in [Resources -> 0 .. TTL]
    BY <2>1, BoundsAssumption DEF ReviewsInv
  <2>3. access[r].age \in 0 .. TTL
    BY DEF ReviewsInv, Review
  <2>4. \A q \in Resources : access'[q].allowed => q \in allowed' \/ since'[q] <= access'[q].age
    <3>1. since'[r] = 0 /\ 0 <= access'[r].age
      BY <1>3, <2>1, <2>3 DEF ReviewsInv
    <3>2. \A q \in Resources \ {r} : since'[q] = since[q] /\ (q \in allowed' <=> q \in allowed)
      BY <2>1 DEF ReviewsInv
    <3>. QED
      BY <1>3, <3>1, <3>2 DEF ReviewsInv
  <2>. QED
    BY <1>3, <2>2, <2>4 DEF ReviewsInv
<1>4. CASE Crash
  <2>1. /\ access' = [r \in Resources |-> NoReview]
        /\ allowed' = allowed /\ since' = since
    BY <1>4 DEF Crash, clusterVars
  <2>2. \A r \in Resources : access'[r].allowed = FALSE
    BY <2>1 DEF NoReview
  <2>3. access' \in [Resources -> Review]
    BY <2>1, NoReviewIsReview
  <2>. QED
    BY <2>1, <2>2, <2>3 DEF ReviewsInv
<1>5. ASSUME NEW r \in Resources, NEW age \in {0, TTL}, NEW answer \in BOOLEAN, answer => r \in allowed,
             access' = [access EXCEPT ![r] = [allowed |-> answer, age |-> age]],
             allowed' = allowed, since' = since
      PROVE  ReviewsInv'
  <2>1. answer \in BOOLEAN /\ (answer => r \in allowed)
    BY <1>5
  <2>2. age \in 0 .. TTL
    BY BoundsAssumption
  <2>3. [allowed |-> answer, age |-> age] \in Review
    BY <2>1, <2>2 DEF Review
  <2>4. access' \in [Resources -> Review]
    BY <1>5, <2>3 DEF ReviewsInv
  <2>5. \A q \in Resources : access'[q].allowed => q \in allowed' \/ since'[q] <= access'[q].age
    <3>1. access'[r].allowed => r \in allowed
      BY <1>5, <2>1 DEF ReviewsInv
    <3>2. \A q \in Resources \ {r} : access'[q] = access[q]
      BY <1>5 DEF ReviewsInv
    <3>. QED
      BY <1>5, <3>1, <3>2 DEF ReviewsInv
  <2>. QED
    BY <1>5, <2>4, <2>5 DEF ReviewsInv
<1>. QED
  BY <1>1, <1>2, <1>3, <1>4, <1>5, AccessStep, PermissionStep DEF Tick, Crash, ChangeAccess, clusterVars

\* The access checker answers yes from its cache only if the controller had the
\* permission less than the time to live ago, however often permissions come and
\* go and the process restarts (CanI).
THEOREM AnswersAreRecent == Spec => []AnswerIsRecent
<1>1. ReviewsInv /\ UNCHANGED vars => ReviewsInv'
  BY DEF ReviewsInv, vars, clusterVars
<1>2. ReviewsInv /\ [Next]_vars => ReviewsInv'
  BY <1>1, NextReviews
<1>3. ReviewsInv => AnswerIsRecent
  <2>. SUFFICES ASSUME ReviewsInv, NEW r \in Resources, Fresh(r), access[r].allowed, r \notin allowed
                PROVE  since[r] < TTL
    BY DEF AnswerIsRecent
  <2>1. since[r] <= access[r].age /\ access[r].age < TTL
    BY DEF ReviewsInv, Fresh
  <2>2. since[r] \in Nat /\ access[r].age \in Nat
    BY DEF ReviewsInv, Review
  <2>. QED
    BY <2>1, <2>2, BoundsAssumption
<1>. QED
  BY <1>2, <1>3, InitReviews, PTL DEF Spec

----------------------------------------------------------------------------
(***************************************************************************)
(* The rules.  A version is never used again, so a cache that has the      *)
(* version of the configuration has the configuration; and as long as no   *)
(* request is queued, the one in progress works on what the bindings and   *)
(* the cached configuration still are.                                     *)
(***************************************************************************)
TypeOK ==
  /\ bindings \in [Bindings -> Reference \cup {NoReference}]
  /\ config \in Config
  /\ seen \in Config
  /\ todo \subseteq Resources
  /\ kept \subseteq Resources

ProgressInv ==
  /\ seen.rv <= config.rv
  /\ pc \in {"idle", "check"}
  /\ pc = "idle" => todo = {}
  /\ pc = "check" /\ ~queued =>
       /\ read = seen
       /\ todo \subseteq Referred
       /\ kept = {r \in Referred \ todo : access[r].allowed}

RulesInv == TypeOK /\ ProgressInv /\ RestingRulesAreComplete

\* The resources to be checked are those that bindings refer to.
LEMMA ObservedIsReferred == {Resource[k] : k \in Observed} = Referred
<1>1. CASE hook = "trigger"
  BY <1>1 DEF Observed, TriggerGVKs, InterceptGVKs, Referred
<1>2. CASE hook # "trigger"
  BY <1>2 DEF Observed, InterceptGVKs, Referred
<1>. QED
  BY <1>1, <1>2

\* The kinds the reconciler observes are served as resources it knows.
LEMMA ObservedIsTyped == TypeOK => {Resource[k] : k \in Observed} \subseteq Resources
<1>. SUFFICES ASSUME TypeOK, NEW k \in Observed
              PROVE  Resource[k] \in Resources
  OBVIOUS
<1>1. \A b \in Existing : bindings[b].workload \in Kinds /\ bindings[b].service \in Kinds
  BY DEF TypeOK, Existing, Reference
<1>2. k \in Kinds
  BY <1>1 DEF Observed, TriggerGVKs, InterceptGVKs
<1>. QED
  BY <1>2, KindsAssumption

\* What the bindings refer to changes only with the bindings.
LEMMA ReferredUnchanged == hook' = hook /\ bindings' = bindings => Referred' = Referred
PROOF BY DEF Referred, Existing

\* At the start the reconciler is queued and has nothing in hand.
LEMMA InitRules == Init => RulesInv
<1>. SUFFICES ASSUME Init
              PROVE  RulesInv
  OBVIOUS
<1>1. config \in Config /\ seen \in Config /\ seen.rv <= config.rv
  BY DEF Init, Config
<1>2. pc = "idle" /\ todo = {} /\ kept = {} /\ queued = TRUE
  BY DEF Init
<1>3. bindings \in [Bindings -> Reference \cup {NoReference}]
  BY DEF Init
<1>. QED
  BY <1>1, <1>2, <1>3 DEF RulesInv, TypeOK, ProgressInv, RestingRulesAreComplete

----------------------------------------------------------------------------
(***************************************************************************)
(* What a step does, of the parts of the state that the rules depend on.   *)
(***************************************************************************)
\* Users and the cluster.
LEMMA ClusterStep ==
  ASSUME RulesInv, ReviewsInv,
         \/ \E b \in Bindings, ref \in Reference \cup {NoReference} : ChangeBinding(b, ref)
         \/ \E k \in Kinds : ChangeInstalled(k)
         \/ \E r \in Resources : ChangeAccess(r)
         \/ SyncConfig
         \/ Resync
         \/ Tick
  PROVE  RulesInv'
<1>1. CASE \E b \in Bindings, ref \in Reference \cup {NoReference} : ChangeBinding(b, ref)
  <2>1. /\ bindings' \in [Bindings -> Reference \cup {NoReference}]
        /\ queued' = TRUE
        /\ UNCHANGED <<config, seen, pc, todo, kept>>
    BY <1>1 DEF ChangeBinding, Edit, requestVars, RulesInv, TypeOK
  <2>. QED
    BY <2>1 DEF RulesInv, TypeOK, ProgressInv, RestingRulesAreComplete
<1>2. CASE SyncConfig
  <2>1. /\ queued' = TRUE
        /\ seen' = config
        /\ UNCHANGED <<bindings, config, pc, todo, kept>>
    BY <1>2 DEF SyncConfig, requestVars, clusterVars
  <2>2. config.rv \in Nat
    BY DEF RulesInv, TypeOK, Config
  <2>. QED
    BY <2>1, <2>2 DEF RulesInv, TypeOK, ProgressInv, RestingRulesAreComplete
<1>3. CASE Resync
  <2>1. queued' = TRUE /\ UNCHANGED <<bindings, config, seen, pc, todo, kept>>
    BY <1>3 DEF Resync, requestVars, clusterVars
  <2>. QED
    BY <2>1 DEF RulesInv, TypeOK, ProgressInv, RestingRulesAreComplete
<1>4. CASE /\ UNCHANGED <<hook, bindings, config, seen, queued, requestVars>>
           /\ \A r \in Resources : access'[r].allowed = access[r].allowed
  <2>1. Referred' = Referred
    BY <1>4, ReferredUnchanged
  <2>2. Referred \subseteq Resources
    BY ObservedIsReferred, ObservedIsTyped DEF RulesInv
  <2>3. {r \in Referred \ todo : access[r].allowed}' = {r \in Referred \ todo : access[r].allowed}
    BY <1>4, <2>1, <2>2 DEF requestVars
  <2>4. {r \in Referred : access[r].allowed}' = {r \in Referred : access[r].allowed}
    BY <1>4, <2>1, <2>2
  <2>5. TypeOK'
    BY <1>4 DEF RulesInv, TypeOK, requestVars
  <2>6. ProgressInv'
    BY <1>4, <2>1, <2>3 DEF RulesInv, ProgressInv, requestVars
  <2>7. RestingRulesAreComplete'
    BY <1>4, <2>4 DEF RulesInv, RestingRulesAreComplete, requestVars
  <2>. QED
    BY <2>5, <2>6, <2>7 DEF RulesInv
<1>5. ASSUME NEW k \in Kinds, ChangeInstalled(k)
      PROVE  RulesInv'
  BY <1>4, <1>5 DEF ChangeInstalled, Edit
<1>6. ASSUME NEW r \in Resources, ChangeAccess(r)
      PROVE  RulesInv'
  BY <1>4, <1>6 DEF ChangeAccess, Edit
<1>7. CASE Tick
  <2>1. /\ UNCHANGED <<hook, bindings, config, seen, queued, requestVars>>
        /\ access' = [r \in Resources |-> [access[r] EXCEPT !.age = Later(@)]]
    BY <1>7 DEF Tick
  <2>2. \A r \in Resources : access[r] \in Review
    BY DEF ReviewsInv
  <2>3. \A r \in Resources : access'[r].allowed = access[r].allowed
    BY <2>1, <2>2 DEF Review
  <2>. QED
    BY <1>4, <2>1, <2>3
<1>. QED
  BY <1>1, <1>2, <1>3, <1>5, <1>6, <1>7

\* The operator applies a configuration: the cache is behind it.
LEMMA ApplyConfigStep ==
  ASSUME RulesInv, NEW expected \in BOOLEAN, ApplyConfig(expected)
  PROVE  RulesInv'
<1>1. /\ config' = [rules |-> {}, expected |-> expected, rv |-> config.rv + 1]
      /\ UNCHANGED <<hook, bindings, seen, queued, access, requestVars>>
  BY DEF ApplyConfig, Edit, clusterVars
<1>2. config.rv \in Nat /\ seen.rv \in Nat /\ seen.rv <= config.rv
  BY DEF RulesInv, TypeOK, ProgressInv, Config
<1>3. config' \in Config /\ config'.rv = config.rv + 1
  BY <1>1, <1>2 DEF Config
<1>4. Referred' = Referred
  BY <1>1, ReferredUnchanged
<1>5. TypeOK'
  BY <1>1, <1>3 DEF RulesInv, TypeOK, requestVars
<1>6. ProgressInv'
  BY <1>1, <1>2, <1>3, <1>4 DEF RulesInv, ProgressInv, requestVars
<1>7. seen' # config'
  BY <1>1, <1>2, <1>3
<1>. QED
  BY <1>5, <1>6, <1>7 DEF RulesInv, RestingRulesAreComplete

\* A request ends with another one queued: it failed, or the process died.
LEMMA RequeueStep ==
  ASSUME RulesInv, Rest, queued' = TRUE, UNCHANGED <<bindings, config>>, seen' \in {seen, config}
  PROVE  RulesInv'
<1>1. config.rv \in Nat
  BY DEF RulesInv, TypeOK, Config
<1>. QED
  BY <1>1 DEF Rest, RulesInv, TypeOK, ProgressInv, RestingRulesAreComplete

\* A request starts on all resources that bindings refer to.
LEMMA LoadStep ==
  ASSUME RulesInv, Load
  PROVE  RulesInv'
<1>1. CASE Observed \subseteq installed
  <2>1. /\ pc' = "check"
        /\ read' = seen
        /\ todo' = {Resource[k] : k \in Observed}
        /\ kept' = {}
        /\ UNCHANGED <<hook, bindings, config, seen, access>>
    BY <1>1 DEF Load, clusterVars
  <2>2. todo' = Referred' /\ todo' \subseteq Resources
    BY <2>1, ObservedIsReferred, ObservedIsTyped, ReferredUnchanged DEF RulesInv
  <2>3. TypeOK'
    BY <2>1, <2>2 DEF RulesInv, TypeOK
  <2>4. ProgressInv'
    BY <2>1, <2>2 DEF RulesInv, ProgressInv
  <2>. QED
    BY <2>1, <2>3, <2>4 DEF RulesInv, RestingRulesAreComplete
<1>2. CASE ~(Observed \subseteq installed)
  <2>1. UNCHANGED <<hook, bindings, config, seen, access, queued, requestVars>>
    BY <1>2 DEF Load, clusterVars
  <2>2. Referred' = Referred
    BY <2>1, ReferredUnchanged
  <2>. QED
    BY <2>1, <2>2 DEF RulesInv, TypeOK, ProgressInv, RestingRulesAreComplete, requestVars
<1>. QED
  BY <1>1, <1>2

\* A resource is checked: it is kept if the review, which stays, says yes.
LEMMA AnsweredStep ==
  ASSUME RulesInv, NEW r \in todo, NEW answer, Answered(r, answer),
         access'[r].allowed = answer,
         \A q \in Resources \ {r} : access'[q].allowed = access[q].allowed
  PROVE  RulesInv'
<1>1. /\ todo' = todo \ {r}
      /\ kept' = IF answer THEN kept \cup {r} ELSE kept
      /\ UNCHANGED <<hook, bindings, config, seen, queued, pc, read>>
  BY DEF Answered, clusterVars
<1>2. pc = "check" /\ r \in Resources
  BY DEF RulesInv, ProgressInv, TypeOK
<1>3. Referred' = Referred /\ Referred \subseteq Resources
  BY <1>1, ReferredUnchanged, ObservedIsReferred, ObservedIsTyped DEF RulesInv
<1>4. TypeOK'
  BY <1>1, <1>2 DEF RulesInv, TypeOK
<1>5. ProgressInv'
  <2>. SUFFICES ASSUME ~queued
                PROVE  kept' = {q \in Referred' \ todo' : access'[q].allowed}
    BY <1>1, <1>2, <1>3 DEF RulesInv, ProgressInv
  <2>1. /\ todo \subseteq Referred
        /\ kept = {q \in Referred \ todo : access[q].allowed}
    BY <1>2 DEF RulesInv, ProgressInv
  <2>2. CASE answer
    BY <1>1, <1>3, <2>1, <2>2
  <2>3. CASE ~answer
    BY <1>1, <1>3, <2>1, <2>3
  <2>. QED
    BY <2>2, <2>3
<1>. QED
  BY <1>1, <1>2, <1>4, <1>5 DEF RulesInv, RestingRulesAreComplete

\* The three ways to check one.
LEMMA CheckStep ==
  ASSUME RulesInv, ReviewsInv, NEW r \in Resources,
         \/ CanICached(r)
         \/ \E age \in {0, TTL} : CanI(r, age)
         \/ CanIFails(r)
  PROVE  RulesInv'
<1>1. CASE CanICached(r)
  <2>1. r \in todo /\ Answered(r, access[r].allowed) /\ access' = access
    BY <1>1 DEF CanICached
  <2>. QED
    BY <2>1, AnsweredStep
<1>2. ASSUME NEW age \in {0, TTL}, CanI(r, age)
      PROVE  RulesInv'
  <2>1. /\ r \in todo
        /\ Answered(r, r \in allowed)
        /\ access' = [access EXCEPT ![r] = [allowed |-> r \in allowed, age |-> age]]
    BY <1>2 DEF CanI
  <2>2. access'[r].allowed = (r \in allowed)
    BY <2>1 DEF ReviewsInv
  <2>3. \A q \in Resources \ {r} : access'[q].allowed = access[q].allowed
    BY <2>1 DEF ReviewsInv
  <2>. QED
    BY <2>1, <2>2, <2>3, AnsweredStep
<1>3. CASE CanIFails(r)
  <2>1. /\ r \in todo
        /\ Answered(r, FALSE)
        /\ access' = [access EXCEPT ![r] = [allowed |-> FALSE, age |-> 0]]
    BY <1>3 DEF CanIFails
  <2>2. access'[r].allowed = FALSE
    BY <2>1 DEF ReviewsInv
  <2>3. \A q \in Resources \ {r} : access'[q].allowed = access[q].allowed
    BY <2>1 DEF ReviewsInv
  <2>. QED
    BY <2>1, <2>2, <2>3, AnsweredStep
<1>. QED
  BY <1>1, <1>2, <1>3

\* The request ends: the rules were right, are written, or are worked out again.
LEMMA UpdateStep ==
  ASSUME RulesInv, Update
  PROVE  RulesInv'
<1>1. /\ pc = "check" /\ todo = {} /\ Rest
      /\ UNCHANGED <<hook, bindings, seen, access>>
  BY DEF Update, clusterVars
<1>2. CASE SemanticEquals(kept)
  <2>1. config' = config /\ (~queued' => ~queued)
    BY <1>2 DEF Update
  <2>2. Referred' = Referred
    BY <1>1, ReferredUnchanged
  <2>3. TypeOK' /\ ProgressInv'
    BY <1>1, <2>1 DEF RulesInv, TypeOK, ProgressInv, Rest
  <2>4. ASSUME ~queued, seen = config, config.expected
        PROVE  config.rules = {r \in Referred : access[r].allowed}
    <3>1. read = config /\ kept = {r \in Referred : access[r].allowed}
      BY <1>1, <2>4 DEF RulesInv, ProgressInv
    <3>2. kept = read.rules
      BY <1>2, <2>4, <3>1 DEF SemanticEquals
    <3>. QED
      BY <3>1, <3>2
  <2>. QED
    BY <1>1, <2>1, <2>2, <2>3, <2>4 DEF RulesInv, RestingRulesAreComplete
<1>3. CASE ~SemanticEquals(kept) /\ config.rv # read.rv
  <2>1. config' = config /\ queued' = TRUE
    BY <1>3 DEF Update
  <2>. QED
    BY <1>1, <2>1, RequeueStep
<1>4. CASE ~SemanticEquals(kept) /\ config.rv = read.rv
  <2>1. config' = [config EXCEPT !.rules = kept, !.rv = config.rv + 1]
    BY <1>4 DEF Update
  <2>2. /\ config \in Config /\ config.rv \in Nat
        /\ seen.rv \in Nat /\ seen.rv <= config.rv
        /\ kept \subseteq Resources
    BY DEF RulesInv, TypeOK, ProgressInv, Config
  <2>3. config' \in Config /\ config'.rv = config.rv + 1
    <3>. DEFINE n == config.rv + 1
    <3>1. n \in Nat /\ kept \in SUBSET Resources
      BY <2>2
    <3>2. config' = [config EXCEPT !.rules = kept, !.rv = n]
      BY <2>1
    <3>. HIDE DEF n
    <3>3. config' \in Config /\ config'.rv = n
      BY <2>2, <3>1, <3>2 DEF Config
    <3>. QED
      BY <3>3 DEF n
  <2>4. TypeOK' /\ ProgressInv'
    BY <1>1, <2>2, <2>3 DEF RulesInv, TypeOK, ProgressInv, Rest
  <2>5. seen' # config'
    BY <1>1, <2>2, <2>3
  <2>. QED
    BY <2>4, <2>5 DEF RulesInv, RestingRulesAreComplete
<1>. QED
  BY <1>2, <1>3, <1>4

\* Every step keeps the rules on their way to completeness.
LEMMA NextRules ==
  ASSUME RulesInv, ReviewsInv, Next
  PROVE  RulesInv'
<1>1. CASE Crash
  BY <1>1, RequeueStep DEF Crash, clusterVars
<1>2. CASE UpdateFails
  BY <1>2, RequeueStep DEF UpdateFails, clusterVars
<1>. QED
  BY <1>1, <1>2, ClusterStep, ApplyConfigStep, LoadStep, CheckStep, UpdateStep DEF Next, Step

\* When nothing is left to do the rules are complete: no change of a binding or
\* of the configuration that falls into a reconciliation is lost, whatever the
\* order of watches, conflicts, errors and restarts (WebhookRules, the watches of
\* LoadServiceBindings, the resource version of the update).
THEOREM RulesAreComplete == Spec => []RestingRulesAreComplete
<1>1. RulesInv /\ ReviewsInv /\ UNCHANGED vars => RulesInv' /\ ReviewsInv'
  <2>. SUFFICES ASSUME RulesInv, ReviewsInv, UNCHANGED vars
                PROVE  RulesInv' /\ ReviewsInv'
    OBVIOUS
  <2>1. UNCHANGED <<hook, bindings, allowed, since, config, seen, access, queued, requestVars>>
    BY DEF vars, clusterVars
  <2>2. Referred' = Referred
    BY <2>1, ReferredUnchanged
  <2>3. RulesInv'
    BY <2>1, <2>2 DEF RulesInv, TypeOK, ProgressInv, RestingRulesAreComplete, requestVars
  <2>4. ReviewsInv'
    BY <2>1 DEF ReviewsInv
  <2>. QED
    BY <2>3, <2>4
<1>2. RulesInv /\ ReviewsInv /\ [Next]_vars => RulesInv' /\ ReviewsInv'
  BY <1>1, NextRules, NextReviews
<1>3. RulesInv => RestingRulesAreComplete
  BY DEF RulesInv
<1>. QED
  BY <1>2, <1>3, InitRules, InitReviews, PTL DEF Spec
=============================================================================
