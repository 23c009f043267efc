---------------------------- MODULE PolicyProofs ----------------------------
(***************************************************************************)
(* Proofs about three parts of the policy thread of pebs.c that share no   *)
(* state: the hot-change detector with the sampling mode (Sampling), the   *)
(* promotion rule (PromotionRule) and the access counters (AccessCount).   *)
(* The last two within MCStores; all for every value of the constants.     *)
(***************************************************************************)
EXTENDS MCStores, FiniteSetTheorems, FunctionTheorems, SequenceTheorems, TLAPS

CONSTANTS Deviations, Threshold, MaxPeriods, PerSecond      \* see Sampling

VARIABLES bias, cusum, time_since_recn, global_version, sampling_mode, sample_period,
          pc, deviation, recn_seconds

Mode == INSTANCE Sampling

\* The variables of PromotionRule and AccessCount, as MCStores places them.
score == x1
prev_score == x2
hot_age == x3
can_promote == x4
tracked == x5
inherited == x6
top == x7
streak == x8

accesses == x1
curr_access_version == x2
pages == x3
free == x4
mod_page_dq == x5
pages_map == x6
scan == x7
policy == x8
todo == x9
counted == x10
truth == x11
disturbed == x12

USE DEF score, prev_score, hot_age, can_promote, tracked, inherited, top, streak,
        accesses, curr_access_version, pages, free, mod_page_dq, pages_map, scan,
        policy, todo, counted, truth, disturbed

(***************************************************************************)
(* Sampling.                                                               *)
(***************************************************************************)

\* The mode is adjusted at the end of every interval, and time_since_recn, which
\* counts quiet seconds only, never runs ahead of the seconds spent in recency.
ModeInv ==
    /\ bias \in {"hist", "recn"}
    /\ pc \in {"sleep", "detect", "end"}
    /\ sampling_mode \in {"DEFAULT_SAMPLING", "HIGH_FIDELITY"}
    /\ pc # "end" => (sampling_mode = "HIGH_FIDELITY" <=> bias = "recn")
    /\ time_since_recn \in 0 .. MaxPeriods /\ recn_seconds \in 0 .. MaxPeriods
    /\ bias = "recn" => time_since_recn <= recn_seconds

\* The thread starts in history mode.
LEMMA ModeInit == Mode!DetectorAssumption /\ Mode!Init => ModeInv
  BY DEF Mode!DetectorAssumption, Mode!Init, ModeInv

\* A second in recency counts for recn_seconds whether or not it is quiet.
LEMMA DetectStep ==
  ASSUME Mode!DetectorAssumption, ModeInv, Mode!Detect
  PROVE  /\ ModeInv'
         /\ bias = "recn" /\ bias' = "hist" => recn_seconds + 1 >= MaxPeriods
<1>1. MaxPeriods \in Nat \ {0}
  BY DEF Mode!DetectorAssumption
<1> DEFINE time == Mode!UpTo(time_since_recn + 1, MaxPeriods)
<1>2. /\ time \in 0 .. MaxPeriods
      /\ time <= Mode!UpTo(recn_seconds + 1, MaxPeriods) \/ bias # "recn"
      /\ Mode!UpTo(recn_seconds + 1, MaxPeriods) \in 0 .. MaxPeriods
      /\ time >= MaxPeriods => time_since_recn + 1 >= MaxPeriods
  BY <1>1 DEF ModeInv, Mode!UpTo
<1>3. recn_seconds' = IF bias = "recn" THEN Mode!UpTo(recn_seconds + 1, MaxPeriods) ELSE 0
  BY DEF Mode!Detect, Mode!CountSeconds
<1>4. PICK start \in BOOLEAN, stop \in BOOLEAN, counts \in BOOLEAN :
        /\ start => bias = "hist"
        /\ stop => bias = "recn" /\ time >= MaxPeriods
        /\ counts => bias = "recn"
        /\ bias' = IF start THEN "recn" ELSE IF stop THEN "hist" ELSE bias
        /\ time_since_recn' = IF start \/ stop THEN 0
                              ELSE IF counts THEN time ELSE time_since_recn
  <2>1. PICK d \in Deviations, busy \in BOOLEAN :
          LET sum == Mode!Positive(cusum + d)
              change == sum > Threshold
              quiet == time >= MaxPeriods /\ sum <= 0
              start == change /\ bias = "hist" /\ busy
              stop == ~change /\ bias = "recn" /\ quiet
          IN /\ bias' = IF start THEN "recn" ELSE IF stop THEN "hist" ELSE bias
             /\ time_since_recn' = IF start \/ stop THEN 0
                                   ELSE IF ~change /\ bias = "recn" THEN time
                                   ELSE time_since_recn
    BY DEF Mode!Detect
  <2> QED
    BY <2>1
<1>5. pc' = "end" /\ sampling_mode' = sampling_mode
  BY DEF Mode!Detect
<1> HIDE DEF time
<1>6. CASE start
  BY <1>1, <1>3, <1>4, <1>5, <1>6 DEF ModeInv
<1>7. CASE ~start /\ stop
  BY <1>1, <1>2, <1>3, <1>4, <1>5, <1>7 DEF ModeInv
<1>8. CASE ~start /\ ~stop
  <2>1. bias' = bias /\ ((time_since_recn' = time /\ bias = "recn") \/ time_since_recn' = time_since_recn)
    BY <1>4, <1>8
  <2> QED
    BY <1>1, <1>2, <1>3, <1>5, <2>1 DEF ModeInv, Mode!UpTo
<1> QED
  BY <1>6, <1>7, <1>8

\* Every step keeps the invariant, and none leaves recency early.
LEMMA ModeStep ==
  ASSUME Mode!DetectorAssumption, ModeInv, [Mode!Next]_(Mode!vars)
  PROVE  /\ ModeInv'
         /\ bias = "recn" /\ bias' = "hist" => recn_seconds + 1 >= MaxPeriods
<1>1. CASE Mode!StartInterval
  BY <1>1 DEF Mode!StartInterval, ModeInv
<1>2. CASE Mode!EndInterval
  BY <1>2 DEF Mode!EndInterval, ModeInv
<1>3. CASE UNCHANGED Mode!vars
  BY <1>3 DEF Mode!vars, ModeInv
<1> QED
  BY <1>1, <1>2, <1>3, DetectStep DEF Mode!Next

\* update_window scales by the mode and compute_score weighs by the bias:
\* whenever an interval begins the two agree.
THEOREM ModeAndBiasAgree ==
  ASSUME Mode!DetectorAssumption
  PROVE  Mode!Spec => []Mode!ModeFollowsBias
<1>1. ModeInv => Mode!ModeFollowsBias
  BY DEF ModeInv, Mode!ModeFollowsBias
<1>2. Mode!Init => ModeInv
  BY ModeInit
<1>3. ModeInv /\ [Mode!Next]_(Mode!vars) => ModeInv'
  BY ModeStep
<1> QED
  BY <1>1, <1>2, <1>3, PTL DEF Mode!Spec

\* Once the detector has signalled a change, scores are weighed by recency for
\* HCD_RECN_MAX_PERIODS seconds at least, however the bandwidth moves.
THEOREM RecencyKept ==
  ASSUME Mode!DetectorAssumption
  PROVE  Mode!Spec => Mode!RecencyLasts
<1>1. Mode!Init => ModeInv
  BY ModeInit
<1>2. ModeInv /\ [Mode!Next]_(Mode!vars) => ModeInv'
  BY ModeStep
<1>3. ModeInv /\ [Mode!Next]_(Mode!vars)
        => [bias = "recn" /\ bias' = "hist" => recn_seconds + 1 >= MaxPeriods]_(Mode!vars)
  BY ModeStep
<1> QED
  BY <1>1, <1>2, <1>3, PTL DEF Mode!Spec, Mode!RecencyLasts
(***************************************************************************)
(* The promotion rule.                                                     *)
(***************************************************************************)

\* hot_age counts up only while the page stays among the hottest, and a page
\* is marked only after two such intervals, or has been since its struct was
\* released.
RuleInv ==
    /\ hot_age \in [Structs -> Nat] /\ streak \in [Structs -> 0 .. 2]
    /\ can_promote \in [Structs -> BOOLEAN]
    /\ tracked \subseteq Structs /\ top \subseteq tracked
    /\ \A p \in Structs : hot_age[p] > 0 => streak[p] > 0
    /\ \A p \in Structs : can_promote[p] => streak[p] = 2 \/ p \in inherited

\* The range of a counter with n bits.
LEMMA PowerOfTwo ==
  ASSUME NEW n \in Nat
  PROVE  2 ^ n \in Nat \ {0}
<1> DEFINE S == 1 .. n
<1>1. IsFiniteSet(S) /\ Cardinality(S) = n
  <2>1. 1 \in Int /\ n \in Int
    OBVIOUS
  <2> QED
    BY <2>1, FS_Interval
<1> HIDE DEF S
<1>2. IsFiniteSet(SUBSET S) /\ Cardinality(SUBSET S) = 2 ^ n
  BY <1>1, FS_SUBSET
<1>3. Cardinality(SUBSET S) \in Nat
  BY <1>2, FS_CardinalityType
<1>4. Cardinality(SUBSET S) # 0
  BY <1>2, FS_EmptySet
<1> QED
  BY <1>2, <1>3, <1>4

\* Wrapping around never makes a number larger.
LEMMA WrapAround ==
  ASSUME NEW n \in Nat, NEW x \in Nat
  PROVE  x % 2 ^ n \in Nat /\ x % 2 ^ n <= x
<1>1. PICK K \in Nat \ {0} : K = 2 ^ n
  BY PowerOfTwo
<1>2. x % K \in 0 .. K - 1
  BY <1>1
<1>3. x < K => x % K = x
  BY <1>1, SMTT(60)
<1> QED
  BY <1>1, <1>2, <1>3

\* An interval ages the pages among the hottest only.
LEMMA IntervalStep ==
  ASSUME Rule!PromotionAssumption, RuleInv, Rule!Interval
  PROVE  RuleInv'
<1>1. PICK s, T :
        /\ T \subseteq tracked
        /\ hot_age' = Rule!Age(T, s) /\ can_promote' = Rule!Permitted(T, s)
        /\ top' = T /\ tracked' = tracked
        /\ inherited' = (inherited \ (tracked \ T)) \ Rule!StayedHot(T, s)
        /\ streak' = [p \in Structs |-> IF p \in T THEN (IF streak[p] = 0 THEN 1 ELSE 2)
                                      ELSE IF p \in tracked THEN 0 ELSE streak[p]]
  BY DEF Rule!Interval, Rule!Tops
<1>2. ASSUME NEW p \in Structs
      PROVE  /\ Rule!Age(T, s)[p] \in Nat
             /\ p \in T => Rule!Age(T, s)[p] <= hot_age[p] + 1
             /\ p \notin T => Rule!Age(T, s)[p] = (IF p \in tracked THEN 0 ELSE hot_age[p])
  <2>1. hot_age[p] \in Nat /\ hot_age[p] + 1 \in Nat /\ AgeBits \in Nat
    BY DEF RuleInv, Rule!PromotionAssumption
  <2>2. (hot_age[p] + 1) % 2 ^ AgeBits \in Nat /\ (hot_age[p] + 1) % 2 ^ AgeBits <= hot_age[p] + 1
    BY <2>1, WrapAround
  <2> DEFINE aged == (hot_age[p] + 1) % 2 ^ AgeBits
  <2>3. Rule!Age(T, s)[p] = IF p \in T /\ s[p] # 0 THEN aged
                            ELSE IF p \in tracked \ T THEN 0 ELSE hot_age[p]
    BY DEF Rule!Age
  <2> HIDE DEF aged
  <2>4. aged \in Nat /\ aged <= hot_age[p] + 1
    BY <2>2 DEF aged
  <2> QED
    BY <1>1, <2>1, <2>3, <2>4
<1>3. hot_age' \in [Structs -> Nat]
  BY <1>1, <1>2 DEF Rule!Age
<1>4. streak' \in [Structs -> 0 .. 2]
  BY <1>1 DEF RuleInv
<1>5. can_promote' \in [Structs -> BOOLEAN]
  BY <1>1 DEF Rule!Permitted, RuleInv
<1>6. ASSUME NEW p \in Structs, hot_age'[p] > 0
      PROVE  streak'[p] > 0
  <2>1. hot_age[p] > 0 => streak[p] > 0
    BY DEF RuleInv
  <2> QED
    BY <1>1, <1>2, <1>6, <2>1 DEF RuleInv
<1>7. ASSUME NEW p \in Structs, can_promote'[p]
      PROVE  streak'[p] = 2 \/ p \in inherited'
  <2>1. p \in Rule!StayedHot(T, s) \/ (can_promote[p] /\ p \notin tracked \ T)
    BY <1>1, <1>7 DEF Rule!Permitted
  <2>2. ASSUME p \in Rule!StayedHot(T, s)
        PROVE  p \in T /\ streak[p] # 0
    <3>1. p \in T /\ Rule!Age(T, s)[p] > 1
      BY <2>2 DEF Rule!StayedHot
    <3>2. hot_age[p] \in Nat /\ (hot_age[p] > 0 => streak[p] > 0) /\ streak[p] \in 0 .. 2
      BY DEF RuleInv
    <3> QED
      BY <1>2, <3>1, <3>2
  <2>3. ASSUME can_promote[p], p \notin tracked \ T
        PROVE  /\ p \in T \/ p \notin tracked
               /\ streak[p] = 2 \/ p \in inherited' \/ p \in Rule!StayedHot(T, s)
    BY <1>1, <2>3 DEF RuleInv
  <2> HIDE DEF Rule!StayedHot
  <2> QED
    BY <1>1, <2>1, <2>2, <2>3
<1> QED
  BY <1>1, <1>3, <1>4, <1>5, <1>6, <1>7 DEF RuleInv

\* Every step keeps the invariant.
LEMMA RuleStep ==
  ASSUME Rule!PromotionAssumption, RuleInv, [Rule!Next]_(Rule!vars)
  PROVE  RuleInv'
<1>1. ASSUME NEW p \in Structs, Rule!Add(p)
      PROVE  RuleInv'
  BY <1>1 DEF Rule!Add, RuleInv
<1>2. ASSUME NEW p \in Structs, Rule!Remove(p)
      PROVE  RuleInv'
  BY <1>2 DEF Rule!Remove, RuleInv
<1>3. CASE UNCHANGED Rule!vars
  BY <1>3 DEF Rule!vars, RuleInv
<1> QED
  BY <1>1, <1>2, <1>3, IntervalStep DEF Rule!Next

\* The invariant holds at first, and says what may be promoted.
LEMMA RuleHolds ==
  ASSUME Rule!PromotionAssumption
  PROVE  /\ Rule!Init => RuleInv
         /\ RuleInv => Rule!MarkEarned
<1>1. Rule!Init => RuleInv
  BY DEF Rule!Init, Rule!Zero, RuleInv
<1>2. RuleInv => Rule!MarkEarned
  BY DEF RuleInv, Rule!MarkEarned, Rule!Promotable
<1> QED
  BY <1>1, <1>2

(***************************************************************************)
(* The access counters.                                                    *)
(***************************************************************************)

Entries == [page : Sampled, free : BOOLEAN]

CountTypes ==
    /\ accesses \in [Sampled -> [{0, 1} -> Nat]]
    /\ truth \in [Sampled -> [{0, 1} -> Nat]]
    /\ disturbed \in [Sampled -> [{0, 1} -> BOOLEAN]]
    /\ curr_access_version \in {0, 1}
    /\ pages \subseteq Sampled /\ free \subseteq Sampled /\ pages_map \subseteq Sampled
    /\ mod_page_dq \in Seq(Entries)
    /\ todo \subseteq Sampled
    /\ policy \in {"asleep", "drain", "reset", "score"} \cup Sampled

ScanTypes ==
    /\ scan.step \in {"poll", "found", "version", "store"}
    /\ scan.step # "poll" => scan.page \in Sampled
    /\ scan.step \in {"version", "store"} => scan.version \in {0, 1}
    /\ scan.step = "store" => scan.value \in Nat

\* Where a struct can be: a page with an entry in the queue is not free, one
\* whose removal waits there is not tracked and has no later entry, scoring works on
\* pages that are not free, and one page is reset at a time.
TablesInv ==
    /\ pages \cap free = {}
    /\ pages_map \cap free = {}
    /\ \A i \in DOMAIN mod_page_dq : mod_page_dq[i].page \notin free
    /\ \A i \in DOMAIN mod_page_dq : mod_page_dq[i].free =>
          /\ mod_page_dq[i].page \notin pages
          /\ \A j \in DOMAIN mod_page_dq : j > i => mod_page_dq[j].page # mod_page_dq[i].page
    /\ policy \notin {"drain", "reset"} => todo \cap free = {}
    /\ policy \in Sampled => policy \notin free
    /\ policy = "reset" => \A p, q \in todo : p = q

\* The counters of p wait to be reset.
Resetting(p) == policy = "reset" /\ p \in todo

\* A counter that is not disturbed: of a free page it is clear, of a tracked
\* one it is what the samples say; the scan thread and update_window have read
\* what is still there, save for one increment.
CountersInv ==
    /\ \A p \in free, v \in {0, 1} :
          Resetting(p) \/ disturbed[p][v] \/ (accesses[p][v] = 0 /\ ~Count!UnderWay(p, v))
    /\ \A p \in pages, v \in {0, 1} :
          \/ disturbed[p][v]
          \/ /\ truth[p][v] = IF Count!UnderWay(p, v) THEN Count!Inc(accesses[p][v])
                              ELSE accesses[p][v]
             /\ Count!UnderWay(p, v) => scan.value = accesses[p][v]
    /\ policy \in pages =>
          \/ disturbed[policy][1 - curr_access_version]
          \/ /\ truth[policy][1 - curr_access_version] \in {counted, Count!Inc(counted)}
             /\ scan.step = "version" /\ scan.page = policy /\ scan.version = 1 - curr_access_version
                  => truth[policy][1 - curr_access_version] = counted

CountInv == CountTypes /\ ScanTypes /\ TablesInv /\ CountersInv

\* A counter stays a number when it wraps.
LEMMA IncIsNat ==
  ASSUME Count!CounterAssumption, NEW n \in Nat
  PROVE  Count!Inc(n) \in Nat
  BY WrapAround DEF Count!CounterAssumption, Count!Inc

\* Steps and structs are told apart.
LEMMA StepNotPage ==
  ASSUME Count!CounterAssumption, NEW s \in {"asleep", "drain", "reset", "score"}
  PROVE  s \notin Sampled
  BY DEF Count!CounterAssumption

\* Nothing is counted at first.
LEMMA CountInit ==
  ASSUME Count!CounterAssumption, Count!Init
  PROVE  CountInv
<1>1. CountTypes
  BY DEF Count!Init, Count!Each, Count!Versions, CountTypes
<1>2. ScanTypes
  BY DEF Count!Init, ScanTypes
<1>3. TablesInv
  BY StepNotPage DEF Count!Init, TablesInv
<1>4. CountersInv
  BY StepNotPage DEF Count!Init, Count!Each, Count!Versions, CountersInv, Count!UnderWay
<1> QED
  BY <1>1, <1>2, <1>3, <1>4 DEF CountInv

\* What the scan thread leaves alone.
LEMMA ScanKeepsTables ==
  ASSUME CountInv, \/ \E p \in Sampled : Count!FindPage(p)
                   \/ Count!ReadVersion \/ Count!LoadCounter \/ Count!StoreCounter
  PROVE  TablesInv'
  BY DEF CountInv, TablesInv, Count!FindPage, Count!ReadVersion, Count!LoadCounter,
         Count!StoreCounter, Count!tables

\* pebs_find_page, and the version is read.
LEMMA FoundStep ==
  ASSUME Count!CounterAssumption, CountInv,
         (\E p \in Sampled : Count!FindPage(p)) \/ Count!ReadVersion
  PROVE  CountInv'
<1>1. /\ UNCHANGED <<accesses, curr_access_version, pages, free, mod_page_dq, pages_map,
                    policy, todo, counted, truth, disturbed>>
      /\ scan.step \in {"poll", "found"} /\ scan'.step \in {"found", "version"}
      /\ scan'.page \in Sampled
      /\ scan'.step = "version" => scan'.version = curr_access_version
  BY DEF Count!FindPage, Count!ReadVersion, Count!tables, CountInv, ScanTypes
<1>2. CountTypes' /\ ScanTypes'
  BY <1>1 DEF CountInv, CountTypes, ScanTypes
<1>3. TablesInv'
  BY ScanKeepsTables
<1>4. \A p, v : ~Count!UnderWay(p, v) /\ ~Count!UnderWay(p, v)'
  BY <1>1 DEF Count!UnderWay
<1>5. curr_access_version \in {0, 1}
  BY DEF CountInv, CountTypes
<1>6. CountersInv'
  BY <1>1, <1>4, <1>5 DEF CountInv, CountersInv, Resetting
<1> QED
  BY <1>2, <1>3, <1>6 DEF CountInv
\* The scan thread reads a counter: for a tracked page the sample is counted from
\* here on, for any other the counter is disturbed.
LEMMA LoadStep ==
  ASSUME Count!CounterAssumption, CountInv, Count!LoadCounter
  PROVE  CountInv'
<1>1. PICK p \in Sampled, v \in {0, 1} : p = scan.page /\ v = scan.version
  BY DEF Count!LoadCounter, CountInv, ScanTypes
<1>2. /\ scan.step = "version"
      /\ scan' = [step |-> "store", page |-> p, version |-> v, value |-> accesses[p][v]]
      /\ truth' = [truth EXCEPT ![p][v] = Count!Inc(@)]
      /\ disturbed' = [disturbed EXCEPT ![p][v] = @ \/ p \notin pages]
      /\ UNCHANGED <<accesses, curr_access_version, pages, free, mod_page_dq, pages_map,
                    policy, todo, counted>>
  BY <1>1 DEF Count!LoadCounter, Count!tables
<1>3. truth[p][v] \in Nat /\ Count!Inc(truth[p][v]) \in Nat /\ accesses[p][v] \in Nat
  BY IncIsNat DEF CountInv, CountTypes
<1>4. CountTypes'
  BY <1>2, <1>3 DEF CountInv, CountTypes
<1>5. ScanTypes'
  BY <1>2, <1>3 DEF ScanTypes
<1>6. TablesInv'
  BY ScanKeepsTables
<1>7. ASSUME NEW q \in Sampled, NEW u \in {0, 1}
      PROVE  /\ truth'[q][u] = IF q = p /\ u = v THEN Count!Inc(truth[q][u]) ELSE truth[q][u]
             /\ disturbed'[q][u] = IF q = p /\ u = v THEN disturbed[q][u] \/ q \notin pages
                                   ELSE disturbed[q][u]
             /\ ~Count!UnderWay(q, u)
             /\ Count!UnderWay(q, u)' <=> q = p /\ u = v
  BY <1>2 DEF Count!UnderWay, CountInv, CountTypes
<1>8. free \subseteq Sampled /\ pages \subseteq Sampled /\ pages \cap free = {}
      /\ curr_access_version \in {0, 1}
  BY DEF CountInv, CountTypes, TablesInv
<1>9. \A q \in free, u \in {0, 1} :
         Resetting(q) \/ disturbed'[q][u] \/ (accesses[q][u] = 0 /\ ~Count!UnderWay(q, u)')
  <2> SUFFICES ASSUME NEW q \in free, NEW u \in {0, 1}
               PROVE  Resetting(q) \/ disturbed'[q][u] \/ (accesses[q][u] = 0 /\ ~Count!UnderWay(q, u)')
    OBVIOUS
  <2>1. Resetting(q) \/ disturbed[q][u] \/ (accesses[q][u] = 0 /\ ~Count!UnderWay(q, u))
    BY DEF CountInv, CountersInv
  <2> QED
    BY <1>7, <1>8, <2>1
<1>10. \A q \in pages, u \in {0, 1} :
          \/ disturbed'[q][u]
          \/ /\ truth'[q][u] = IF Count!UnderWay(q, u)' THEN Count!Inc(accesses[q][u])
                               ELSE accesses[q][u]
             /\ Count!UnderWay(q, u)' => scan'.value = accesses[q][u]
  <2> SUFFICES ASSUME NEW q \in pages, NEW u \in {0, 1}, ~disturbed'[q][u]
               PROVE  /\ truth'[q][u] = IF Count!UnderWay(q, u)' THEN Count!Inc(accesses[q][u])
                                        ELSE accesses[q][u]
                      /\ Count!UnderWay(q, u)' => scan'.value = accesses[q][u]
    OBVIOUS
  <2>1. ~disturbed[q][u]
    BY <1>7, <1>8
  <2>2. truth[q][u] = accesses[q][u]
    BY <1>7, <1>8, <2>1 DEF CountInv, CountersInv
  <2> QED
    BY <1>2, <1>7, <1>8, <2>2
<1>11. ASSUME policy \in pages, ~disturbed'[policy][1 - curr_access_version]
       PROVE  truth'[policy][1 - curr_access_version] \in {counted, Count!Inc(counted)}
  <2>1. 1 - curr_access_version \in {0, 1}
    BY <1>8
  <2>2. ~disturbed[policy][1 - curr_access_version]
    BY <1>7, <1>8, <1>11, <2>1
  <2>3. /\ truth[policy][1 - curr_access_version] \in {counted, Count!Inc(counted)}
        /\ p = policy /\ v = 1 - curr_access_version => truth[policy][1 - curr_access_version] = counted
    BY <1>1, <1>2, <1>11, <2>2 DEF CountInv, CountersInv
  <2> QED
    BY <1>7, <1>8, <1>11, <2>1, <2>3
<1>12. CountersInv'
  <2>1. scan'.step = "store" /\ curr_access_version' = curr_access_version /\ policy' = policy
    BY <1>2
  <2>2. \A q : Resetting(q)' <=> Resetting(q)
    BY <1>2 DEF Resetting
  <2> QED
    BY <1>2, <1>9, <1>10, <1>11, <2>1, <2>2 DEF CountersInv
<1> QED
  BY <1>4, <1>5, <1>6, <1>12 DEF CountInv

\* ... and stores what it read plus one.
LEMMA StoreStep ==
  ASSUME Count!CounterAssumption, CountInv, Count!StoreCounter
  PROVE  CountInv'
<1>1. PICK p \in Sampled, v \in {0, 1}, x \in Nat :
        p = scan.page /\ v = scan.version /\ x = scan.value
  BY DEF Count!StoreCounter, CountInv, ScanTypes
<1>2. /\ scan.step = "store" /\ scan' = [step |-> "poll"]
      /\ accesses' = [accesses EXCEPT ![p][v] = Count!Inc(x)]
      /\ UNCHANGED <<truth, disturbed, curr_access_version, pages, free, mod_page_dq,
                    pages_map, policy, todo, counted>>
  BY <1>1 DEF Count!StoreCounter, Count!tables
<1>3. Count!Inc(x) \in Nat
  BY IncIsNat
<1>4. CountTypes'
  BY <1>2, <1>3 DEF CountInv, CountTypes
<1>5. ScanTypes'
  BY <1>2 DEF ScanTypes
<1>6. TablesInv'
  BY ScanKeepsTables
<1>7. ASSUME NEW q \in Sampled, NEW u \in {0, 1}
      PROVE  /\ accesses'[q][u] = IF q = p /\ u = v THEN Count!Inc(x) ELSE accesses[q][u]
             /\ Count!UnderWay(q, u) <=> q = p /\ u = v
             /\ ~Count!UnderWay(q, u)'
  BY <1>1, <1>2 DEF Count!UnderWay, CountInv, CountTypes
<1>8. free \subseteq Sampled /\ pages \subseteq Sampled
  BY DEF CountInv, CountTypes
<1>9. \A q \in free, u \in {0, 1} : Resetting(q) \/ disturbed[q][u] \/ accesses'[q][u] = 0
  <2> SUFFICES ASSUME NEW q \in free, NEW u \in {0, 1}
               PROVE  Resetting(q) \/ disturbed[q][u] \/ accesses'[q][u] = 0
    OBVIOUS
  <2>1. Resetting(q) \/ disturbed[q][u] \/ (accesses[q][u] = 0 /\ ~Count!UnderWay(q, u))
    BY DEF CountInv, CountersInv
  <2> QED
    BY <1>7, <1>8, <2>1
<1>10. \A q \in pages, u \in {0, 1} : disturbed[q][u] \/ truth[q][u] = accesses'[q][u]
  <2> SUFFICES ASSUME NEW q \in pages, NEW u \in {0, 1}, ~disturbed[q][u]
               PROVE  truth[q][u] = accesses'[q][u]
    OBVIOUS
  <2>1. /\ truth[q][u] = IF Count!UnderWay(q, u) THEN Count!Inc(accesses[q][u]) ELSE accesses[q][u]
        /\ Count!UnderWay(q, u) => scan.value = accesses[q][u]
    BY DEF CountInv, CountersInv
  <2> QED
    BY <1>1, <1>7, <1>8, <2>1
<1>11. CountersInv'
  <2>1. scan'.step = "poll"
    BY <1>2
  <2>2. \A q : Resetting(q)' <=> Resetting(q)
    BY <1>2 DEF Resetting
  <2> QED
    BY <1>2, <1>7, <1>8, <1>9, <1>10, <2>1, <2>2 DEF CountInv, CountersInv
<1> QED
  BY <1>4, <1>5, <1>6, <1>11 DEF CountInv
\* An appended entry is the last one.
LEMMA Appended ==
  ASSUME mod_page_dq \in Seq(Entries), NEW e \in Entries,
         mod_page_dq' = Append(mod_page_dq, e)
  PROVE  /\ mod_page_dq' \in Seq(Entries)
         /\ Len(mod_page_dq') = Len(mod_page_dq) + 1 /\ Len(mod_page_dq) \in Nat
         /\ DOMAIN mod_page_dq = 1 .. Len(mod_page_dq)
         /\ DOMAIN mod_page_dq' = 1 .. Len(mod_page_dq) + 1
         /\ \A i \in DOMAIN mod_page_dq : mod_page_dq'[i] = mod_page_dq[i]
         /\ mod_page_dq'[Len(mod_page_dq) + 1] = e
  BY AppendProperties, LenProperties

\* pebs_add_page: a free page has no entry in the queue, and its counters are
\* clear or disturbed.
LEMMA AddStep ==
  ASSUME Count!CounterAssumption, CountInv, NEW p \in Sampled, Count!pebs_add_page(p)
  PROVE  CountInv'
<1>1. /\ p \in free /\ free' = free \ {p} /\ pages' = pages \cup {p}
      /\ mod_page_dq' = Append(mod_page_dq, [page |-> p, free |-> FALSE])
      /\ truth' = [truth EXCEPT ![p] = [v \in {0, 1} |-> 0]]
      /\ disturbed' = [disturbed EXCEPT ![p] = [v \in {0, 1} |->
                          @[v] \/ Count!Held(p) \/ (policy = "reset" /\ p \in todo)]]
      /\ UNCHANGED <<accesses, curr_access_version, pages_map, scan, policy, todo, counted>>
  BY DEF Count!pebs_add_page, Count!Versions
<1>2. [page |-> p, free |-> FALSE] \in Entries
  BY DEF Entries
<1>3. /\ mod_page_dq' \in Seq(Entries)
      /\ DOMAIN mod_page_dq = 1 .. Len(mod_page_dq) /\ Len(mod_page_dq) \in Nat
      /\ DOMAIN mod_page_dq' = 1 .. Len(mod_page_dq) + 1
      /\ \A i \in DOMAIN mod_page_dq : mod_page_dq'[i] = mod_page_dq[i]
      /\ mod_page_dq'[Len(mod_page_dq) + 1] = [page |-> p, free |-> FALSE]
  BY <1>1, <1>2, Appended DEF CountInv, CountTypes
<1>4. CountTypes'
  BY <1>1, <1>3 DEF CountInv, CountTypes
<1>5. ScanTypes'
  BY <1>1 DEF CountInv, ScanTypes
<1>6. \A i \in DOMAIN mod_page_dq : mod_page_dq[i].page # p
  BY <1>1 DEF CountInv, TablesInv
<1>7. TablesInv'
  <2>1. \A i \in DOMAIN mod_page_dq' :
           i \in DOMAIN mod_page_dq \/ (i = Len(mod_page_dq) + 1 /\ mod_page_dq'[i].page = p
                                        /\ ~mod_page_dq'[i].free)
    BY <1>3
  <2>2. \A i \in DOMAIN mod_page_dq' : mod_page_dq'[i].page \notin free'
    BY <1>1, <1>3, <2>1 DEF CountInv, TablesInv
  <2>3. \A i \in DOMAIN mod_page_dq' : mod_page_dq'[i].free =>
           /\ mod_page_dq'[i].page \notin pages'
           /\ \A j \in DOMAIN mod_page_dq' : j > i => mod_page_dq'[j].page # mod_page_dq'[i].page
    BY <1>1, <1>3, <1>6, <2>1 DEF CountInv, TablesInv
  <2> QED
    BY <1>1, <2>2, <2>3 DEF CountInv, TablesInv
<1>8. ASSUME NEW q \in Sampled, NEW u \in {0, 1}
      PROVE  /\ truth'[q][u] = IF q = p THEN 0 ELSE truth[q][u]
             /\ q # p => disturbed'[q][u] = disturbed[q][u]
             /\ disturbed'[p][u] <=> disturbed[p][u] \/ Count!Held(p) \/ Resetting(p)
  BY <1>1 DEF CountInv, CountTypes, Resetting
<1>9. \A q, u : (Count!UnderWay(q, u)' <=> Count!UnderWay(q, u))
                /\ (Resetting(q)' <=> Resetting(q))
  BY <1>1 DEF Count!UnderWay, Resetting
<1>10. free \subseteq Sampled /\ pages \subseteq Sampled
  BY DEF CountInv, CountTypes
<1>11. \A q \in free', u \in {0, 1} :
          Resetting(q) \/ disturbed'[q][u] \/ (accesses[q][u] = 0 /\ ~Count!UnderWay(q, u))
  BY <1>1, <1>8, <1>10 DEF CountInv, CountersInv
<1>12. ASSUME NEW u \in {0, 1}, ~disturbed'[p][u]
       PROVE  truth'[p][u] = accesses[p][u] /\ ~Count!UnderWay(p, u)
  <2>1. ~disturbed[p][u] /\ ~Resetting(p)
    BY <1>8, <1>12
  <2>2. accesses[p][u] = 0 /\ ~Count!UnderWay(p, u)
    BY <1>1, <2>1 DEF CountInv, CountersInv
  <2> QED
    BY <1>8, <2>2
<1>13. \A q \in pages', u \in {0, 1} :
          \/ disturbed'[q][u]
          \/ /\ truth'[q][u] = IF Count!UnderWay(q, u) THEN Count!Inc(accesses[q][u])
                               ELSE accesses[q][u]
             /\ Count!UnderWay(q, u) => scan.value = accesses[q][u]
  <2> SUFFICES ASSUME NEW q \in pages', NEW u \in {0, 1}, ~disturbed'[q][u]
               PROVE  /\ truth'[q][u] = IF Count!UnderWay(q, u) THEN Count!Inc(accesses[q][u])
                                        ELSE accesses[q][u]
                      /\ Count!UnderWay(q, u) => scan.value = accesses[q][u]
    OBVIOUS
  <2>1. CASE q = p
    BY <1>12, <2>1
  <2>2. CASE q # p
    BY <1>1, <1>8, <1>10, <2>2 DEF CountInv, CountersInv
  <2> QED
    BY <2>1, <2>2
<1>14. policy \in pages' => policy \in pages /\ policy # p
  BY <1>1 DEF CountInv, TablesInv
<1>15. curr_access_version \in {0, 1}
  BY DEF CountInv, CountTypes
<1>16. policy \in pages => disturbed'[policy][1 - curr_access_version] = disturbed[policy][1 - curr_access_version] \/ policy = p
  BY <1>8, <1>10, <1>15
<1>17. policy \in pages => truth'[policy][1 - curr_access_version] = truth[policy][1 - curr_access_version] \/ policy = p
  BY <1>8, <1>10, <1>15
<1>18. CountersInv'
  BY <1>1, <1>9, <1>11, <1>13, <1>14, <1>16, <1>17 DEF CountInv, CountersInv
<1> QED
  BY <1>4, <1>5, <1>7, <1>18 DEF CountInv

\* pebs_remove_page: the last entry of the page until it has been drained.
LEMMA RemoveStep ==
  ASSUME Count!CounterAssumption, CountInv, NEW p \in Sampled, Count!pebs_remove_page(p)
  PROVE  CountInv'
<1>1. /\ p \in pages /\ pages' = pages \ {p}
      /\ mod_page_dq' = Append(mod_page_dq, [page |-> p, free |-> TRUE])
      /\ UNCHANGED <<accesses, curr_access_version, free, pages_map, scan, policy, todo,
                    counted, truth, disturbed>>
  BY DEF Count!pebs_remove_page
<1>2. [page |-> p, free |-> TRUE] \in Entries
  BY DEF Entries
<1>3. /\ mod_page_dq' \in Seq(Entries)
      /\ DOMAIN mod_page_dq = 1 .. Len(mod_page_dq) /\ Len(mod_page_dq) \in Nat
      /\ DOMAIN mod_page_dq' = 1 .. Len(mod_page_dq) + 1
      /\ \A i \in DOMAIN mod_page_dq : mod_page_dq'[i] = mod_page_dq[i]
      /\ mod_page_dq'[Len(mod_page_dq) + 1] = [page |-> p, free |-> TRUE]
  BY <1>1, <1>2, Appended DEF CountInv, CountTypes
<1>4. CountTypes' /\ ScanTypes'
  BY <1>1, <1>3 DEF CountInv, CountTypes, ScanTypes
<1>5. \A i \in DOMAIN mod_page_dq : mod_page_dq[i].free => mod_page_dq[i].page # p
  BY <1>1 DEF CountInv, TablesInv
<1>6. TablesInv'
  <2>1. \A i \in DOMAIN mod_page_dq' :
           i \in DOMAIN mod_page_dq \/ (i = Len(mod_page_dq) + 1 /\ mod_page_dq'[i].page = p)
    BY <1>3
  <2>2. \A i \in DOMAIN mod_page_dq' : mod_page_dq'[i].page \notin free'
    BY <1>1, <1>3, <2>1 DEF CountInv, TablesInv
  <2>3. ASSUME NEW i \in DOMAIN mod_page_dq', mod_page_dq'[i].free
        PROVE  /\ mod_page_dq'[i].page \notin pages'
               /\ \A j \in DOMAIN mod_page_dq' : j > i => mod_page_dq'[j].page # mod_page_dq'[i].page
    <3>1. CASE i = Len(mod_page_dq) + 1
      BY <1>1, <1>3, <3>1
    <3>2. CASE i \in DOMAIN mod_page_dq
      BY <1>1, <1>3, <1>5, <2>1, <2>3, <3>2 DEF CountInv, TablesInv
    <3> QED
      BY <2>1, <3>1, <3>2
  <2> QED
    BY <1>1, <2>2, <2>3 DEF CountInv, TablesInv
<1>7. \A q, u : (Count!UnderWay(q, u)' <=> Count!UnderWay(q, u))
                /\ (Resetting(q)' <=> Resetting(q))
  BY <1>1 DEF Count!UnderWay, Resetting
<1>8. CountersInv'
  BY <1>1, <1>7 DEF CountInv, CountersInv
<1> QED
  BY <1>4, <1>6, <1>8 DEF CountInv
\* The versions are exchanged while no counter is being read.
LEMMA IntervalBegins ==
  ASSUME Count!CounterAssumption, CountInv, Count!StartInterval
  PROVE  CountInv'
<1>1. /\ policy = "asleep" /\ policy' = "drain"
      /\ curr_access_version' = 1 - curr_access_version
      /\ UNCHANGED <<accesses, pages, free, mod_page_dq, pages_map, scan, todo, counted,
                    truth, disturbed>>
  BY DEF Count!StartInterval, Count!tables
<1>2. CountTypes' /\ ScanTypes'
  BY <1>1 DEF CountInv, CountTypes, ScanTypes
<1>3. "asleep" \notin Sampled /\ "drain" \notin Sampled
  BY StepNotPage
<1>4. TablesInv'
  BY <1>1, <1>3 DEF CountInv, TablesInv
<1>5. \A q, u : (Count!UnderWay(q, u)' <=> Count!UnderWay(q, u))
                /\ ~Resetting(q)' /\ ~Resetting(q)
  BY <1>1 DEF Count!UnderWay, Resetting
<1>6. "drain" \notin pages
  BY <1>3 DEF CountInv, CountTypes
<1>7. CountersInv'
  BY <1>1, <1>5, <1>6 DEF CountInv, CountersInv
<1> QED
  BY <1>2, <1>4, <1>7 DEF CountInv

\* The entry at the head of the queue is taken.
LEMMA Drained ==
  ASSUME CountInv, mod_page_dq # <<>>, mod_page_dq' = Tail(mod_page_dq)
  PROVE  /\ Head(mod_page_dq) \in Entries
         /\ Head(mod_page_dq) = mod_page_dq[1] /\ 1 \in DOMAIN mod_page_dq
         /\ mod_page_dq' \in Seq(Entries)
         /\ \A i \in DOMAIN mod_page_dq' :
               i \in Nat /\ i + 1 \in DOMAIN mod_page_dq /\ i + 1 > 1
               /\ mod_page_dq'[i] = mod_page_dq[i + 1]
  BY HeadTailProperties, LenProperties DEF CountInv, CountTypes

\* The policy thread learns of a page.
LEMMA AddedDrained ==
  ASSUME Count!CounterAssumption, CountInv, Count!DrainAdded
  PROVE  CountInv'
<1>1. /\ policy = "drain" /\ mod_page_dq # <<>>
      /\ mod_page_dq' = Tail(mod_page_dq)
      /\ pages_map' = pages_map \cup {Head(mod_page_dq).page}
      /\ UNCHANGED <<accesses, curr_access_version, pages, free, scan, policy, todo,
                    counted, truth, disturbed>>
  BY DEF Count!DrainAdded
<1>2. /\ Head(mod_page_dq) \in Entries
      /\ Head(mod_page_dq) = mod_page_dq[1] /\ 1 \in DOMAIN mod_page_dq
      /\ mod_page_dq' \in Seq(Entries)
      /\ \A i \in DOMAIN mod_page_dq' :
            i \in Nat /\ i + 1 \in DOMAIN mod_page_dq /\ i + 1 > 1
            /\ mod_page_dq'[i] = mod_page_dq[i + 1]
  BY <1>1, Drained
<1>3. Head(mod_page_dq).page \in Sampled /\ Head(mod_page_dq).page \notin free
  BY <1>2 DEF Entries, CountInv, TablesInv
<1>4. CountTypes' /\ ScanTypes'
  BY <1>1, <1>2, <1>3 DEF CountInv, CountTypes, ScanTypes
<1>5. TablesInv'
  <2>1. \A i \in DOMAIN mod_page_dq' : mod_page_dq'[i].page \notin free
    BY <1>2 DEF CountInv, TablesInv
  <2>2. \A i \in DOMAIN mod_page_dq' : mod_page_dq'[i].free =>
           /\ mod_page_dq'[i].page \notin pages
           /\ \A j \in DOMAIN mod_page_dq' : j > i => mod_page_dq'[j].page # mod_page_dq'[i].page
    <3> SUFFICES ASSUME NEW i \in DOMAIN mod_page_dq', mod_page_dq'[i].free
                 PROVE  /\ mod_page_dq'[i].page \notin pages
                        /\ \A j \in DOMAIN mod_page_dq' :
                              j > i => mod_page_dq'[j].page # mod_page_dq'[i].page
      OBVIOUS
    <3>1. /\ mod_page_dq[i + 1].page \notin pages
          /\ \A j \in DOMAIN mod_page_dq :
                j > i + 1 => mod_page_dq[j].page # mod_page_dq[i + 1].page
      BY <1>2 DEF CountInv, TablesInv
    <3>2. ASSUME NEW j \in DOMAIN mod_page_dq', j > i
          PROVE  mod_page_dq'[j].page # mod_page_dq'[i].page
      <4>1. j + 1 \in DOMAIN mod_page_dq /\ j + 1 > i + 1
        BY <1>2, <3>2
      <4> QED
        BY <1>2, <3>1, <4>1
    <3> QED
      BY <1>2, <3>1, <3>2
  <2> QED
    BY <1>1, <1>3, <2>1, <2>2 DEF CountInv, TablesInv
<1>6. \A q, u : (Count!UnderWay(q, u)' <=> Count!UnderWay(q, u))
                /\ (Resetting(q)' <=> Resetting(q))
  BY <1>1 DEF Count!UnderWay, Resetting
<1>7. CountersInv'
  BY <1>1, <1>6 DEF CountInv, CountersInv
<1> QED
  BY <1>4, <1>5, <1>7 DEF CountInv

\* ... or frees one: it has no later entry, so nobody else owns the struct, and
\* its counters are to be reset.
LEMMA RemovedDrained ==
  ASSUME Count!CounterAssumption, CountInv, Count!DrainRemoved
  PROVE  CountInv'
<1>1. PICK p : /\ p = Head(mod_page_dq).page /\ Head(mod_page_dq).free
               /\ policy = "drain" /\ mod_page_dq # <<>>
               /\ mod_page_dq' = Tail(mod_page_dq)
               /\ pages_map' = pages_map \ {p} /\ free' = free \cup {p}
               /\ policy' = "reset" /\ todo' = {p}
               /\ UNCHANGED <<accesses, curr_access_version, pages, scan, counted,
                             truth, disturbed>>
  BY DEF Count!DrainRemoved
<1>2. /\ Head(mod_page_dq) \in Entries
      /\ Head(mod_page_dq) = mod_page_dq[1] /\ 1 \in DOMAIN mod_page_dq
      /\ mod_page_dq' \in Seq(Entries)
      /\ \A i \in DOMAIN mod_page_dq' :
            i \in Nat /\ i + 1 \in DOMAIN mod_page_dq /\ i + 1 > 1
            /\ mod_page_dq'[i] = mod_page_dq[i + 1]
  BY <1>1, Drained
<1>3. /\ p \in Sampled /\ p \notin pages
      /\ \A j \in DOMAIN mod_page_dq : j > 1 => mod_page_dq[j].page # p
  BY <1>1, <1>2 DEF Entries, CountInv, TablesInv
<1>4. "reset" \notin Sampled
  BY StepNotPage
<1>5. CountTypes' /\ ScanTypes'
  BY <1>1, <1>2, <1>3 DEF CountInv, CountTypes, ScanTypes
<1>6. TablesInv'
  <2>1. \A i \in DOMAIN mod_page_dq' : mod_page_dq'[i].page \notin free'
    BY <1>1, <1>2, <1>3 DEF CountInv, TablesInv
  <2>2. \A i \in DOMAIN mod_page_dq' : mod_page_dq'[i].free =>
           /\ mod_page_dq'[i].page \notin pages
           /\ \A j \in DOMAIN mod_page_dq' : j > i => mod_page_dq'[j].page # mod_page_dq'[i].page
    <3> SUFFICES ASSUME NEW i \in DOMAIN mod_page_dq', mod_page_dq'[i].free
                 PROVE  /\ mod_page_dq'[i].page \notin pages
                        /\ \A j \in DOMAIN mod_page_dq' :
                              j > i => mod_page_dq'[j].page # mod_page_dq'[i].page
      OBVIOUS
    <3>1. /\ mod_page_dq[i + 1].page \notin pages
          /\ \A j \in DOMAIN mod_page_dq :
                j > i + 1 => mod_page_dq[j].page # mod_page_dq[i + 1].page
      BY <1>2 DEF CountInv, TablesInv
    <3>2. ASSUME NEW j \in DOMAIN mod_page_dq', j > i
          PROVE  mod_page_dq'[j].page # mod_page_dq'[i].page
      <4>1. j + 1 \in DOMAIN mod_page_dq /\ j + 1 > i + 1
        BY <1>2, <3>2
      <4> QED
        BY <1>2, <3>1, <4>1
    <3> QED
      BY <1>2, <3>1, <3>2
  <2> QED
    BY <1>1, <1>3, <1>4, <2>1, <2>2 DEF CountInv, TablesInv
<1>7. \A q, u : /\ Count!UnderWay(q, u)' <=> Count!UnderWay(q, u)
                /\ ~Resetting(q)
                /\ Resetting(q)' <=> q = p
  BY <1>1 DEF Count!UnderWay, Resetting
<1>8. "reset" \notin pages
  BY <1>4 DEF CountInv, CountTypes
<1>9. \A q \in free', u \in {0, 1} :
         Resetting(q)' \/ disturbed'[q][u] \/ (accesses'[q][u] = 0 /\ ~Count!UnderWay(q, u)')
  BY <1>1, <1>7 DEF CountInv, CountersInv
<1>10. policy' \notin pages'
  BY <1>1, <1>8
<1>11. CountersInv'
  BY <1>1, <1>7, <1>9, <1>10 DEF CountInv, CountersInv
<1> QED
  BY <1>5, <1>6, <1>11 DEF CountInv

\* reset_page_access_fields: the counters of a page that is still free are clear
\* unless the scan thread is about to write one, and those of a new owner are
\* disturbed.
LEMMA ResetStep ==
  ASSUME Count!CounterAssumption, CountInv, Count!reset_page_access_fields
  PROVE  CountInv'
<1>1. PICK p \in todo :
        /\ accesses' = [accesses EXCEPT ![p] = [v \in {0, 1} |-> 0]]
        /\ truth' = IF p \in free THEN [truth EXCEPT ![p] = [v \in {0, 1} |-> 0]] ELSE truth
        /\ disturbed' = [disturbed EXCEPT ![p] =
                            [v \in {0, 1} |-> p \notin free \/ Count!UnderWay(p, v)]]
  BY DEF Count!reset_page_access_fields, Count!Versions
<1>2. /\ policy = "reset" /\ policy' = "drain" /\ todo' = {}
      /\ UNCHANGED <<curr_access_version, pages, free, mod_page_dq, pages_map, scan, counted>>
  BY DEF Count!reset_page_access_fields, Count!tables
<1>3. p \in Sampled /\ \A q \in todo : q = p
  BY <1>2 DEF CountInv, CountTypes, TablesInv
<1>4. CountTypes'
  <2>1. \A v : Count!UnderWay(p, v) \in BOOLEAN
    BY DEF Count!UnderWay
  <2> QED
    BY <1>1, <1>2, <2>1 DEF CountInv, CountTypes
<1>5. ScanTypes'
  BY <1>2 DEF CountInv, ScanTypes
<1>6. "drain" \notin Sampled
  BY StepNotPage
<1>7. TablesInv'
  BY <1>2, <1>6 DEF CountInv, TablesInv
<1>8. \A q, u : (Count!UnderWay(q, u)' <=> Count!UnderWay(q, u))
                /\ ~Resetting(q)' /\ (Resetting(q) => q = p)
  BY <1>2, <1>3 DEF Count!UnderWay, Resetting
<1>9. ASSUME NEW q \in Sampled, NEW u \in {0, 1}
      PROVE  /\ accesses'[q][u] = IF q = p THEN 0 ELSE accesses[q][u]
             /\ q # p => truth'[q][u] = truth[q][u]
             /\ q # p => disturbed'[q][u] = disturbed[q][u]
             /\ disturbed'[p][u] <=> p \notin free \/ Count!UnderWay(p, u)
  BY <1>1, <1>3 DEF CountInv, CountTypes
<1>10. free \subseteq Sampled /\ pages \subseteq Sampled /\ pages \cap free = {}
  BY DEF CountInv, CountTypes, TablesInv
<1>11. \A q \in free, u \in {0, 1} :
          disturbed'[q][u] \/ (accesses'[q][u] = 0 /\ ~Count!UnderWay(q, u))
  <2> SUFFICES ASSUME NEW q \in free, NEW u \in {0, 1}
               PROVE  disturbed'[q][u] \/ (accesses'[q][u] = 0 /\ ~Count!UnderWay(q, u))
    OBVIOUS
  <2>1. CASE q = p
    BY <1>9, <1>10, <2>1
  <2>2. CASE q # p
    <3>1. disturbed[q][u] \/ (accesses[q][u] = 0 /\ ~Count!UnderWay(q, u))
      BY <1>8, <2>2 DEF CountInv, CountersInv
    <3> QED
      BY <1>9, <1>10, <2>2, <3>1
  <2> QED
    BY <2>1, <2>2
<1>12. \A q \in pages, u \in {0, 1} :
          \/ disturbed'[q][u]
          \/ /\ truth'[q][u] = IF Count!UnderWay(q, u) THEN Count!Inc(accesses'[q][u])
                               ELSE accesses'[q][u]
             /\ Count!UnderWay(q, u) => scan.value = accesses'[q][u]
  <2> SUFFICES ASSUME NEW q \in pages, NEW u \in {0, 1}, ~disturbed'[q][u]
               PROVE  /\ truth'[q][u] = IF Count!UnderWay(q, u) THEN Count!Inc(accesses'[q][u])
                                        ELSE accesses'[q][u]
                      /\ Count!UnderWay(q, u) => scan.value = accesses'[q][u]
    OBVIOUS
  <2>1. q # p
    BY <1>9, <1>10
  <2>2. /\ truth'[q][u] = truth[q][u] /\ accesses'[q][u] = accesses[q][u]
        /\ ~disturbed[q][u]
    BY <1>9, <1>10, <2>1
  <2> QED
    BY <2>2 DEF CountInv, CountersInv
<1>13. "drain" \notin pages
  BY <1>6, <1>10
<1>14. CountersInv'
  BY <1>2, <1>8, <1>11, <1>12, <1>13 DEF CountersInv
<1> QED
  BY <1>4, <1>5, <1>7, <1>14 DEF CountInv
\* calculate_scores_map begins: a page in the scores map is not free.
LEMMA ScoresBegin ==
  ASSUME Count!CounterAssumption, CountInv, Count!StartScores \/ Count!EndScores
  PROVE  CountInv'
<1>1. /\ policy \in {"drain", "score"} /\ policy' \in {"score", "asleep"}
      /\ todo' \subseteq Sampled /\ todo' \cap free = {}
      /\ UNCHANGED <<accesses, curr_access_version, pages, free, mod_page_dq, pages_map, scan,
                    counted, truth, disturbed>>
  BY DEF Count!StartScores, Count!EndScores, Count!tables, CountInv, CountTypes, TablesInv
<1>2. CountTypes' /\ ScanTypes'
  BY <1>1 DEF CountInv, CountTypes, ScanTypes
<1>3. policy' \notin Sampled
  BY <1>1, StepNotPage
<1>4. TablesInv'
  BY <1>1, <1>3 DEF CountInv, TablesInv
<1>5. \A q, u : (Count!UnderWay(q, u)' <=> Count!UnderWay(q, u))
                /\ ~Resetting(q)' /\ ~Resetting(q)
  BY <1>1 DEF Count!UnderWay, Resetting
<1>6. policy' \notin pages
  BY <1>3 DEF CountInv, CountTypes
<1>7. CountersInv'
  BY <1>1, <1>5, <1>6 DEF CountInv, CountersInv
<1> QED
  BY <1>2, <1>4, <1>7 DEF CountInv

\* update_window reads the counter of a page that is not free, and misses the
\* increment under way.
LEMMA WindowStep ==
  ASSUME Count!CounterAssumption, CountInv, NEW p \in Sampled, Count!update_window(p)
  PROVE  CountInv'
<1>1. /\ policy = "score" /\ p \in todo
      /\ counted' = accesses[p][1 - curr_access_version]
      /\ policy' = p
      /\ UNCHANGED <<accesses, curr_access_version, pages, free, mod_page_dq, pages_map, scan,
                    todo, truth, disturbed>>
  BY DEF Count!update_window, Count!tables, Count!prev_access_version
<1>2. CountTypes' /\ ScanTypes'
  BY <1>1 DEF CountInv, CountTypes, ScanTypes
<1>3. p \notin {"asleep", "drain", "reset", "score"} /\ p \notin free
  BY <1>1, StepNotPage DEF CountInv, TablesInv
<1>4. TablesInv'
  BY <1>1, <1>3 DEF CountInv, TablesInv
<1>5. \A q, u : (Count!UnderWay(q, u)' <=> Count!UnderWay(q, u))
                /\ ~Resetting(q)' /\ ~Resetting(q)
  BY <1>1, <1>3 DEF Count!UnderWay, Resetting
<1>6. 1 - curr_access_version \in {0, 1}
  BY DEF CountInv, CountTypes
<1>7. ASSUME p \in pages, ~disturbed[p][1 - curr_access_version]
      PROVE  /\ truth[p][1 - curr_access_version] \in {counted', Count!Inc(counted')}
             /\ scan.step = "version" /\ scan.page = p /\ scan.version = 1 - curr_access_version
                  => truth[p][1 - curr_access_version] = counted'
  <2>1. truth[p][1 - curr_access_version] =
          IF Count!UnderWay(p, 1 - curr_access_version) THEN Count!Inc(counted') ELSE counted'
    BY <1>1, <1>6, <1>7 DEF CountInv, CountersInv
  <2>2. scan.step = "version" => ~Count!UnderWay(p, 1 - curr_access_version)
    BY DEF Count!UnderWay
  <2> QED
    BY <2>1, <2>2
<1>8. CountersInv'
  BY <1>1, <1>5, <1>7 DEF CountInv, CountersInv
<1> QED
  BY <1>2, <1>4, <1>8 DEF CountInv

\* The counter that was read is cleared.
LEMMA ClearStep ==
  ASSUME Count!CounterAssumption, CountInv, NEW p \in Sampled, Count!Clear(p)
  PROVE  CountInv'
<1>1. PICK v \in {0, 1} : v = 1 - curr_access_version
  BY DEF CountInv, CountTypes
<1>2. /\ policy = p /\ policy' = "score" /\ todo' = todo \ {p} /\ counted' = 0
      /\ accesses' = [accesses EXCEPT ![p][v] = 0]
      /\ truth' = [truth EXCEPT ![p][v] = 0]
      /\ disturbed' = [disturbed EXCEPT ![p][v] = Count!UnderWay(p, v)]
      /\ UNCHANGED <<curr_access_version, pages, free, mod_page_dq, pages_map, scan>>
  BY <1>1 DEF Count!Clear, Count!tables, Count!prev_access_version
<1>3. p \notin {"asleep", "drain", "reset", "score"} /\ p \notin free
  BY <1>2, StepNotPage DEF CountInv, TablesInv
<1>4. CountTypes'
  <2>1. Count!UnderWay(p, v) \in BOOLEAN
    BY DEF Count!UnderWay
  <2> QED
    BY <1>2, <2>1 DEF CountInv, CountTypes
<1>5. ScanTypes'
  BY <1>2 DEF CountInv, ScanTypes
<1>6. "score" \notin Sampled
  BY StepNotPage
<1>7. TablesInv'
  BY <1>2, <1>3, <1>6 DEF CountInv, TablesInv
<1>8. \A q, u : (Count!UnderWay(q, u)' <=> Count!UnderWay(q, u))
                /\ ~Resetting(q)' /\ ~Resetting(q)
  BY <1>2, <1>3 DEF Count!UnderWay, Resetting
<1>9. ASSUME NEW q \in Sampled, NEW u \in {0, 1}
      PROVE  /\ accesses'[q][u] = IF q = p /\ u = v THEN 0 ELSE accesses[q][u]
             /\ truth'[q][u] = IF q = p /\ u = v THEN 0 ELSE truth[q][u]
             /\ disturbed'[q][u] = IF q = p /\ u = v THEN Count!UnderWay(p, v)
                                   ELSE disturbed[q][u]
  BY <1>2 DEF CountInv, CountTypes
<1>10. free \subseteq Sampled /\ pages \subseteq Sampled
  BY DEF CountInv, CountTypes
<1>11. \A q \in free, u \in {0, 1} :
          disturbed'[q][u] \/ (accesses'[q][u] = 0 /\ ~Count!UnderWay(q, u))
  <2> SUFFICES ASSUME NEW q \in free, NEW u \in {0, 1}
               PROVE  disturbed'[q][u] \/ (accesses'[q][u] = 0 /\ ~Count!UnderWay(q, u))
    OBVIOUS
  <2>1. disturbed[q][u] \/ (accesses[q][u] = 0 /\ ~Count!UnderWay(q, u))
    BY <1>8 DEF CountInv, CountersInv
  <2> QED
    BY <1>3, <1>9, <1>10, <2>1
<1>12. \A q \in pages, u \in {0, 1} :
          \/ disturbed'[q][u]
          \/ /\ truth'[q][u] = IF Count!UnderWay(q, u) THEN Count!Inc(accesses'[q][u])
                               ELSE accesses'[q][u]
             /\ Count!UnderWay(q, u) => scan.value = accesses'[q][u]
  <2> SUFFICES ASSUME NEW q \in pages, NEW u \in {0, 1}, ~disturbed'[q][u]
               PROVE  /\ truth'[q][u] = IF Count!UnderWay(q, u) THEN Count!Inc(accesses'[q][u])
                                        ELSE accesses'[q][u]
                      /\ Count!UnderWay(q, u) => scan.value = accesses'[q][u]
    OBVIOUS
  <2>1. CASE q = p /\ u = v
    BY <1>9, <1>10, <2>1
  <2>2. CASE ~(q = p /\ u = v)
    <3>1. /\ truth'[q][u] = truth[q][u] /\ accesses'[q][u] = accesses[q][u]
          /\ ~disturbed[q][u]
      BY <1>9, <1>10, <2>2
    <3> QED
      BY <3>1 DEF CountInv, CountersInv
  <2> QED
    BY <2>1, <2>2
<1>13. "score" \notin pages
  BY <1>6, <1>10
<1>14. CountersInv'
  BY <1>2, <1>8, <1>11, <1>12, <1>13 DEF CountersInv
<1> QED
  BY <1>4, <1>5, <1>7, <1>14 DEF CountInv

\* Every step keeps the invariant.
LEMMA CountStep ==
  ASSUME Count!CounterAssumption, CountInv, [Count!Next]_(Count!vars)
  PROVE  CountInv'
<1>1. CASE UNCHANGED Count!vars
  <2>1. UNCHANGED <<accesses, curr_access_version, pages, free, mod_page_dq, pages_map, scan,
                    policy, todo, counted, truth, disturbed>>
    BY <1>1 DEF Count!vars, Count!tables
  <2>2. CountTypes' /\ ScanTypes' /\ TablesInv'
    BY <2>1 DEF CountInv, CountTypes, ScanTypes, TablesInv
  <2>3. CountersInv'
    BY <2>1 DEF CountInv, CountersInv, Resetting, Count!UnderWay
  <2> QED
    BY <2>2, <2>3 DEF CountInv
<1> QED
  BY <1>1, FoundStep, LoadStep, StoreStep, AddStep, RemoveStep, IntervalBegins, AddedDrained,
     RemovedDrained, ResetStep, ScoresBegin, WindowStep, ClearStep DEF Count!Next

\* The invariant says what update_window reads.
LEMMA CountHolds == CountInv => Count!CountsRight
  BY DEF CountInv, CountersInv, Count!CountsRight, Count!Versions, Count!prev_access_version

(***************************************************************************)
(* What the runs check: the specification of MCStores, of which each       *)
(* behaviour runs one component.                                           *)
(***************************************************************************)

\* A step of the composition is a step of the component that runs, if any.
LEMMA OneComponent ==
  ASSUME [Next]_vars
  PROVE  /\ used' = used
         /\ used = "rule" => [Rule!Next]_(Rule!vars)
         /\ used = "count" => [Count!Next]_(Count!vars)
<1>1. used' = used
  BY DEF Next, vars
<1>2. used = "rule" => [Rule!Next]_(Rule!vars)
  BY Zenon DEF Next, XNext, vars, xVars, Rule!vars
<1>3. used = "count" => [Count!Next]_(Count!vars)
  BY Zenon DEF Next, XNext, vars, xVars, Count!vars, Count!tables
<1> QED
  BY <1>1, <1>2, <1>3

\* A page that the migration loop would promote was among the hottest in this
\* interval and in the one before, for any number of pages, frames and bits of
\* hot_age, and however structs are used again: the only other pages are those whose
\* struct was released with can_promote set, which reset_page_access_fields leaves as
\* it was, and has been among the hottest in every interval since.
THEOREM OnlyStayedHotPromoted == Spec => []MarkEarned
<1> DEFINE I == used = "rule" => RuleInv
<1>1. Rule!PromotionAssumption
  BY StoresAssumption
<1>2. Init => I
  BY <1>1, RuleHolds DEF Init
<1>3. I /\ [Next]_vars => I'
  BY <1>1, OneComponent, RuleStep
<1>4. I => MarkEarned
  BY <1>1, RuleHolds DEF MarkEarned
<1> QED
  BY <1>2, <1>3, <1>4, PTL DEF Spec

\* Two versions are enough: a counter holds the samples of its page since it was
\* cleared, save for the increment under way, and at most that one is missed by
\* the interval that reads it, for any number of pages and any width, unless the
\* policy thread cleared it during an increment or after its struct had a new
\* owner.
THEOREM SamplesCounted == Spec => []CountsRight
<1> DEFINE I == used = "count" => CountInv
<1>1. Count!CounterAssumption
  BY StoresAssumption
<1>2. Init => I
  BY <1>1, CountInit DEF Init
<1>3. I /\ [Next]_vars => I'
  BY <1>1, OneComponent, CountStep
<1>4. I => CountsRight
  BY CountHolds DEF CountsRight
<1> QED
  BY <1>2, <1>3, <1>4, PTL DEF Spec
==============================================================================
