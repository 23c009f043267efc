------------------------------ MODULE Sampling ------------------------------
(***************************************************************************)
(* The hot-change detector and the sampling mode of the policy thread      *)
(* (src/src/pebs.c, pebs_policy_thread and update_sampling_frequency).     *)
(* Once a second the NVM bandwidth is measured; a Page-Hinkley sum of its  *)
(* positive deviations switches the scoring bias from history to recency,  *)
(* and enough quiet seconds switch it back.  At the end of every interval  *)
(* the sampling mode follows the bias and the period of the hardware       *)
(* counters is programmed.                                                 *)
(*                                                                         *)
(* Bandwidth is abstracted to what the detector computes from it: the      *)
(* deviation from the mean less the drift, in units of the drift, and      *)
(* whether the bandwidth is above HCD_RECN_MIN_NVM_BW.  Drift and          *)
(* threshold are both multiples of the standard deviation, which is taken  *)
(* as constant.                                                            *)
(***************************************************************************)
EXTENDS Integers

CONSTANTS Deviations,      \* possible (cur_nvm_bw - nvm_bw_ewma) - drift, in drifts
          Threshold,       \* HCD_PH_THRESHOLD / HCD_PH_DRIFT
          MaxPeriods,      \* HCD_RECN_MAX_PERIODS
          PerSecond        \* intervals per second, 1000000 / policy_thread_period

DetectorAssumption == /\ Deviations \subseteq Int
                      /\ Threshold \in Nat /\ MaxPeriods \in Nat \ {0}
                      /\ PerSecond \in Nat \ {0}

VARIABLES bias,             \* "hist" or "recn"
          cusum, time_since_recn,
          global_version,   \* modulo PerSecond
          sampling_mode,    \* "DEFAULT_SAMPLING" or "HIGH_FIDELITY"
          sample_period,    \* what the hardware counters are programmed with
          pc,               \* "sleep", "detect", "end"
          deviation,        \* the last measured deviation
          recn_seconds      \* history: seconds in recency, up to MaxPeriods

vars == <<bias, cusum, time_since_recn, global_version, sampling_mode,
          sample_period, pc, deviation, recn_seconds>>

\* perf_setup programs DEFAULT_SAMPLE_PERIOD.
Init == /\ bias = "hist" /\ cusum = 0 /\ time_since_recn = 0
        /\ global_version = 0
        /\ sampling_mode = "DEFAULT_SAMPLING"
        /\ sample_period = "DEFAULT_SAMPLE_PERIOD"
        /\ pc = "sleep" /\ deviation = 0 /\ recn_seconds = 0

\* The start of an interval.
StartInterval ==
    /\ pc = "sleep"
    /\ global_version' = (global_version + 1) % PerSecond
    /\ pc' = IF global_version' = 0 THEN "detect" ELSE "end"
    /\ UNCHANGED <<bias, cusum, time_since_recn, sampling_mode,
                   sample_period, deviation, recn_seconds>>

Positive(n) == IF n > 0 THEN n ELSE 0
UpTo(n, m) == IF n < m THEN n ELSE m
CountSeconds == recn_seconds' = IF bias = "recn" THEN UpTo(recn_seconds + 1, MaxPeriods)
                                ELSE 0

\* A bug to catch: time_since_recn is not reset when the bias goes back.
DetectNoReset ==
    /\ pc = "detect"
    /\ pc' = "end"
    /\ \E d \in Deviations, busy \in BOOLEAN :
       LET sum == Positive(cusum + d)
           change == sum > Threshold
           time == UpTo(time_since_recn + 1, MaxPeriods)
           quiet == time >= MaxPeriods /\ sum <= 0
       IN /\ deviation' = d
          /\ cusum' = IF change THEN 0 ELSE sum
          /\ bias' = IF change /\ bias = "hist" /\ busy THEN "recn"
                     ELSE IF ~change /\ bias = "recn" /\ quiet THEN "hist" ELSE bias
          /\ time_since_recn' = IF ~change /\ bias = "recn" THEN time ELSE time_since_recn
    /\ CountSeconds
    /\ UNCHANGED <<global_version, sampling_mode, sample_period>>

\* The Page-Hinkley test, once a second.  A change signal clears the sum
\* whatever else happens; the counter of seconds runs in recency and only in
\* seconds without a signal (it is compared with MaxPeriods only, so counting
\* further is left out).
Detect ==
    /\ pc = "detect"
    /\ pc' = "end"
    /\ \E d \in Deviations, busy \in BOOLEAN :
       LET sum == Positive(cusum + d)
           change == sum > Threshold
           time == UpTo(time_since_recn + 1, MaxPeriods)
           quiet == time >= MaxPeriods /\ sum <= 0
           start == change /\ bias = "hist" /\ busy
           stop == ~change /\ bias = "recn" /\ quiet
       IN /\ deviation' = d
          /\ cusum' = IF change THEN 0 ELSE sum
          /\ bias' = IF start THEN "recn" ELSE IF stop THEN "hist" ELSE bias
          /\ time_since_recn' = IF start \/ stop THEN 0
                                ELSE IF ~change /\ bias = "recn" THEN time
                                ELSE time_since_recn
    /\ CountSeconds
    /\ UNCHANGED <<global_version, sampling_mode, sample_period>>

\* update_sampling_frequency: the period is chosen from sampling_mode.
PeriodOf(mode) == IF mode = "HIGH_FIDELITY" THEN "HF_SAMPLE_PERIOD"
                  ELSE "DEFAULT_SAMPLE_PERIOD"

\* The end of an interval: when the bias has changed, the counters are
\* programmed from the mode as it was, and the mode is changed after that.
EndInterval ==
    LET wanted == IF bias = "recn" THEN "HIGH_FIDELITY" ELSE "DEFAULT_SAMPLING"
    IN
    /\ pc = "end"
    /\ pc' = "sleep"
    /\ sample_period' = IF sampling_mode # wanted THEN PeriodOf(sampling_mode)
                        ELSE sample_period
    /\ sampling_mode' = wanted
    /\ UNCHANGED <<bias, cusum, time_since_recn, global_version, deviation,
                   recn_seconds>>

Next == StartInterval \/ Detect \/ EndInterval

\* The policy thread runs forever: usleep returns.
Spec == Init /\ [][Next]_vars /\ WF_vars(Next)

-----------------------------------------------------------------------------
\* Scores of the next interval are computed in the mode that belongs to the
\* bias: when the thread sleeps the two agree (update_window scales by mode,
\* compute_score weighs by bias).
ModeFollowsBias ==
    pc = "sleep" => (sampling_mode = "HIGH_FIDELITY" <=> bias = "recn")

\* Recency is kept for HCD_RECN_MAX_PERIODS seconds at least.
RecencyLasts ==
    [][bias = "recn" /\ bias' = "hist" => recn_seconds + 1 >= MaxPeriods]_vars

\* A workload that has become steady (its bandwidth stays below the mean plus
\* the drift) ends up scored by history for good.
Settles == <>[](deviation < 0) => <>[](bias = "hist")

\* The counters are programmed with the period of the sampling mode: samples
\* are scaled by update_window as if they were.
PeriodMatchesMode == pc = "sleep" => sample_period = PeriodOf(sampling_mode)
=============================================================================
