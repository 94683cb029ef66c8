----------------------------- MODULE QuotaDriver -----------------------------
(***************************************************************************)
(* tools/quota_probe: with_proxy.sh primes the proxy with one call, then   *)
(* measure.py's drive makes one claude call per iteration, retries it,     *)
(* waits for its line in usage.jsonl, samples what the iteration cost and  *)
(* estimates from the whole log.                                           *)
(*                                                                         *)
(* The calls go through the proxy, which finishes and logs a request even  *)
(* when its client is gone (proxy.go measuredUpstreamContext), so the      *)
(* upstream and the log of QuotaRun move beside the driver.                *)
(***************************************************************************)
EXTENDS QuotaRun, Functions

CONSTANTS
  Blocks,                  (* prompt sizes the driver asks for               *)
  HeaderTokens,            (* tokens of a prompt without blocks              *)
  BlockTokens,             (* tokens of a block                              *)
  MaxIters,                (* cfg.max_iters                                  *)
  MaxCallAttempts,         (* MAX_CALL_ATTEMPTS                              *)
  MaxConsecutiveFailures,  (* MAX_CONSECUTIVE_FAILURES                       *)
  TargetTicks,             (* cfg.target_ticks                               *)
  NoTarget,                (* cfg.target_ticks = None                        *)
  TargetWidth,             (* cfg.target_relative_width, in percent          *)
  MaxRefusals              (* bound: answers other than 200                  *)

Tokens(b) == HeaderTokens + b * BlockTokens

ASSUME DriverAssumption ==
  /\ Blocks \subseteq Nat
  /\ HeaderTokens \in Nat \ {0} /\ BlockTokens \in Nat \ {0}
  /\ {Tokens(b) : b \in Blocks \cup {0}} \subseteq Prices
  /\ MaxIters \in Nat /\ MaxRefusals \in Nat
  /\ MaxCallAttempts \in Nat \ {0} /\ MaxConsecutiveFailures \in Nat \ {0}
  /\ NoTarget \notin Nat /\ TargetTicks \in Nat \cup {NoTarget}
  /\ TargetWidth \in 0 .. 199

VARIABLES
  step,           (* where drive is                                         *)
  iter,           (* iter_num, 0 for the warm-up                            *)
  blocks,         (* the size of this iteration's prompt                    *)
  before,         (* the log's length when the iteration began              *)
  attempt,        (* attempts of this iteration that have ended             *)
  attemptBefore,  (* the log's length when the attempt began                *)
  sent,           (* whether the running claude's request has been charged  *)
  failures,       (* consecutive_failures                                   *)
  samples,        (* blocks and observed input tokens of served iterations  *)
  totalBlocks,    (* total_blocks                                           *)
  log,            (* usage.jsonl: input tokens of a line, whether its       *)
                  (* status is 200 and it has usage, and its request        *)
  refused,        (* answers other than 200 that have no line yet           *)
  refusals,       (* history: answers other than 200                        *)
  streak,         (* history: attempts that failed since the last success   *)
  abandoned,      (* history: requests of failed attempts                   *)
  asClaimed       (* history: failed attempts left what measure.py:433-436  *)
                  (* says, and no call's lines were overtaken               *)

driverVars == <<step, iter, blocks, before, attempt, attemptBefore, sent,
                failures, samples, totalBlocks, streak, abandoned, asClaimed>>
logVars == <<log, refused, refusals>>
allVars == <<runVars, driverVars, logVars>>

Steps == {"prime", "iterate", "call", "running", "waiting", "retry", "sample",
          "estimate", "done", "died"}

Lines == [tokens : Nat, served : BOOLEAN, request : Nat]

DriverTypeOK ==
  /\ RunTypeOK
  /\ step \in Steps
  /\ iter \in 0 .. MaxIters
  /\ blocks \in Blocks \cup {0}
  /\ before \in 0 .. Len(log) /\ attemptBefore \in 0 .. Len(log)
  /\ attempt \in 0 .. MaxCallAttempts
  /\ sent \in BOOLEAN /\ asClaimed \in BOOLEAN
  /\ failures \in 0 .. MaxConsecutiveFailures
  /\ samples \in Seq([blocks : Blocks \cup {0}, observed : Nat])
  /\ totalBlocks \in Nat /\ streak \in Nat
  /\ abandoned \subseteq 1 .. requests
  /\ log \in Seq(Lines)
  /\ refused \in Nat /\ refusals \in 0 .. MaxRefusals

DriverInit ==
  /\ Init
  /\ step = "prime"
  /\ iter = 0 /\ blocks = 0
  /\ before = 0 /\ attempt = 0 /\ attemptBefore = 0
  /\ sent = FALSE
  /\ failures = 0 /\ streak = 0 /\ abandoned = {}
  /\ samples = << >> /\ totalBlocks = 0
  /\ log = << >> /\ refused = 0 /\ refusals = 0
  /\ asClaimed = TRUE

\* Lines of the log after the first n.
Since(n) == {i \in DOMAIN log : i > n}
ServedSince(n) == {i \in Since(n) : log[i].served}
TokensOf(lines) == SumFunctionOnSet([i \in DOMAIN log |-> log[i].tokens], lines)

-----------------------------------------------------------------------------
(* The traffic.                                                            *)

\* A claude process is running, and it makes one served request (measure.py
\* claude_env): the upstream charges it.
Charge ==
  /\ step \in {"prime", "running"} /\ ~sent
  /\ Serve(Tokens(blocks))
  /\ sent' = TRUE
  /\ UNCHANGED <<step, iter, blocks, before, attempt, attemptBefore, failures,
                 samples, totalBlocks, streak, abandoned, asClaimed, logVars>>

\* The upstream refuses (429, 529); claude may try again by itself.
Refuse ==
  /\ step \in {"prime", "running"} /\ ~sent
  /\ refusals < MaxRefusals
  /\ refusals' = refusals + 1
  /\ refused' = refused + 1
  /\ UNCHANGED <<runVars, driverVars, log>>

\* The proxy writes a request's line, whether or not its client still runs.
WriteServed ==
  /\ \E row \in inFlight :
       /\ LogRow(row)
       /\ log' = Append(log, [tokens |-> row.cost, served |-> TRUE, request |-> row.line])
  /\ UNCHANGED <<driverVars, refused, refusals>>

\* The sampling (served_input_tokens_since) asks less of a line than the estimator: it
\* does not look at errors, model and utilization.
Sampled(f) == f.object /\ f.served /\ f.usage

\* Whether a line of status 200 is sampled, of those that the estimator excludes.
ExcludedLines == {Sampled(f) : f \in {g \in LineFacts : g.served /\ ~Counts(g)}}

\* A charged request leaves a line that the estimator excludes.
WriteExcluded ==
  /\ \E row \in inFlight, sampled \in ExcludedLines :
       /\ LogExcluded(row)
       /\ log' = Append(log, [tokens  |-> IF sampled THEN row.cost ELSE 0,
                             served  |-> sampled,
                             request |-> row.line])
  /\ UNCHANGED <<driverVars, refused, refusals>>

WriteRefused ==
  /\ refused > 0
  /\ refused' = refused - 1
  /\ log' = Append(log, [tokens |-> 0, served |-> FALSE, request |-> 0])
  /\ UNCHANGED <<runVars, driverVars, refusals>>

WindowResets == Rollover /\ UNCHANGED <<driverVars, logVars>>

-----------------------------------------------------------------------------
(* The driver.                                                             *)

\* Nothing of what claude sent is still on its way to the log.
AllLanded == inFlight = {} /\ refused = 0

\* with_proxy.sh goes on to measure.py when the priming call has exited with 0,
\* whether or not its line has landed; when it fails the script ends. Nothing limits
\* how long that call may take.
Primed ==
  /\ step = "prime"
  /\ \/ /\ sent
        /\ step' = "iterate"
        /\ asClaimed' = (asClaimed /\ AllLanded /\ \A i \in DOMAIN log : log[i].served)
     \/ step' = "died" /\ UNCHANGED asClaimed
  /\ UNCHANGED <<runVars, iter, blocks, before, attempt, attemptBefore, sent, failures,
                 samples, totalBlocks, streak, abandoned, logVars>>

\* What the estimate may make the size of the next prompt; the warm-up has no blocks.
SizeFor(i) == IF i = 0 THEN {0} ELSE Blocks

BeginIteration ==
  /\ step = "iterate"
  /\ blocks' \in SizeFor(iter)
  /\ before' = Len(log)
  /\ attempt' = 0
  /\ step' = "call"
  /\ UNCHANGED <<runVars, iter, attemptBefore, sent, failures, samples, totalBlocks,
                 streak, abandoned, asClaimed, logVars>>

\* attempt_claude_call: the log's length is noted and claude is started.
StartClaude ==
  /\ step = "call"
  /\ attemptBefore' = Len(log)
  /\ sent' = FALSE
  /\ step' = "running"
  /\ UNCHANGED <<runVars, iter, blocks, before, attempt, failures, samples, totalBlocks,
                 streak, abandoned, asClaimed, logVars>>

\* claude exits with 0, which it does as soon as it has its answer.
ClaudeSucceeds ==
  /\ step = "running" /\ sent
  /\ step' = "waiting"
  /\ UNCHANGED <<runVars, iter, blocks, before, attempt, attemptBefore, sent, failures,
                 samples, totalBlocks, streak, abandoned, asClaimed, logVars>>

\* An attempt has failed; asClaimed if it left no line of status 200 and none of its
\* requests is still open.
AttemptFails ==
  /\ attempt' = attempt + 1
  /\ streak' = streak + 1
  /\ abandoned' = IF sent THEN abandoned \cup {requests} ELSE abandoned
  /\ step' = "retry"
  /\ asClaimed' = (asClaimed /\ AllLanded /\ ServedSince(attemptBefore) = {})
  /\ UNCHANGED <<runVars, iter, blocks, before, attemptBefore, sent, failures, samples,
                 totalBlocks, logVars>>

\* claude exits with another code, or is killed after claude_timeout_seconds, with or
\* without a request in the proxy's hands.
ClaudeFails == step = "running" /\ AttemptFails

\* Mutant of WaitExpires: the wait has no deadline of its own.
WaitForLine == step = "waiting" /\ Len(log) > attemptBefore /\ AttemptFails

\* wait_for_usage_event sleeps once more after its last look at the log.
WaitExpires == step = "waiting" /\ AttemptFails

\* Mutant of NewLine: the wait is satisfied by any line of the iteration.
AnyLine == Len(log) > before

\* Mutant of NewLine: a call that exited with 0 is not waited for.
NotAwaited == TRUE

\* Any line that is new since the attempt began.
NewLine == Len(log) > attemptBefore

\* wait_for_usage_event sees it.
EventLands ==
  /\ step = "waiting" /\ NewLine
  /\ streak' = 0
  /\ step' = "sample"
  /\ asClaimed' = (asClaimed /\ refused = 0
                   /\ \A i \in Since(attemptBefore) : log[i].served)
  /\ UNCHANGED <<runVars, iter, blocks, before, attempt, attemptBefore, sent, failures,
                 samples, totalBlocks, abandoned, logVars>>

\* Mutant of NextIteration: the loop has no end.
AnotherIteration == step' = "iterate" /\ iter' = iter + 1

\* The next iteration, or the end of the loop.
NextIteration ==
  IF iter = MaxIters THEN step' = "done" /\ UNCHANGED iter
                     ELSE step' = "iterate" /\ iter' = iter + 1

\* After the backoff: another attempt, a skipped iteration, or the end.
Retry ==
  /\ step = "retry"
  /\ \/ /\ attempt < MaxCallAttempts
        /\ step' = "call"
        /\ UNCHANGED <<iter, failures>>
     \/ /\ attempt = MaxCallAttempts
        /\ iter = 0
        /\ step' = "died"
        /\ UNCHANGED <<iter, failures>>
     \/ /\ attempt = MaxCallAttempts
        /\ iter > 0
        /\ failures' = failures + 1
        /\ IF failures' >= MaxConsecutiveFailures
           THEN step' = "died" /\ UNCHANGED iter
           ELSE NextIteration
  /\ UNCHANGED <<runVars, blocks, before, attempt, attemptBefore, sent, samples,
                 totalBlocks, streak, abandoned, asClaimed, logVars>>

\* Mutant of AfterSuccess: the failures are not forgotten.
FailuresKept == UNCHANGED failures

AfterSuccess == failures' = 0

\* served_input_tokens_since: a sample, if a served line has landed.
Sample ==
  /\ step = "sample"
  /\ LET mine == ServedSince(before)
     IN \/ /\ mine = {}
           /\ UNCHANGED <<samples, totalBlocks>>
        \/ /\ mine # {}
           /\ samples' = Append(samples, [blocks |-> blocks, observed |-> TokensOf(mine)])
           /\ totalBlocks' = totalBlocks + blocks
  /\ AfterSuccess
  /\ step' = "estimate"
  /\ UNCHANGED <<runVars, iter, blocks, before, attempt, attemptBefore, sent, streak,
                 abandoned, asClaimed, logVars>>

\* The interval's width is at most TargetWidth percent of its middle.
Narrow(cs) ==
  \E p, q \in cs :
    q.hi > 0 /\ (200 - TargetWidth) * q.hi * p.dk <= (200 + TargetWidth) * p.lo * q.dk

StopReached ==
  IF TargetTicks # NoTarget THEN Len(tally.crossings) >= TargetTicks
  ELSE LET cs == Constraints(tally.crossings) IN Estimated(cs) /\ Narrow(cs)

\* estimate_run over the log as it is now; a log without one priced event ends the
\* run, and the warm-up is not tested for the target.
Estimate ==
  /\ step = "estimate"
  /\ IF tally.previous = NoBucket THEN step' = "died" /\ UNCHANGED iter
     ELSE IF iter > 0 /\ StopReached THEN step' = "done" /\ UNCHANGED iter
     ELSE NextIteration
  /\ UNCHANGED <<runVars, blocks, before, attempt, attemptBefore, sent, failures,
                 samples, totalBlocks, streak, abandoned, asClaimed, logVars>>

Stopped == step \in {"done", "died"} /\ UNCHANGED allVars

\* The steps of measure.py.
Measuring ==
  \/ BeginIteration
  \/ StartClaude
  \/ ClaudeSucceeds
  \/ ClaudeFails
  \/ EventLands
  \/ WaitExpires
  \/ Retry
  \/ Sample
  \/ Estimate

DriverStep == Primed \/ Measuring

Traffic ==
  \/ Charge
  \/ Refuse
  \/ WriteServed
  \/ WriteExcluded
  \/ WriteRefused
  \/ WindowResets

DriverNext == DriverStep \/ Traffic \/ Stopped

DriverSpec == DriverInit /\ [][DriverNext]_allVars

\* The steps of measure.py are bounded in time: claude is killed after a time-out, the
\* wait for a line ends after ten seconds, the backoff is a sleep. The priming call of
\* with_proxy.sh has no time-out and may hang for good.
FairDriverSpec == DriverSpec /\ WF_allVars(Measuring)

-----------------------------------------------------------------------------
SampleSum == SumFunction([i \in DOMAIN samples |-> samples[i].observed])
BlockSum == SumFunction([i \in DOMAIN samples |-> samples[i].blocks])

\* fit_block_line: the least-squares line through the samples, its slope as the fraction
\* rise / run and its intercept as the fraction base / (run * number of samples).
FitBlockLine ==
  LET n == Len(samples)
      squares == SumFunction([i \in DOMAIN samples |-> samples[i].blocks * samples[i].blocks])
      products == SumFunction([i \in DOMAIN samples |-> samples[i].blocks * samples[i].observed])
      rise == n * products - BlockSum * SampleSum
      run == n * squares - BlockSum * BlockSum
  IN [rise |-> rise, run |-> run, base |-> SampleSum * run - rise * BlockSum]

\* recalibrate: whether a line replaces the seeds (Stage A), and the cost per block as the
\* fraction spent / blocks where it replaces the prediction (Stage B).
Recalibrated ==
  [fitted   |-> FitBlockLine.run > 0 /\ FitBlockLine.rise > 0,
   line     |-> FitBlockLine,
   measured |-> Estimated(Constraints(tally.crossings)) /\ totalBlocks > 0,
   spent    |-> tally.measured,
   blocks   |-> totalBlocks]

\* When failed attempts leave nothing behind, every sample that the actuator is fitted
\* to is what one call of its size cost (measure.py:275-305), the samples account for
\* every line after the priming call's, the line that is fitted to two sizes
\* (measure.py:225-243) is the prompt's true header and block, and the cost per block that
\* Stage B takes from total_blocks (measure.py:257-262) is that of the driver's own calls.
SamplesAreCalls ==
  asClaimed /\ step \in {"iterate", "done"} =>
    /\ \A i \in DOMAIN samples : samples[i].observed = Tokens(samples[i].blocks)
    /\ SampleSum = TokensOf(ServedSince(1))
    /\ Recalibrated.fitted =>
         LET line == Recalibrated.line
         IN /\ line.rise = BlockTokens * line.run
            /\ line.base = HeaderTokens * line.run * Len(samples)
    /\ (\E i, j \in DOMAIN samples : samples[i].blocks # samples[j].blocks) =>
         Recalibrated.fitted
    /\ cuts = 0 =>
         Recalibrated.spent = Len(samples) * HeaderTokens + Recalibrated.blocks * BlockTokens

\* Such a run gives the estimator a faithful log: one call at a time, each waited for
\* until its line has landed (measure.py:437-440), keeps the lines in the order of the
\* charges although the proxy writes them when it likes.
OrderKept == asClaimed /\ resets = 0 /\ cuts = 0 => faithful

\* The tokens that are about to be sampled are none of a failed attempt's
\* (measure.py:433-436 "A failed attempt's traffic is still logged by the proxy as
\* non-200 and is excluded from the total downstream, so retrying never double-counts").
RetryNeverDoubleCounts ==
  step = "sample" => \A i \in ServedSince(before) : log[i].request \notin abandoned

\* The driver gives up after MAX_CONSECUTIVE_FAILURES iterations in which every attempt
\* failed, one after another, and not before: a success in between starts the count
\* again (measure.py:650-663).
GivesUpInTime ==
  /\ streak <= MaxConsecutiveFailures * MaxCallAttempts
  /\ step = "died" /\ attempt = MaxCallAttempts =>
       streak = (IF iter = 0 THEN 1 ELSE MaxConsecutiveFailures) * MaxCallAttempts

\* Once measure.py has been started it ends, whatever the upstream and the proxy do with
\* its requests: none of its waits depends on an answer or on a line (measure.py:388,
\* 464-470). That it is started is not promised: the priming call before it waits for
\* its answer (with_proxy.sh:94-102).
DriverEnds == step # "prime" ~> step \in {"done", "died"}
=============================================================================
