------------------------------- MODULE Behavior -------------------------------
(***************************************************************************)
(* The behaviour profile a node keeps of one sender and the automatic      *)
(* isolation it leads to (maip-node/src/behavior.ts, and its callers in    *)
(* handlers/messages-core.ts).                                             *)
(*                                                                         *)
(* One message is one action: the detector runs on it, its flags are       *)
(* stored, a critical flag isolates the sender, and a message without an   *)
(* active relationship is then recorded as a violation, in that order.     *)
(* The rate baseline is the mean of whole windows, kept as their sum and   *)
(* number.  What depends on the message's type and text (type_shift and    *)
(* content_pattern) is a choice of flags, mild or critical.                *)
(***************************************************************************)
EXTENDS Integers, Sequences, FiniteSets

CONSTANTS Window,        \* WINDOW_MS, of the statistics and of the violations
          Threshold,     \* TRUST_VIOLATION_THRESHOLD
          Keep,          \* anomalies kept in a profile (20)
          MinDays,       \* windows observed before the rate is judged (3)
          MaxMessages,   \* bound: messages that pass the earlier checks
          MaxTime        \* bound: the clock

ASSUME BehaviorAssumption ==
  /\ Window \in Nat /\ Threshold \in Nat \ {0} /\ Keep \in Nat /\ MinDays \in Nat \ {0}
  /\ MaxMessages \in Nat /\ MaxTime \in Nat

VARIABLES stats,       \* profile.stats: messages and start of the current window
          baseline,    \* profile.baseline: messages in, and number of, past windows
          anomalies,   \* profile.anomalies
          isolatedFor, \* why the sender is isolated now
          now,         \* Date.now()
          received,    \* messages so far
          rejections   \* messages refused for want of a relationship so far

vars == <<stats, baseline, anomalies, isolatedFor, now, received, rejections>>

\* A flag of the detector ("spike", "other", "trust") or a "rejection".  Flag
\* and rejection share the type trust_violation in the profile.
Kinds == {"spike", "other", "trust", "rejection"}
Anomaly == [kind: Kinds, critical: BOOLEAN, at: 0..MaxTime]

Init ==
  /\ stats = [count |-> 0, start |-> 0]
  /\ baseline = [total |-> 0, days |-> 0]
  /\ anomalies = <<>>
  /\ isolatedFor = "nothing"
  /\ now = 0
  /\ received = 0
  /\ rejections = 0

Last(s, n) == IF Len(s) <= n THEN s ELSE SubSeq(s, Len(s) - n + 1, Len(s))

-----------------------------------------------------------------------------
(* trackAndDetect. *)

\* The profile is made by the first message.
NewProfile == stats.count = 0
RollOver == ~NewProfile /\ now - stats.start > Window

Stats == IF NewProfile \/ RollOver THEN [count |-> 1, start |-> now] ELSE [stats EXCEPT !.count = @ + 1]

\* Mutation: the window starts anew without reaching the baseline.
BaselineForgets == IF RollOver THEN [baseline EXCEPT !.days = @ + 1] ELSE baseline

Baseline == IF RollOver
            THEN [total |-> baseline.total + stats.count, days |-> baseline.days + 1]
            ELSE baseline

\* A rate over three times the mean; the severity passes 0.9 at 5.7 times.
Spike == LET c == Stats.count * Baseline.days IN
  IF Baseline.days >= MinDays /\ Baseline.total > 0 /\ c > 3 * Baseline.total
  THEN <<[kind |-> "spike", critical |-> 10 * c > 57 * Baseline.total, at |-> now]>>
  ELSE <<>>

\* Entries of type trust_violation in the last window.
Violation(a) == a.kind \in {"trust", "rejection"} /\ a.at > now - Window
Violations == Cardinality({i \in DOMAIN anomalies : Violation(anomalies[i])})

\* Mutation: one violation is enough.
TrustAtOnce ==
  IF Violations >= 1
  THEN <<[kind |-> "trust", critical |-> 10 * Violations > 18 * Threshold, at |-> now]>>
  ELSE <<>>

\* The severity n / (2 * Threshold) passes 0.9.
Trust ==
  IF Violations >= Threshold
  THEN <<[kind |-> "trust", critical |-> 10 * Violations > 18 * Threshold, at |-> now]>>
  ELSE <<>>

Flags(other) == Spike \o other \o Trust

\* The profile keeps the last anomalies.
Stored(flags) == Last(anomalies \o flags, Keep)

Critical(flags) == {flags[i].kind : i \in {j \in DOMAIN flags : flags[j].critical}}

\* The reason of the isolation record, if this message opens one.
Reason(flags) ==
  IF Critical(flags) = {} THEN "nothing"
  ELSE IF Critical(flags) = {"trust"} THEN "trust" ELSE "more"

\* A message that is processed (or rate limited) and one without a relationship.
Process(other) ==
  /\ isolatedFor = "nothing"
  /\ received < MaxMessages
  /\ stats' = Stats
  /\ baseline' = Baseline
  /\ anomalies' = Stored(Flags(other))
  /\ isolatedFor' = Reason(Flags(other))
  /\ received' = received + 1
  /\ UNCHANGED <<now, rejections>>

Reject(other) ==
  /\ isolatedFor = "nothing"
  /\ received < MaxMessages
  /\ stats' = Stats
  /\ baseline' = Baseline
  /\ anomalies' = Append(Stored(Flags(other)),
                         [kind |-> "rejection", critical |-> FALSE, at |-> now])
  /\ isolatedFor' = Reason(Flags(other))
  /\ received' = received + 1
  /\ rejections' = rejections + 1
  /\ UNCHANGED now

\* The isolation is appealed or lifted (module Isolation).
Release ==
  /\ isolatedFor # "nothing"
  /\ isolatedFor' = "nothing"
  /\ UNCHANGED <<stats, baseline, anomalies, now, received, rejections>>

Tick ==
  /\ now < MaxTime
  /\ now' = now + 1
  /\ UNCHANGED <<stats, baseline, anomalies, isolatedFor, received, rejections>>

\* The flags that depend on the message itself: none or one (a second one only
\* shortens what the profile keeps).
Others == {<<>>} \cup {<<[kind |-> "other", critical |-> c, at |-> now]>> : c \in BOOLEAN}

Next ==
  \/ \E other \in Others : Process(other) \/ Reject(other)
  \/ Release
  \/ Tick

Spec == Init /\ [][Next]_vars

-----------------------------------------------------------------------------
\* Every message is in the current window or in the baseline, never in both,
\* so a rate is judged against all of the sender's past (updateBaseline).
EveryMessageCounted == baseline.total + stats.count = received

\* A sender is flagged for violations only after enough rejected messages: the
\* flags feed on themselves but cannot begin by themselves (behavior.ts:149-161).
FlagsNeedRejections ==
  (\E i \in DOMAIN anomalies : anomalies[i].kind = "trust") => rejections >= Threshold

-----------------------------------------------------------------------------
\* behavior.ts:152, "This is updated externally when a message is rejected for
\* no relationship [...]. Here we just check the accumulated count": a sender
\* is isolated for violations on the strength of its rejected messages.
Rejection(a) == a.kind = "rejection" /\ a.at > now - Window
IsolationRestsOnRejections ==
  [][isolatedFor = "nothing" /\ isolatedFor' = "trust" =>
       10 * Cardinality({i \in DOMAIN anomalies : Rejection(anomalies[i])}) > 18 * Threshold]_vars

=============================================================================
