--------------------------- MODULE OtaDelays_proofs ---------------------------
(***************************************************************************)
(* What the conversion of delays does for every delay, and where it goes   *)
(* wrong: the arithmetic of a word is exact below a horizon, and past it,  *)
(* or for a time that is over, what the client waits has little to do with *)
(* what the server asked for.                                              *)
(***************************************************************************)
EXTENDS OtaDelays, TLAPS

LEMMA ModSmall == ASSUME NEW m \in Nat \ {0}, NEW n \in Nat, n < m PROVE n % m = n
OBVIOUS

LEMMA ModNegative ==
  ASSUME NEW m \in Nat \ {0}, NEW n \in Int, n < 0, n + m > 0 PROVE n % m = n + m
OBVIOUS

LEMMA ModRange == ASSUME NEW m \in Nat \ {0}, NEW n \in Int PROVE n % m \in 0..(m - 1)
OBVIOUS

\* A whole number of seconds, and of minutes, fits into the word.
LEMMA WordDivides ==
  /\ Horizon \in Nat /\ Horizon > 64 /\ Word = 1024 * Horizon
  /\ Word \div 65536 \in Nat \ {0} /\ Word = 65536 * (Word \div 65536)
BY DelaysAssumption DEF Horizon, Shifted

\* A second of delay is 1024 milliseconds, and what does not fit is lost.
THEOREM SecondsConverted ==
  ASSUME NEW seconds \in Nat
  PROVE  convertToMs(seconds, "seconds", 0) = 1024 * (seconds % Horizon)
<1>1. seconds % Horizon \in 0..(Horizon - 1)
  BY WordDivides, ModRange
<1>2. (seconds % Horizon) * 1024 \in Nat /\ (seconds % Horizon) * 1024 < Word
  BY <1>1, WordDivides
<1>3. ((seconds % Horizon) * 1024 + 0) % Word = (seconds % Horizon) * 1024
  BY <1>2, ModSmall, DelaysAssumption
<1> QED  BY <1>1, <1>3 DEF convertToMs, Horizon, Shifted

\* Below the horizon the client waits for the upgrade what the server asked for,
\* and a fortieth of it more at most.
THEOREM UpgradeExact ==
  ASSUME NEW upgradeTime \in 0..(Word - 1), NEW currentTime \in 0..(Word - 1),
         upgradeTime >= currentTime, upgradeTime - currentTime < Horizon
  PROVE  upgradeDelay(upgradeTime, currentTime) = 1024 * (upgradeTime - currentTime)
<1> DEFINE seconds == upgradeTime - currentTime
<1>1. seconds \in Nat /\ seconds < Word /\ seconds < Horizon
  BY DelaysAssumption
<1>2. seconds % Word = seconds /\ seconds % Horizon = seconds
  BY <1>1, WordDivides, ModSmall, DelaysAssumption
<1>3. convertToMs(seconds, "seconds", 0) = 1024 * seconds
  BY <1>1, <1>2, SecondsConverted
<1> QED  BY <1>2, <1>3 DEF upgradeDelay

\* From the horizon on it waits less: it installs the image before its time.
THEOREM UpgradeEarly ==
  ASSUME NEW upgradeTime \in 0..(Word - 1), NEW currentTime \in 0..(Word - 1),
         upgradeTime - currentTime >= Horizon
  PROVE  upgradeDelay(upgradeTime, currentTime)
           < MILLISECOND_TICKS_PER_SECOND * (upgradeTime - currentTime)
<1> DEFINE seconds == upgradeTime - currentTime
<1>1. seconds \in Nat /\ seconds < Word /\ seconds >= Horizon
  BY WordDivides, DelaysAssumption
<1>2. seconds % Word = seconds
  BY <1>1, ModSmall, DelaysAssumption
<1>3. upgradeDelay(upgradeTime, currentTime) = 1024 * (seconds % Horizon)
  BY <1>1, <1>2, SecondsConverted DEF upgradeDelay
<1> HIDE DEF seconds
<1>4. 1024 * (seconds % Horizon) < 1000 * seconds
  <2>1. CASE seconds < 2 * Horizon
    <3>1. seconds % Horizon = seconds - Horizon
      BY <1>1, <2>1, WordDivides
    <3> QED  BY <1>1, <2>1, <3>1, WordDivides
  <2>2. CASE seconds >= 2 * Horizon
    <3>1. seconds % Horizon \in 0..(Horizon - 1)
      BY <1>1, WordDivides, ModRange
    <3> QED  BY <1>1, <2>2, <3>1, WordDivides
  <2> QED  BY <1>1, <2>1, <2>2, WordDivides
<1>5. seconds % Horizon \in Nat
  BY <1>1, WordDivides, ModRange
<1>6. CASE MILLISECOND_TICKS_PER_SECOND = 1000
  BY <1>3, <1>4, <1>6 DEF seconds
<1>7. CASE MILLISECOND_TICKS_PER_SECOND = 1024
  <2>1. 1024 * (seconds % Horizon) < 1024 * seconds
    BY <1>1, <1>4, <1>5
  <2> QED  BY <1>3, <1>7, <2>1 DEF seconds
<1> QED  BY <1>6, <1>7, DelaysAssumption

\* An upgrade time that is just over is taken for one that is nearly a whole word
\* of milliseconds away: the image is not installed at once.
THEOREM PastUpgradeIsFar ==
  ASSUME NEW upgradeTime \in 0..(Word - 1), NEW currentTime \in 0..(Word - 1),
         upgradeTime < currentTime, currentTime - upgradeTime < Horizon
  PROVE  upgradeDelay(upgradeTime, currentTime) = Word - 1024 * (currentTime - upgradeTime)
<1> DEFINE late == currentTime - upgradeTime
<1>1. late \in Nat \ {0} /\ late < Horizon /\ late < Word
  BY DelaysAssumption
<1>2. (upgradeTime - currentTime) % Word = Word - late
  <2>1. /\ upgradeTime - currentTime \in Int /\ upgradeTime - currentTime < 0
        /\ upgradeTime - currentTime + Word > 0
    BY DelaysAssumption
  <2>2. Word \in Nat \ {0}
    BY DelaysAssumption
  <2>3. (upgradeTime - currentTime) % Word = (upgradeTime - currentTime) + Word
    BY <2>1, <2>2, ModNegative
  <2> QED  BY <2>2, <2>3
<1>3. (Word - late) % Horizon = Horizon - late
  <2> HIDE DEF late
  <2>1. Word - late = 1023 * Horizon + (Horizon - late)
    BY <1>1, WordDivides
  <2>2. \A h \in Nat \ {0} : \A r \in 0..(h - 1) : (1023 * h + r) % h = r
    OBVIOUS
  <2> QED  BY <1>1, <2>1, <2>2, WordDivides
<1>4. Word - late \in Nat
  BY <1>1, DelaysAssumption
<1>5. upgradeDelay(upgradeTime, currentTime) = 1024 * (Horizon - late)
  BY <1>2, <1>3, <1>4, SecondsConverted DEF upgradeDelay
<1> QED  BY <1>1, <1>5, WordDivides

\* A period of minutes is never cut short, and its jitter does not wrap.
THEOREM PeriodExact ==
  ASSUME NEW minutes \in Nat, minutes < (Word \div 65536) - 1,
         NEW jitter \in 0..(MAX_JITTER_MS - 1)
  PROVE  convertToMs(minutes, "minutes", jitter) = 65536 * minutes + jitter
<1>1. minutes % (Word \div 65536) = minutes
  BY WordDivides, ModSmall
<1>2. minutes * 65536 + jitter \in Nat /\ minutes * 65536 + jitter < Word
  BY WordDivides, DelaysAssumption DEF MAX_JITTER_MS
<1>3. (minutes * 65536 + jitter) % Word = minutes * 65536 + jitter
  BY <1>2, ModSmall, DelaysAssumption
<1> QED  BY <1>1, <1>3 DEF convertToMs, Shifted
=============================================================================
