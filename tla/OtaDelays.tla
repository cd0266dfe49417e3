------------------------------ MODULE OtaDelays ------------------------------
(***************************************************************************)
(* The delays of the OTA bootload client (ota-bootload-client.c:115-132,   *)
(* 679-684): a number of seconds or minutes is shifted to milliseconds in  *)
(* an unsigned word, so a second counts 1024 of them, a minute 65536, and  *)
(* the bits that the word does not hold are lost.  How many of the timer's *)
(* milliseconds a second has is for the HAL to say.                        *)
(***************************************************************************)
EXTENDS Integers

CONSTANTS
  Word,   \* how many values a uint32_t has.  BOUND: 2^30 for TLC's integers
  MILLISECOND_TICKS_PER_SECOND,
  Times   \* BOUND: times that a server may give, in seconds

ASSUME DelaysAssumption ==
  /\ Word \in Nat /\ Word > 65536 /\ Word % 65536 = 0
  /\ MILLISECOND_TICKS_PER_SECOND \in {1000, 1024}
  /\ Times \subseteq 0..(Word - 1)

MAX_JITTER_MS == MILLISECOND_TICKS_PER_SECOND * 10

\* 1 << delayShifts[delayType].
Shifted(delayType) ==
  CASE delayType = "milliseconds" -> 1
    [] delayType = "seconds" -> 1024
    [] delayType = "minutes" -> 65536

\* `jitter' is what halCommonGetRandom adds, 0 without addJitter.
convertToMs(delay, delayType, jitter) ==
  LET kept == delay % (Word \div Shifted(delayType))
  IN  (kept * Shifted(delayType) + jitter) % Word

\* Mutant: the operands of the difference are swapped.
SwappedDelay(upgradeTime, currentTime) ==
  convertToMs((currentTime - upgradeTime) % Word, "seconds", 0)

\* From the server's current time, or from now when that is 0, to its upgrade time.
upgradeDelay(upgradeTime, currentTime) ==
  convertToMs((upgradeTime - currentTime) % Word, "seconds", 0)

\* The seconds that a word of milliseconds can hold.
Horizon == Word \div Shifted("seconds")
=============================================================================
