---------------------------- MODULE ReadingsProofs ----------------------------
(***************************************************************************)
(* Proofs about a reading's way to the base station, for any list of       *)
(* addresses, any number of faults, any heating time, any measurements in  *)
(* the sensor's range and any width of the numbers.                        *)
(*                                                                         *)
(* CInv says what the cache of bme680_init_min may be trusted for.  A valid*)
(* cache names a fitted chip, holds that chip's calibration, and the chip  *)
(* has its five registers unless it has dipped since.  It stays true       *)
(* because initialisation runs only for an address the cache does not      *)
(* name, and publishes its result after the last register.                 *)
(*                                                                         *)
(* NInv follows the number of the measurement through sample and           *)
(* gas_valid.  What a number is printed as is parsed back to the number:   *)
(* DigitsRoundTrip by induction over the digits, TemperatureRoundTrip and  *)
(* HumidityRoundTrip for the decimals.  With both, RInv says that          *)
(* latest_reading is one measurement.                                      *)
(***************************************************************************)
EXTENDS Readings, Induction, SequenceTheorems

\* The registers written before the c + 1st.
Written(c) == {Setup[i] : i \in 1 .. c}

Configured(registers, dipped) == registers = Registers \/ dipped

ChipsTyped == chips \in [DOMAIN chips -> [registers : SUBSET Registers, dipped : BOOLEAN]]

StepTyped == step \in {"idle", "init", "setup", "trigger", "poll", "field", "done"}

SampleShaped ==
  sample = [ok |-> sample.ok, number |-> sample.number, chip |-> sample.chip,
            calibration |-> sample.calibration, registers |-> sample.registers,
            dipped |-> sample.dipped]

CacheIsTrue ==
  g_bme680.valid =>
    /\ g_bme680.addr \in DOMAIN chips
    /\ g_bme680.calibration = g_bme680.addr
    /\ Configured(chips[g_bme680.addr].registers, chips[g_bme680.addr].dipped)

SetupGoesOn ==
  step = "setup" =>
    /\ Fitted /\ ~Cached
    /\ next = [valid |-> FALSE, addr |-> Address, calibration |-> Address]
    /\ count \in 0 .. 4
    /\ Written(count) \subseteq chips[Address].registers \/ chips[Address].dipped

MeasuresCached == step \in {"trigger", "poll", "field"} => Cached

SampleIsFair ==
  /\ step \in {"poll", "field"} => sample.chip = Address /\ Configured(sample.registers, sample.dipped)
  /\ step \notin {"idle", "done"} => sample.ok = FALSE

CInv ==
  /\ ChipsTyped /\ StepTyped /\ SampleShaped
  /\ CacheIsTrue /\ SetupGoesOn /\ MeasuresCached /\ SampleIsFair
  /\ MeasuredAsConfigured

USE DEF Configured
-----------------------------------------------------------------------------
LEMMA SetupShape ==
  /\ Len(Setup) = 5 /\ DOMAIN Setup = 1 .. 5
  /\ Written(0) = {} /\ Written(5) = Registers
  /\ \A c \in 0 .. 4 : /\ Setup[c + 1] \in Registers
                       /\ Written(c + 1) = Written(c) \cup {Setup[c + 1]}
<1>1. Len(Setup) = 5 /\ DOMAIN Setup = 1 .. 5
  BY DEF Setup
<1>2. Written(0) = {} /\ Written(5) = Registers
  BY <1>1 DEF Written, Registers
<1>3. ASSUME NEW c \in 0 .. 4
      PROVE  Setup[c + 1] \in Registers /\ Written(c + 1) = Written(c) \cup {Setup[c + 1]}
  <2>1. 1 .. c + 1 = 1 .. c \cup {c + 1}
    OBVIOUS
  <2>2. c + 1 \in 1 .. 5
    OBVIOUS
  <2>. QED BY <1>1, <2>1, <2>2 DEF Written, Registers
<1>. QED BY <1>1, <1>2, <1>3

LEMMA CInit == BmeInit => CInv
<1>. SUFFICES ASSUME BmeInit PROVE CInv
  OBVIOUS
<1>1. ChipsTyped
  BY DEF BmeInit, ChipsTyped
<1>. QED
  BY <1>1 DEF BmeInit, CInv, StepTyped, SampleShaped, CacheIsTrue, SetupGoesOn, MeasuresCached,
              SampleIsFair, MeasuredAsConfigured, Uninitialised, NoSample

\* Giving up an address disturbs nothing that the invariant speaks of.
LEMMA SkipKeeps == CInv /\ Skip => CInv'
<1>. SUFFICES ASSUME CInv, Skip PROVE CInv'
  OBVIOUS
<1>1. step' \in {"init", "done"} /\ sample' = NoSample /\ UNCHANGED <<chips, g_bme680>>
  BY DEF Skip, NextAddress
<1>. QED
  BY <1>1 DEF CInv, ChipsTyped, StepTyped, SampleShaped, CacheIsTrue, SetupGoesOn, MeasuresCached,
              SampleIsFair, MeasuredAsConfigured, NoSample

-----------------------------------------------------------------------------
LEMMA BeginKeeps == CInv /\ Begin => CInv'
  BY DEF Begin, NoSample, CInv, ChipsTyped, StepTyped, SampleShaped, CacheIsTrue, SetupGoesOn, MeasuresCached,
         SampleIsFair, MeasuredAsConfigured, Fitted, Cached, Address

\* The cache is used for the address it names.
LEMMA InitFromCacheKeeps == CInv /\ InitFromCache => CInv'
  BY DEF InitFromCache, CInv, ChipsTyped, StepTyped, SampleShaped, CacheIsTrue, SetupGoesOn, MeasuresCached,
         SampleIsFair, MeasuredAsConfigured, Fitted, Cached, Address

\* Initialisation begins for a chip the cache does not name, so it does not
\* matter to the cache that the chip's dip is forgotten.
LEMMA ReadCalibrationKeeps == CInv /\ ReadCalibration => CInv'
<1>. SUFFICES ASSUME CInv, ReadCalibration PROVE CInv'
  OBVIOUS
<1>1. CASE Skip
  BY <1>1, SkipKeeps
<1>2. CASE ~Skip
  <2>1. /\ step = "init" /\ ~Cached /\ Fitted /\ step' = "setup" /\ count' = 0
        /\ next' = [valid |-> FALSE, addr |-> Address, calibration |-> Address]
        /\ chips' = [chips EXCEPT ![Address].dipped = FALSE]
        /\ UNCHANGED <<g_bme680, slot, sample>>
    BY <1>2 DEF ReadCalibration, Fail
  <2>2. /\ Address \in DOMAIN chips /\ Address' = Address /\ DOMAIN chips' = DOMAIN chips
        /\ \A a \in DOMAIN chips : a # Address => chips'[a] = chips[a]
    BY <2>1 DEF Fitted, Address
  <2>3. ChipsTyped'
    BY <2>1, <2>2 DEF CInv, ChipsTyped
  <2>4. CacheIsTrue'
    BY <2>1, <2>2 DEF CInv, CacheIsTrue, Cached
  <2>5. SetupGoesOn'
    BY <2>1, <2>2, SetupShape DEF SetupGoesOn, Fitted, Cached
  <2>. QED
    BY <2>1, <2>3, <2>4, <2>5
    DEF CInv, StepTyped, SampleShaped, MeasuresCached, SampleIsFair, MeasuredAsConfigured
<1>. QED BY <1>1, <1>2

\* The register written next is one of the five; after the fifth the chip is
\* set up, unless it has dipped meanwhile, and the cache may name it.
LEMMA WriteSetupKeeps == CInv /\ WriteSetup => CInv'
<1>. SUFFICES ASSUME CInv, WriteSetup PROVE CInv'
  OBVIOUS
<1>1. CASE Skip
  BY <1>1, SkipKeeps
<1>2. CASE ~Skip
  <2>1. /\ step = "setup" /\ UNCHANGED <<slot, sample>>
        /\ chips' = [chips EXCEPT ![Address].registers = @ \cup {Setup[count + 1]}]
        /\ Commit
        /\ IF count + 1 = Len(Setup)
           THEN step' = "trigger" /\ count' = 0 /\ next' = Uninitialised
           ELSE count' = count + 1 /\ UNCHANGED <<step, next>>
    BY <1>2 DEF WriteSetup, Fail
  <2>2. /\ Fitted /\ ~Cached /\ count \in 0 .. 4
        /\ next = [valid |-> FALSE, addr |-> Address, calibration |-> Address]
        /\ Written(count) \subseteq chips[Address].registers \/ chips[Address].dipped
    BY <2>1 DEF CInv, SetupGoesOn
  <2>3. /\ Address \in DOMAIN chips /\ Address' = Address /\ DOMAIN chips' = DOMAIN chips
        /\ \A a \in DOMAIN chips : a # Address => chips'[a] = chips[a]
    BY <2>1, <2>2 DEF Fitted, Address
  <2>4. /\ chips'[Address].registers = chips[Address].registers \cup {Setup[count + 1]}
        /\ chips'[Address].dipped = chips[Address].dipped
        /\ chips[Address].registers \subseteq Registers
    BY <2>1, <2>3 DEF CInv, ChipsTyped
  <2>5. ChipsTyped'
    BY <2>1, <2>2, <2>3, SetupShape DEF CInv, ChipsTyped
  <2>6. Written(count + 1) \subseteq chips'[Address].registers \/ chips'[Address].dipped
    BY <2>2, <2>4, SetupShape
  <2>7. CASE count = 4
    <3>1. step' = "trigger" /\ g_bme680' = [valid |-> TRUE, addr |-> Address, calibration |-> Address]
      BY <2>1, <2>2, <2>7, SetupShape DEF Commit
    <3>2. Configured(chips'[Address].registers, chips'[Address].dipped)
      BY <2>2, <2>4, <2>6, <2>7, SetupShape
    <3>3. CacheIsTrue'
      BY <2>3, <3>1, <3>2 DEF CacheIsTrue
    <3>. QED
      BY <2>1, <2>3, <2>5, <3>1, <3>3
      DEF CInv, StepTyped, SampleShaped, SetupGoesOn, MeasuresCached, SampleIsFair,
          MeasuredAsConfigured, Cached
  <2>8. CASE count # 4
    <3>1. count + 1 \in 0 .. 4 /\ count' = count + 1 /\ UNCHANGED <<step, next, g_bme680>>
      BY <2>1, <2>2, <2>8, SetupShape DEF Commit
    <3>2. CacheIsTrue'
      BY <2>2, <2>3, <3>1 DEF CInv, CacheIsTrue, Cached
    <3>3. SetupGoesOn'
      BY <2>2, <2>3, <2>6, <3>1 DEF SetupGoesOn, Fitted, Cached
    <3>. QED
      BY <2>1, <2>5, <3>1, <3>2, <3>3
      DEF CInv, StepTyped, SampleShaped, MeasuresCached, SampleIsFair, MeasuredAsConfigured
  <2>. QED BY <2>7, <2>8
<1>. QED BY <1>1, <1>2

\* The measurement is started on the chip the cache names.
LEMMA TriggerKeeps == CInv /\ Trigger => CInv'
<1>. SUFFICES ASSUME CInv, Trigger PROVE CInv'
  OBVIOUS
<1>1. CASE Skip
  BY <1>1, SkipKeeps
<1>2. CASE ~Skip
  <2>1. /\ step = "trigger" /\ step' = "poll" /\ UNCHANGED <<chips, g_bme680, slot>>
        /\ sample' = [ok |-> FALSE, number |-> number, chip |-> Address, calibration |-> NoChip,
                      registers |-> chips[Address].registers, dipped |-> chips[Address].dipped]
    BY <1>2 DEF Trigger, Fail, NoSample
  <2>2. Cached /\ CacheIsTrue
    BY <2>1 DEF CInv, MeasuresCached
  <2>. QED
    BY <2>1, <2>2 DEF CInv, ChipsTyped, StepTyped, SampleShaped, CacheIsTrue, SetupGoesOn, MeasuresCached,
         SampleIsFair, MeasuredAsConfigured, Fitted, Cached, Address
<1>. QED BY <1>1, <1>2

LEMMA PollKeeps == CInv /\ Poll => CInv'
<1>. SUFFICES ASSUME CInv, Poll PROVE CInv'
  OBVIOUS
<1>1. CASE Skip
  BY <1>1, SkipKeeps
<1>2. CASE ~Skip
  <2>1. step = "poll" /\ step' = "field" /\ UNCHANGED <<chips, g_bme680, slot, sample>>
    BY <1>2 DEF Poll, Fail
  <2>. QED
    BY <2>1 DEF CInv, ChipsTyped, StepTyped, SampleShaped, CacheIsTrue, SetupGoesOn, MeasuresCached,
         SampleIsFair, MeasuredAsConfigured, Fitted, Cached, Address
<1>. QED BY <1>1, <1>2

\* The calibration used is the cached one, and the cache names this chip.
LEMMA ReadFieldKeeps == CInv /\ ReadField => CInv'
<1>. SUFFICES ASSUME CInv, ReadField PROVE CInv'
  OBVIOUS
<1>1. CASE Skip
  BY <1>1, SkipKeeps
<1>2. CASE ~Skip
  <2>1. step = "field" /\ UNCHANGED <<chips, g_bme680>>
    BY <1>2 DEF ReadField, Fail
  <2>2. Cached /\ CacheIsTrue /\ sample.chip = Address /\ Configured(sample.registers, sample.dipped)
    BY <2>1 DEF CInv, MeasuresCached, SampleIsFair
  <2>3. CASE sample' = NoSample
    <3>1. step' \in {"init", "done"}
      BY <1>2, <2>1, <2>3 DEF ReadField, Fail, NextAddress, NoSample, CInv, SampleShaped
    <3>. QED
      BY <2>1, <2>3, <3>1 DEF NoSample, CInv, ChipsTyped, StepTyped, SampleShaped, CacheIsTrue, SetupGoesOn, MeasuresCached,
         SampleIsFair, MeasuredAsConfigured, Fitted, Cached, Address
  <2>4. CASE sample' # NoSample
    <3>1. /\ step' = "done" /\ UNCHANGED slot
          /\ sample' = [sample EXCEPT !.ok = TRUE, !.calibration = g_bme680.calibration]
      BY <1>2, <2>1, <2>4 DEF ReadField, Fail
    <3>2. sample' = [ok |-> TRUE, number |-> sample.number, chip |-> sample.chip,
                     calibration |-> g_bme680.calibration, registers |-> sample.registers,
                     dipped |-> sample.dipped]
      BY <3>1 DEF CInv, SampleShaped
    <3>. QED
      BY <2>1, <2>2, <3>1, <3>2 DEF CInv, ChipsTyped, StepTyped, SampleShaped, CacheIsTrue, SetupGoesOn, MeasuresCached,
         SampleIsFair, MeasuredAsConfigured, Fitted, Cached, Address
  <2>. QED BY <2>3, <2>4
<1>. QED BY <1>1, <1>2

\* A dip empties the registers of a chip and marks it.
LEMMA DipKeeps == CInv /\ Dip => CInv'
<1>. SUFFICES ASSUME CInv, NEW a \in DOMAIN chips,
                     chips' = [chips EXCEPT ![a] = [registers |-> {}, dipped |-> TRUE]],
                     UNCHANGED <<g_bme680, next, step, slot, count, sample>>
              PROVE  CInv'
  BY DEF Dip
<1>1. /\ DOMAIN chips' = DOMAIN chips
      /\ chips'[a].dipped = TRUE
      /\ \A b \in DOMAIN chips : b # a => chips'[b] = chips[b]
  OBVIOUS
<1>2. ChipsTyped'
  BY <1>1 DEF CInv, ChipsTyped
<1>3. CacheIsTrue'
  BY <1>1 DEF CInv, CacheIsTrue
<1>4. SetupGoesOn'
  BY <1>1 DEF CInv, SetupGoesOn, Fitted, Cached, Address
<1>. QED
  BY <1>2, <1>3, <1>4
  DEF CInv, StepTyped, SampleShaped, MeasuresCached, SampleIsFair, MeasuredAsConfigured, Cached, Address

LEMMA EndKeeps == CInv /\ End => CInv'
<1>. SUFFICES ASSUME CInv, End PROVE CInv'
  OBVIOUS
<1>1. step = "done" /\ step' = "idle" /\ UNCHANGED <<chips, g_bme680, next, slot, count, sample>>
  BY DEF End, EndSample, EndReadAll
<1>. QED
  BY <1>1 DEF CInv, ChipsTyped, StepTyped, SampleShaped, CacheIsTrue, SetupGoesOn, MeasuresCached,
         SampleIsFair, MeasuredAsConfigured, Fitted, Cached, Address

-----------------------------------------------------------------------------
LEMMA CKeeps == CInv /\ [ReadNext]_readVars => CInv'
<1>. SUFFICES ASSUME CInv, [ReadNext]_readVars PROVE CInv'
  OBVIOUS
<1>1. CASE Begin
  BY <1>1, BeginKeeps
<1>2. CASE InitFromCache
  BY <1>2, InitFromCacheKeeps
<1>3. CASE ReadCalibration
  BY <1>3, ReadCalibrationKeeps
<1>4. CASE WriteSetup
  BY <1>4, WriteSetupKeeps
<1>5. CASE Trigger
  BY <1>5, TriggerKeeps
<1>6. CASE Poll
  BY <1>6, PollKeeps
<1>7. CASE ReadField
  BY <1>7, ReadFieldKeeps
<1>8. CASE Dip
  BY <1>8, DipKeeps
<1>9. CASE End
  BY <1>9, EndKeeps
<1>10. CASE UNCHANGED readVars
  BY <1>10 DEF readVars, bmeVars, CInv, ChipsTyped, StepTyped, SampleShaped, CacheIsTrue, SetupGoesOn, MeasuresCached,
       SampleIsFair, MeasuredAsConfigured, Fitted, Cached, Address
<1>. QED
  BY <1>1, <1>2, <1>3, <1>4, <1>5, <1>6, <1>7, <1>8, <1>9, <1>10
  DEF ReadNext, Measure, Exchange, PowerDips

\* A reading that is reported was computed with the calibration of the chip
\* it came from, on a chip that was set up (or has dipped since), whatever
\* exchanges failed and whichever addresses are fitted.
THEOREM ReadingsAreConfigured == ReadSpec => []MeasuredAsConfigured
<1>1. ReadInit => CInv
  BY CInit DEF ReadInit
<1>2. CInv => MeasuredAsConfigured
  BY DEF CInv
<1>. QED
  BY <1>1, <1>2, CKeeps, PTL DEF ReadSpec

-----------------------------------------------------------------------------
\* The digits of a number.

\* g[k] is n without its last k digits, for k up to m.
IsRest(g, n, m) == g = [k \in 0 .. m |-> IF k = 0 THEN n ELSE g[k - 1] \div 10]

Rest(n) == CHOOSE g : IsRest(g, n, 10)

SizeOf(n, least) ==
  CHOOSE k \in 1 .. 10 : k >= least /\ Rest(n)[k] = 0 /\ (k = least \/ Rest(n)[k - 1] # 0)

LEMMA DigitsAre ==
  \A n, least : DigitsOf(n, least) = [i \in 1 .. SizeOf(n, least) |-> Rest(n)[SizeOf(n, least) - i] % 10]
  BY Zenon DEF DigitsOf, SizeOf, Rest, IsRest

LEMMA RestExists ==
  ASSUME NEW n, NEW m \in Nat
  PROVE  \E g : IsRest(g, n, m)
  <1> DEFINE T == {k \in Nat : \E g : IsRest(g, n, k)}
  <1>1. 0 \in T
    <2> DEFINE g == [k \in 0 .. 0 |-> n]
    <2>1. IsRest(g, n, 0)
      BY DEF IsRest
    <2> QED
      BY <2>1
  <1>2. ASSUME NEW k \in T PROVE k + 1 \in T
    <2>1. PICK g : IsRest(g, n, k)
      OBVIOUS
    <2> DEFINE h == [j \in 0 .. k + 1 |-> IF j = k + 1 THEN g[k] \div 10 ELSE g[j]]
    <2>2. \A j \in 0 .. k : g[j] = IF j = 0 THEN n ELSE g[j - 1] \div 10
      BY <2>1 DEF IsRest
    <2>3. \A j \in 0 .. k + 1 : h[j] = IF j = 0 THEN n ELSE h[j - 1] \div 10
      BY <2>2
    <2>4. IsRest(h, n, k + 1)
      BY <2>3 DEF IsRest
    <2> QED
      BY <2>4
  <1>3. T = Nat
    <2> HIDE DEF T
    <2> QED
      BY <1>1, <1>2, NatSetInduction DEF T
  <1> QED
    BY <1>3

LEMMA RestSteps ==
  ASSUME NEW n
  PROVE  Rest(n)[0] = n /\ \A k \in 1 .. 10 : Rest(n)[k] = Rest(n)[k - 1] \div 10
  <1>1. IsRest(Rest(n), n, 10)
    <2>1. \E g : IsRest(g, n, 10)
      BY RestExists
    <2> QED
      BY <2>1, Zenon DEF Rest
  <1> DEFINE g == Rest(n)
  <1> HIDE DEF g
  <1>2. \A k \in 0 .. 10 : g[k] = IF k = 0 THEN n ELSE g[k - 1] \div 10
    BY <1>1 DEF IsRest, g
  <1>3. g[0] = n /\ \A k \in 1 .. 10 : g[k] = g[k - 1] \div 10
    BY <1>2
  <1> QED
    BY <1>3 DEF g

\* A number of the base station loses a digit in each step and has ten.
LEMMA RestFacts ==
  ASSUME NEW n \in 0 .. U32Max
  PROVE  /\ Rest(n)[0] = n
         /\ \A k \in 1 .. 10 : Rest(n)[k] = Rest(n)[k - 1] \div 10
         /\ \A k \in 0 .. 10 : Rest(n)[k] \in 0 .. U32Max
         /\ Rest(n)[10] = 0
  <1> DEFINE g == Rest(n)
  <1>3. g[0] = n /\ \A k \in 1 .. 10 : g[k] = g[k - 1] \div 10
    BY RestSteps
  <1> HIDE DEF g
  <1>4. U32Max \in Nat /\ U32Max \div 10 <= 999999999
    BY WidthAssumption
  <1>5. \A w \in 0 .. U32Max : w \div 10 \in 0 .. U32Max /\ w \div 10 <= 999999999
    BY <1>4
  <1>6. g[1] \in Nat /\ g[1] <= 999999999 /\ g[1] \in 0 .. U32Max
    BY <1>3, <1>5
  <1>7. g[2] \in Nat /\ g[2] <= 99999999
    BY <1>3, <1>6
  <1>8. g[3] \in Nat /\ g[3] <= 9999999 /\ g[3] <= g[2]
    BY <1>3, <1>7
  <1>9. g[4] \in Nat /\ g[4] <= 999999 /\ g[4] <= g[2]
    BY <1>3, <1>8
  <1>10. g[5] \in Nat /\ g[5] <= 99999 /\ g[5] <= g[2]
    BY <1>3, <1>7, <1>9
  <1>11. g[6] \in Nat /\ g[6] <= 9999 /\ g[6] <= g[2]
    BY <1>3, <1>7, <1>10
  <1>12. g[7] \in Nat /\ g[7] <= 999 /\ g[7] <= g[2]
    BY <1>3, <1>7, <1>11
  <1>14. g[8] \in Nat /\ g[8] <= 99 /\ g[8] <= g[2]
    BY <1>3, <1>7, <1>12
  <1>15. g[9] \in Nat /\ g[9] <= 9 /\ g[9] <= g[2]
    BY <1>3, <1>7, <1>14
  <1>16. g[10] = 0
    BY <1>3, <1>15
  <1>13. \A k \in 0 .. 10 : g[k] \in 0 .. U32Max
    <2>1. g[2] <= g[1]
      BY <1>3, <1>6
    <2>2. \A k \in 0 .. 10 : k = 0 \/ k = 1 \/ (k = 2 \/ k = 3 \/ k = 4) \/ k = 5 \/ k = 6 \/ k = 7
                             \/ k = 8 \/ k = 9 \/ k = 10
      OBVIOUS
    <2> QED
      BY <1>3, <1>4, <1>6, <1>7, <1>8, <1>9, <1>10, <1>11, <1>12, <1>14, <1>15, <1>16, <2>1, <2>2
  <1> QED
    BY <1>3, <1>13, <1>16 DEF g

LEMMA SizeFacts ==
  ASSUME NEW n \in 0 .. U32Max, NEW least \in 1 .. 2
  PROVE  /\ SizeOf(n, least) \in 1 .. 10 /\ SizeOf(n, least) >= least
         /\ Rest(n)[SizeOf(n, least)] = 0
         /\ SizeOf(n, least) = least \/ Rest(n)[SizeOf(n, least) - 1] # 0
  <1> DEFINE g == Rest(n)
             Fits(k) == k >= least /\ g[k] = 0 /\ (k = least \/ g[k - 1] # 0)
  <1>1. g[10] = 0
    BY RestFacts
  <1>2. \E k \in 1 .. 10 : Fits(k)
    <2> HIDE DEF g
    <2> SUFFICES ASSUME \A k \in 1 .. 10 : ~Fits(k) PROVE FALSE
      OBVIOUS
    <2>1. \A k \in 2 .. 10 : k > least /\ g[k - 1] # 0 => g[k] # 0
      OBVIOUS
    <2>2. g[least] # 0
      OBVIOUS
    <2>3. g[2] # 0
      BY <2>1, <2>2
    <2>4. g[3] # 0
      BY <2>1, <2>3
    <2>5. g[4] # 0
      BY <2>1, <2>4
    <2>6. g[5] # 0
      BY <2>1, <2>5
    <2>7. g[6] # 0
      BY <2>1, <2>6
    <2>8. g[7] # 0
      BY <2>1, <2>7
    <2>9. g[8] # 0
      BY <2>1, <2>8
    <2>10. g[9] # 0
      BY <2>1, <2>9
    <2> QED
      BY <1>1, <2>1, <2>10
  <1>3. SizeOf(n, least) \in 1 .. 10 /\ Fits(SizeOf(n, least))
    <2>1. SizeOf(n, least) = CHOOSE k \in 1 .. 10 : Fits(k)
      BY DEF SizeOf
    <2> HIDE DEF Fits
    <2> QED
      BY <1>2, <2>1
  <1> QED
    BY <1>3

LEMMA DigitsTyped ==
  ASSUME NEW n \in 0 .. U32Max, NEW least \in 1 .. 2
  PROVE  /\ DigitsOf(n, least) \in Seq(Digits)
         /\ Len(DigitsOf(n, least)) = SizeOf(n, least)
         /\ DigitsOf(n, least) # <<>>
         /\ \A i \in 1 .. SizeOf(n, least) :
              DigitsOf(n, least)[i] = Rest(n)[SizeOf(n, least) - i] % 10
  <1> DEFINE s == SizeOf(n, least)
             g == Rest(n)
             t == [i \in 1 .. s |-> g[s - i] % 10]
  <1>1. DigitsOf(n, least) = t
    BY DigitsAre
  <1>2. s \in 1 .. 10
    BY SizeFacts
  <1>3. \A k \in 0 .. 10 : g[k] \in Nat
    BY RestFacts, WidthAssumption
  <1> HIDE DEF s, g
  <1>4. \A i \in 1 .. s : s - i \in 0 .. 10
    BY <1>2
  <1>5. \A i \in 1 .. s : g[s - i] % 10 \in Digits
    BY <1>3, <1>4 DEF Digits
  <1>6. t \in Seq(Digits) /\ Len(t) = s /\ t # <<>>
    BY <1>2, <1>5
  <1> QED
    BY <1>1, <1>6 DEF s, g

-----------------------------------------------------------------------------
\* What the parser makes of digits.

IsRead(r, t, m) == r = [k \in 0 .. m |-> IF k = 0 THEN Parsed(0) ELSE AddDigit(r[k - 1], t[k])]

LEMMA ReadIs == \A t : ReadDigits(t) = (CHOOSE r : IsRead(r, t, Len(t)))[Len(t)]
  BY Zenon DEF ReadDigits, IsRead

LEMMA ReadExists ==
  ASSUME NEW t, NEW m \in Nat
  PROVE  \E r : IsRead(r, t, m)
  <1> DEFINE T == {k \in Nat : \E r : IsRead(r, t, k)}
  <1>1. 0 \in T
    <2> DEFINE r == [k \in 0 .. 0 |-> Parsed(0)]
    <2>1. IsRead(r, t, 0)
      BY DEF IsRead
    <2> QED
      BY <2>1
  <1>2. ASSUME NEW k \in T PROVE k + 1 \in T
    <2>1. PICK r : IsRead(r, t, k)
      OBVIOUS
    <2> DEFINE h == [j \in 0 .. k + 1 |-> IF j = k + 1 THEN AddDigit(r[k], t[k + 1]) ELSE r[j]]
    <2>2. \A j \in 0 .. k : r[j] = IF j = 0 THEN Parsed(0) ELSE AddDigit(r[j - 1], t[j])
      BY <2>1 DEF IsRead
    <2>3. \A j \in 0 .. k + 1 : h[j] = IF j = 0 THEN Parsed(0) ELSE AddDigit(h[j - 1], t[j])
      BY <2>2
    <2>4. IsRead(h, t, k + 1)
      BY <2>3 DEF IsRead
    <2> QED
      BY <2>4
  <1>3. T = Nat
    <2> HIDE DEF T
    <2> QED
      BY <1>1, <1>2, NatSetInduction DEF T
  <1> QED
    BY <1>3

LEMMA ReadFacts ==
  ASSUME NEW t, Len(t) \in Nat
  PROVE  \E r : /\ ReadDigits(t) = r[Len(t)]
                /\ r[0] = Parsed(0)
                /\ \A k \in 1 .. Len(t) : r[k] = AddDigit(r[k - 1], t[k])
  <1>1. \E r : IsRead(r, t, Len(t))
    BY ReadExists
  <1>2. PICK r : IsRead(r, t, Len(t)) /\ ReadDigits(t) = r[Len(t)]
    BY <1>1, ReadIs, Zenon
  <1>3. \A k \in 0 .. Len(t) : r[k] = IF k = 0 THEN Parsed(0) ELSE AddDigit(r[k - 1], t[k])
    BY <1>2 DEF IsRead
  <1> QED
    BY <1>2, <1>3

\* No overflow check stops a digit of a number that fits.
LEMMA AddDigitFits ==
  ASSUME NEW v \in Nat, NEW c \in Digits, 10 * v + c <= U32Max
  PROVE  AddDigit(Parsed(v), c) = Parsed(10 * v + c)
  <1>1. ~(v > (U32Max - c) \div 10)
    BY WidthAssumption DEF Digits
  <1>2. Parsed(v).ok = TRUE /\ Parsed(v).value = v
    BY DEF Parsed
  <1> QED
    BY <1>1, <1>2 DEF AddDigit

\* The digits that are printed are read as the number they were printed from.
LEMMA DigitsRoundTrip ==
  ASSUME NEW n \in 0 .. U32Max, NEW least \in 1 .. 2
  PROVE  ReadDigits(DigitsOf(n, least)) = Parsed(n)
  <1> DEFINE t == DigitsOf(n, least)
             s == SizeOf(n, least)
             g == Rest(n)
  <1>1. /\ s \in 1 .. 10 /\ g[s] = 0 /\ g[0] = n
        /\ \A k \in 1 .. 10 : g[k] = g[k - 1] \div 10
        /\ \A k \in 0 .. 10 : g[k] \in 0 .. U32Max
    BY SizeFacts, RestFacts
  <1>2. /\ Len(t) = s /\ t \in Seq(Digits)
        /\ \A i \in 1 .. s : t[i] = g[s - i] % 10
    BY DigitsTyped
  <1> HIDE DEF t, s, g
  <1>3. PICK r : /\ ReadDigits(t) = r[s]
                 /\ r[0] = Parsed(0)
                 /\ \A k \in 1 .. s : r[k] = AddDigit(r[k - 1], t[k])
    <2>1. Len(t) \in Nat
      BY <1>1, <1>2
    <2>2. PICK r : /\ ReadDigits(t) = r[Len(t)]
                   /\ r[0] = Parsed(0)
                   /\ \A k \in 1 .. Len(t) : r[k] = AddDigit(r[k - 1], t[k])
      BY <2>1, ReadFacts
    <2> QED
      BY <1>2, <2>2
  <1> DEFINE T == {k \in Nat : k <= s => r[k] = Parsed(g[s - k])}
  <1>4. 0 \in T
    BY <1>1, <1>3
  <1>5. ASSUME NEW k \in T PROVE k + 1 \in T
    <2> SUFFICES ASSUME k + 1 <= s PROVE r[k + 1] = Parsed(g[s - (k + 1)])
      OBVIOUS
    <2>1. k \in Nat /\ r[k] = Parsed(g[s - k])
      BY <1>1
    <2>2. /\ s - k \in 1 .. 10 /\ s - (k + 1) \in 0 .. 10 /\ (s - k) - 1 = s - (k + 1)
          /\ k + 1 \in 1 .. s
      BY <1>1, <2>1
    <2> DEFINE v == g[s - k]
               w == g[s - (k + 1)]
    <2>3. v = w \div 10 /\ w \in 0 .. U32Max /\ t[k + 1] = w % 10
      BY <1>1, <1>2, <2>2
    <2> HIDE DEF v, w
    <2>4. w \in Nat /\ w <= U32Max
      BY <2>3, WidthAssumption
    <2>5. v \in Nat /\ w % 10 \in Digits
      BY <2>3, <2>4 DEF Digits
    <2>6. 10 * v + (w % 10) = w
      BY <2>3, <2>4
    <2>7. AddDigit(Parsed(v), w % 10) = Parsed(w)
      BY <2>4, <2>5, <2>6, AddDigitFits
    <2>8. r[k + 1] = AddDigit(r[k], t[k + 1])
      BY <1>3, <2>1, <2>2
    <2> QED
      BY <2>1, <2>3, <2>7, <2>8 DEF v, w
  <1>6. T = Nat
    <2> HIDE DEF T
    <2> QED
      BY <1>4, <1>5, NatSetInduction DEF T
  <1>7. r[s] = Parsed(g[s - s])
    <2>1. s \in Nat /\ s <= s
      BY <1>1
    <2>2. s \in T
      BY <1>6, <2>1
    <2> QED
      BY <2>1, <2>2
  <1>8. r[s] = Parsed(n)
    BY <1>1, <1>7
  <1> QED
    BY <1>3, <1>8 DEF t

-----------------------------------------------------------------------------
\* What the parser makes of two digits after the point.

IsFraction(r, t, m) ==
  r = [k \in 0 .. m |-> IF k = 0 THEN 0 ELSE 10 * r[k - 1] + (IF k <= Len(t) THEN t[k] ELSE 0)]

LEMMA FractionIs ==
  \A t, places : Fraction(t, places) = (CHOOSE r : IsFraction(r, t, places))[places]
  BY Zenon DEF Fraction, IsFraction

LEMMA FractionExists ==
  ASSUME NEW t, NEW m \in Nat
  PROVE  \E r : IsFraction(r, t, m)
  <1> DEFINE Digit(k) == IF k <= Len(t) THEN t[k] ELSE 0
             T == {k \in Nat : \E r : IsFraction(r, t, k)}
  <1>1. 0 \in T
    <2> DEFINE r == [k \in 0 .. 0 |-> 0]
    <2>1. IsFraction(r, t, 0)
      BY DEF IsFraction
    <2> QED
      BY <2>1
  <1>2. ASSUME NEW k \in T PROVE k + 1 \in T
    <2>1. PICK r : IsFraction(r, t, k)
      OBVIOUS
    <2> DEFINE h == [j \in 0 .. k + 1 |-> IF j = k + 1 THEN 10 * r[k] + Digit(k + 1) ELSE r[j]]
    <2>2. \A j \in 0 .. k : r[j] = IF j = 0 THEN 0 ELSE 10 * r[j - 1] + Digit(j)
      BY <2>1 DEF IsFraction
    <2> HIDE DEF Digit
    <2>3. \A j \in 0 .. k + 1 : h[j] = IF j = 0 THEN 0 ELSE 10 * h[j - 1] + Digit(j)
      BY <2>2
    <2>4. IsFraction(h, t, k + 1)
      BY <2>3 DEF IsFraction, Digit
    <2> QED
      BY <2>4
  <1>3. T = Nat
    <2> HIDE DEF T
    <2> QED
      BY <1>1, <1>2, NatSetInduction DEF T
  <1> QED
    BY <1>3

LEMMA FractionFacts ==
  ASSUME NEW t, NEW places \in Nat
  PROVE  \E r : /\ Fraction(t, places) = r[places]
                /\ r[0] = 0
                /\ \A k \in 1 .. places : r[k] = 10 * r[k - 1] + (IF k <= Len(t) THEN t[k] ELSE 0)
  <1>1. \E r : IsFraction(r, t, places)
    BY FractionExists
  <1>2. PICK r : IsFraction(r, t, places) /\ Fraction(t, places) = r[places]
    BY <1>1, FractionIs, Zenon
  <1>3. \A k \in 0 .. places :
          r[k] = IF k = 0 THEN 0 ELSE 10 * r[k - 1] + (IF k <= Len(t) THEN t[k] ELSE 0)
    BY <1>2 DEF IsFraction
  <1> QED
    BY <1>2, <1>3

LEMMA TwoPlaces ==
  ASSUME NEW t
  PROVE  \E r : /\ Fraction(t, 2) = r[2]
                /\ r[0] = 0
                /\ r[1] = 10 * r[0] + (IF 1 <= Len(t) THEN t[1] ELSE 0)
                /\ r[2] = 10 * r[1] + (IF 2 <= Len(t) THEN t[2] ELSE 0)
  <1>1. ASSUME NEW p \in Nat, p >= 2
        PROVE  \E r : /\ Fraction(t, p) = r[p]
                      /\ r[0] = 0
                      /\ r[1] = 10 * r[0] + (IF 1 <= Len(t) THEN t[1] ELSE 0)
                      /\ r[2] = 10 * r[1] + (IF 2 <= Len(t) THEN t[2] ELSE 0)
    BY <1>1, FractionFacts
  <1> QED
    BY <1>1

LEMMA ThreePlaces ==
  ASSUME NEW t
  PROVE  \E r : /\ Fraction(t, 3) = r[3]
                /\ r[0] = 0
                /\ r[1] = 10 * r[0] + (IF 1 <= Len(t) THEN t[1] ELSE 0)
                /\ r[2] = 10 * r[1] + (IF 2 <= Len(t) THEN t[2] ELSE 0)
                /\ r[3] = 10 * r[2] + (IF 3 <= Len(t) THEN t[3] ELSE 0)
  <1>1. ASSUME NEW p \in Nat, p >= 3
        PROVE  \E r : /\ Fraction(t, p) = r[p]
                      /\ r[0] = 0
                      /\ r[1] = 10 * r[0] + (IF 1 <= Len(t) THEN t[1] ELSE 0)
                      /\ r[2] = 10 * r[1] + (IF 2 <= Len(t) THEN t[2] ELSE 0)
                      /\ r[3] = 10 * r[2] + (IF 3 <= Len(t) THEN t[3] ELSE 0)
    BY <1>1, FractionFacts
  <1> QED
    BY <1>1

\* Hundredths are printed as two digits, which make hundredths again, and
\* thousandths with a third that is not there.
LEMMA HundredthsRoundTrip ==
  ASSUME NEW m \in 0 .. 99
  PROVE  /\ DigitsOf(m, 2) \in Seq(Digits) /\ Len(DigitsOf(m, 2)) = 2
         /\ Fraction(DigitsOf(m, 2), 2) = m
         /\ Fraction(DigitsOf(m, 2), 3) = 10 * m
  <1> DEFINE g == Rest(m)
             t == DigitsOf(m, 2)
  <1>1. g[0] = m /\ g[1] = m \div 10 /\ \A k \in 1 .. 10 : g[k] = g[k - 1] \div 10
    BY RestSteps
  <1> HIDE DEF g, t
  <1>2. g[2] = 0
    BY <1>1
  <1>3. \A k \in {3, 4, 5, 6, 7, 8, 9} : g[k] = 0
    <2>1. g[3] = 0 /\ g[4] = 0 /\ g[5] = 0
      BY <1>1, <1>2
    <2>2. g[6] = 0 /\ g[7] = 0 /\ g[8] = 0 /\ g[9] = 0
      BY <1>1, <2>1
    <2> QED
      BY <2>1, <2>2
  <1>4. SizeOf(m, 2) = 2
    <2> DEFINE Fits(k) == k >= 2 /\ g[k] = 0 /\ (k = 2 \/ g[k - 1] # 0)
    <2>1. SizeOf(m, 2) = CHOOSE k \in 1 .. 10 : Fits(k)
      BY DEF SizeOf, g
    <2>2. 2 \in 1 .. 10 /\ Fits(2)
      BY <1>2
    <2>3. ASSUME NEW k \in 1 .. 10, Fits(k) PROVE k = 2
      <3> SUFFICES ASSUME k # 2 PROVE FALSE
        OBVIOUS
      <3>1. g[k - 1] # 0 /\ k - 1 \in 2 .. 9
        BY <2>3
      <3>2. k - 1 = 2 \/ k - 1 \in {3, 4, 5, 6, 7, 8, 9}
        BY <3>1
      <3> QED
        BY <1>2, <1>3, <3>1, <3>2
    <2> HIDE DEF Fits
    <2> QED
      BY <2>1, <2>2, <2>3
  <1>5. t = [i \in 1 .. 2 |-> g[2 - i] % 10]
    BY <1>4, DigitsAre DEF t, g
  <1>6. g[1] % 10 = m \div 10 /\ m \div 10 \in Digits /\ m % 10 \in Digits
    BY <1>1 DEF Digits
  <1>7. Len(t) = 2 /\ t[1] = m \div 10 /\ t[2] = m % 10
    BY <1>1, <1>5, <1>6
  <1>8. t \in Seq(Digits)
    <2>1. \A i \in 1 .. 2 : g[2 - i] % 10 \in Digits
      BY <1>1, <1>6
    <2> QED
      BY <1>5, <2>1
  <1>9. 10 * (m \div 10) + (m % 10) = m
    OBVIOUS
  <1>10. Fraction(t, 2) = m
    <2>1. PICK r : /\ Fraction(t, 2) = r[2]
                   /\ r[0] = 0
                   /\ r[1] = 10 * r[0] + (IF 1 <= Len(t) THEN t[1] ELSE 0)
                   /\ r[2] = 10 * r[1] + (IF 2 <= Len(t) THEN t[2] ELSE 0)
      BY TwoPlaces
    <2>2. r[1] = m \div 10
      BY <1>6, <1>7, <2>1 DEF Digits
    <2> QED
      BY <1>7, <1>9, <2>1, <2>2
  <1>11. Fraction(t, 3) = 10 * m
    <2>1. PICK r : /\ Fraction(t, 3) = r[3]
                   /\ r[0] = 0
                   /\ r[1] = 10 * r[0] + (IF 1 <= Len(t) THEN t[1] ELSE 0)
                   /\ r[2] = 10 * r[1] + (IF 2 <= Len(t) THEN t[2] ELSE 0)
                   /\ r[3] = 10 * r[2] + (IF 3 <= Len(t) THEN t[3] ELSE 0)
      BY ThreePlaces
    <2>2. r[1] = m \div 10
      BY <1>6, <1>7, <2>1 DEF Digits
    <2>3. r[2] = m
      BY <1>7, <1>9, <2>1, <2>2
    <2> QED
      BY <1>7, <2>1, <2>3
  <1> QED
    BY <1>7, <1>8, <1>10, <1>11 DEF t

-----------------------------------------------------------------------------
\* A printed number taken apart.

BodyOf(t) == IF t # <<>> /\ t[1] = Minus THEN Tail(t) ELSE t

WholeOf(body) == SubSeq(body, 1, Point(body) - 1)
FractionOf(body) == SubSeq(body, Point(body) + 1, Len(body))

ScaledOf(body, places) ==
  ReadDigits(WholeOf(body)).value * 10 ^ places + Fraction(FractionOf(body), places)

SignedOf(t, v) == IF t # <<>> /\ t[1] = Minus THEN -v ELSE v

LEMMA ParseParts ==
  ASSUME NEW t, NEW places, NEW body, body = BodyOf(t), NEW v, v = SignedOf(t, ScaledOf(body, places))
  PROVE  ParseDecimal(t, places) =
           IF AllDigits(FractionOf(body)) /\ ReadDigits(WholeOf(body)).ok
              /\ WholeOf(body) \o FractionOf(body) # <<>>
              /\ v <= I32Max /\ v >= -I32Max - 1
           THEN Parsed(v)
           ELSE Rejected
  BY Zenon DEF ParseDecimal, BodyOf, WholeOf, FractionOf, ScaledOf, SignedOf

LEMMA AfterConcat ==
  ASSUME NEW s \in Seq(Int), NEW u \in Seq(Int), u # <<>>
  PROVE  SubSeq(s \o u, Len(s) + 1, Len(s) + Len(u)) = u
  <1> DEFINE w == SubSeq(s \o u, Len(s) + 1, Len(s) + Len(u))
  <1>1. Len(s) \in Nat /\ Len(u) \in Nat
    OBVIOUS
  <1>2. Len(s \o u) = Len(s) + Len(u) /\ \A i \in 1 .. Len(u) : (s \o u)[Len(s) + i] = u[i]
    BY <1>1
  <1>3. w \in Seq(Int) /\ Len(w) = Len(u)
    BY <1>1, <1>2
  <1>4. \A i \in 1 .. Len(u) : w[i] = u[i]
    BY <1>1, <1>2
  <1> QED
    BY <1>3, <1>4, SeqEqual

\* The point is found, and the digits on its two sides.
LEMMA BodyParts ==
  ASSUME NEW A \in Seq(Digits), A # <<>>, NEW B \in Seq(Digits), B # <<>>,
         NEW body, body = A \o <<Dot>> \o B
  PROVE  /\ body \in Seq(Int) /\ body # <<>> /\ body[1] # Minus
         /\ WholeOf(body) = A /\ FractionOf(body) = B
  <1>1. A \in Seq(Int) /\ B \in Seq(Int) /\ <<Dot>> \in Seq(Int) /\ Len(<<Dot>>) = 1 /\ <<Dot>>[1] = Dot
    <2>1. Digits \subseteq Int /\ Dot \in Int
      BY DEF Digits, Dot
    <2>2. A \in Seq(Int) /\ B \in Seq(Int)
      BY <2>1, SeqMonotonic
    <2> QED
      BY <2>1, <2>2
  <1>2. Len(A) \in Nat /\ Len(A) >= 1 /\ Len(B) \in Nat /\ Len(B) >= 1
    BY EmptySeq, LenProperties
  <1> DEFINE head == A \o <<Dot>>
             a == Len(A)
             b == Len(B)
  <1>3. /\ head \in Seq(Int) /\ Len(head) = a + 1
        /\ \A i \in 1 .. a + 1 : head[i] = IF i <= a THEN A[i] ELSE <<Dot>>[i - a]
    BY <1>1, ConcatProperties
  <1>4. body = head \o B
    OBVIOUS
  <1> HIDE DEF head
  <1>5. /\ body \in Seq(Int) /\ Len(body) = a + 1 + b
        /\ \A i \in 1 .. a + 1 + b : body[i] = IF i <= a + 1 THEN head[i] ELSE B[i - (a + 1)]
    BY <1>1, <1>3, <1>4, ConcatProperties
  <1>6. /\ \A i \in 1 .. a : body[i] = A[i]
        /\ body[a + 1] = Dot
        /\ \A i \in 1 .. b : body[a + 1 + i] = B[i]
    BY <1>1, <1>2, <1>3, <1>5
  <1>7. DOMAIN body = 1 .. a + 1 + b
    BY <1>5, LenProperties
  <1>8. \A i \in 1 .. a : A[i] \in Digits
    BY ElementOfSeq
  <1>9. \A i \in 1 .. b : B[i] \in Digits
    BY ElementOfSeq
  <1> HIDE DEF a, b
  <1>10. a \in Nat /\ a >= 1 /\ b \in Nat /\ b >= 1
    BY <1>2 DEF a, b
  <1>11. {i \in DOMAIN body : body[i] = Dot} = {a + 1}
    <2>1. ASSUME NEW i \in DOMAIN body, body[i] = Dot PROVE i = a + 1
      <3>1. Dot \notin Digits
        BY DEF Dot, Digits
      <3>2. i \in 1 .. a + 1 + b
        BY <1>7
      <3>3. ~(i \in 1 .. a)
        BY <1>6, <1>8, <2>1, <3>1
      <3>4. ~(i > a + 1)
        <4> SUFFICES ASSUME i > a + 1 PROVE FALSE
          OBVIOUS
        <4>1. i - (a + 1) \in 1 .. b /\ i = a + 1 + (i - (a + 1))
          BY <1>10, <3>2
        <4>2. body[i] = B[i - (a + 1)]
          BY <1>6, <4>1
        <4> QED
          BY <1>9, <2>1, <3>1, <4>1, <4>2
      <3> QED
        BY <1>10, <3>2, <3>3, <3>4
    <2>2. a + 1 \in DOMAIN body
      BY <1>7, <1>10
    <2> QED
      BY <1>6, <2>1, <2>2
  <1>12. Point(body) = a + 1
    <2>1. (CHOOSE i \in {a + 1} : \A j \in {a + 1} : i <= j) = a + 1
      BY <1>10
    <2>2. {a + 1} # {}
      OBVIOUS
    <2> QED
      BY <1>11, <2>1, <2>2, Zenon DEF Point
  <1>13. SubSeq(body, 1, a) = A
    <2>1. 1 \in 1 .. Len(head) /\ a \in 1 .. Len(head) /\ 1 \in 1 .. Len(A) /\ a \in 1 .. Len(A)
      BY <1>3, <1>10 DEF a
    <2>2. SubSeq(body, 1, a) = SubSeq(head, 1, a)
      BY <1>1, <1>3, <1>4, <2>1, SubSeqOfConcat1
    <2>3. SubSeq(head, 1, a) = SubSeq(A, 1, a)
      BY <1>1, <2>1, SubSeqOfConcat1 DEF head
    <2>4. SubSeq(A, 1, a) = A
      BY SubSeqFull DEF a
    <2> QED
      BY <2>2, <2>3, <2>4
  <1>14. SubSeq(body, a + 2, Len(body)) = B
    <2>1. SubSeq(head \o B, Len(head) + 1, Len(head) + Len(B)) = B
      BY <1>1, <1>3, AfterConcat
    <2>2. Len(head) + 1 = a + 2 /\ Len(head) + Len(B) = Len(body)
      BY <1>3, <1>5, <1>10 DEF b
    <2> QED
      BY <1>4, <2>1, <2>2
  <1>15. body[1] # Minus /\ body # <<>>
    <2>1. 1 \in 1 .. a /\ Minus \notin Digits
      BY <1>10 DEF Minus, Digits
    <2>2. body[1] \in Digits
      BY <1>6, <1>8, <2>1
    <2>3. Len(body) # 0
      BY <1>5, <1>10
    <2> QED
      BY <2>1, <2>2, <2>3, EmptySeq
  <1>16. Point(body) - 1 = a /\ Point(body) + 1 = a + 2
    BY <1>10, <1>12
  <1> QED
    BY <1>5, <1>13, <1>14, <1>15, <1>16 DEF WholeOf, FractionOf

LEMMA AfterMinus ==
  ASSUME NEW u \in Seq(Int), NEW t, t = <<Minus>> \o u
  PROVE  t # <<>> /\ t[1] = Minus /\ Tail(t) = u
  <1>1. <<Minus>> \in Seq(Int) /\ Len(<<Minus>>) = 1 /\ <<Minus>>[1] = Minus
    BY DEF Minus
  <1>2. /\ t \in Seq(Int) /\ Len(t) = 1 + Len(u)
        /\ \A i \in 1 .. 1 + Len(u) : t[i] = IF i <= 1 THEN <<Minus>>[i] ELSE u[i - 1]
    BY <1>1, ConcatProperties
  <1>3. Len(u) \in Nat
    OBVIOUS
  <1>4. t # <<>> /\ t[1] = Minus
    BY <1>1, <1>2, <1>3, EmptySeq
  <1>5. /\ Tail(t) \in Seq(Int) /\ Len(Tail(t)) = Len(u)
        /\ \A i \in 1 .. Len(u) : Tail(t)[i] = t[i + 1]
    BY <1>2, <1>3, <1>4, HeadTailProperties
  <1>6. \A i \in 1 .. Len(u) : Tail(t)[i] = u[i]
    BY <1>2, <1>3, <1>5
  <1> QED
    BY <1>4, <1>5, <1>6, SeqEqual

\* A printed number is read as its whole part and its two digits say, with
\* its sign, if that is no more than a signed number holds.
LEMMA DecimalRead ==
  ASSUME NEW h \in Int, NEW n \in Nat, n = (IF h < 0 THEN -h ELSE h), n \div 100 <= U32Max,
         NEW places, NEW v \in Nat,
         v = (n \div 100) * 10 ^ places + Fraction(DigitsOf(n % 100, 2), places), v <= I32Max
  PROVE  ParseDecimal(FormatDecimal(h), places) = Parsed(IF h < 0 THEN -v ELSE v)
  <1> DEFINE A == DigitsOf(n \div 100, 1)
             B == DigitsOf(n % 100, 2)
             t == FormatDecimal(h)
             body == A \o <<Dot>> \o B
  <1>1. n \div 100 \in 0 .. U32Max /\ n % 100 \in 0 .. 99 /\ 1 \in 1 .. 2
    BY WidthAssumption
  <1>2. A \in Seq(Digits) /\ A # <<>> /\ ReadDigits(A) = Parsed(n \div 100)
    BY <1>1, DigitsTyped, DigitsRoundTrip
  <1>3. B \in Seq(Digits) /\ B # <<>>
    <2>1. B \in Seq(Digits) /\ Len(B) = 2
      BY <1>1, HundredthsRoundTrip
    <2> QED
      BY <2>1, EmptySeq
  <1>4. t = (IF h < 0 THEN <<Minus>> ELSE <<>>) \o A \o <<Dot>> \o B
    BY DEF FormatDecimal
  <1>5. v = (n \div 100) * 10 ^ places + Fraction(B, places)
    OBVIOUS
  <1> HIDE DEF A, B, t
  <1>6. /\ body \in Seq(Int) /\ body # <<>> /\ body[1] # Minus
        /\ WholeOf(body) = A /\ FractionOf(body) = B
    BY <1>2, <1>3, BodyParts
  <1>7. A \in Seq(Int) /\ B \in Seq(Int) /\ <<Dot>> \in Seq(Int)
    <2>1. Digits \subseteq Int /\ Dot \in Int
      BY DEF Digits, Dot
    <2>2. A \in Seq(Int) /\ B \in Seq(Int)
      BY <1>2, <1>3, <2>1, SeqMonotonic
    <2> QED
      BY <2>1, <2>2
  <1>8. CASE h < 0
    <2>1. <<Minus>> \in Seq(Int)
      BY DEF Minus
    <2>2. A \o <<Dot>> \in Seq(Int)
      BY <1>7, ConcatProperties
    <2>3. <<Minus>> \o A \o <<Dot>> = <<Minus>> \o (A \o <<Dot>>)
      BY <1>7, <2>1, ConcatAssociative
    <2>4. (<<Minus>> \o (A \o <<Dot>>)) \o B = <<Minus>> \o ((A \o <<Dot>>) \o B)
      <3> DEFINE head == A \o <<Dot>>
      <3>1. head \in Seq(Int)
        BY <2>2
      <3> HIDE DEF head
      <3>2. (<<Minus>> \o head) \o B = <<Minus>> \o (head \o B)
        BY <1>7, <2>1, <3>1, ConcatAssociative
      <3> QED
        BY <3>2 DEF head
    <2>5. t = <<Minus>> \o body
      BY <1>4, <1>8, <2>3, <2>4
    <2> HIDE DEF body
    <2>6. t # <<>> /\ t[1] = Minus /\ Tail(t) = body
      BY <1>6, <2>5, AfterMinus
    <2>7. body = BodyOf(t) /\ -v = SignedOf(t, v)
      BY <2>6 DEF BodyOf, SignedOf
    <2>8. ScaledOf(body, places) = v
      BY <1>2, <1>5, <1>6 DEF ScaledOf, Parsed
    <2>9. AllDigits(B) /\ A \o B # <<>>
      BY <1>2, <1>3, ElementOfSeq, ConcatProperties, EmptySeq DEF AllDigits
    <2>10. -v <= I32Max /\ -v >= -I32Max - 1
      BY WidthAssumption
    <2>11. ReadDigits(A).ok
      BY <1>2 DEF Parsed
    <2>12. ParseDecimal(t, places) = Parsed(-v)
      BY <1>6, <2>7, <2>8, <2>9, <2>10, <2>11, ParseParts
    <2> QED
      BY <1>8, <2>12 DEF t
  <1>9. CASE ~(h < 0)
    <2>1. <<>> \o A = A
      BY <1>7, ConcatEmptySeq
    <2>2. t = body
      BY <1>4, <1>9, <2>1
    <2> HIDE DEF body
    <2>3. body = BodyOf(t) /\ v = SignedOf(t, v)
      BY <1>6, <2>2 DEF BodyOf, SignedOf
    <2>4. ScaledOf(body, places) = v
      BY <1>2, <1>5, <1>6 DEF ScaledOf, Parsed
    <2>5. AllDigits(B) /\ A \o B # <<>>
      BY <1>2, <1>3, ElementOfSeq, ConcatProperties, EmptySeq DEF AllDigits
    <2>6. v >= -I32Max - 1
      BY WidthAssumption
    <2>7. ReadDigits(A).ok
      BY <1>2 DEF Parsed
    <2>8. ParseDecimal(t, places) = Parsed(v)
      BY <1>6, <2>3, <2>4, <2>5, <2>6, <2>7, ParseParts
    <2> QED
      BY <1>9, <2>8 DEF t
  <1> QED
    BY <1>8, <1>9

\* A temperature in hundredths is heard in hundredths, below zero too.
LEMMA TemperatureRoundTrip ==
  ASSUME NEW h \in Int, NEW n \in Nat, n = (IF h < 0 THEN -h ELSE h),
         n <= I32Max, n \div 100 <= U32Max
  PROVE  ParseDecimal(FormatDecimal(h), 2) = Parsed(h)
  <1>1. n % 100 \in 0 .. 99
    OBVIOUS
  <1>2. Fraction(DigitsOf(n % 100, 2), 2) = n % 100
    BY <1>1, HundredthsRoundTrip
  <1>3. 10 ^ 2 = 100
    OBVIOUS
  <1>4. 100 * (n \div 100) + (n % 100) = n
    OBVIOUS
  <1>5. ASSUME NEW places, places = 2
        PROVE  ParseDecimal(FormatDecimal(h), places) = Parsed(IF h < 0 THEN -n ELSE n)
    <2>1. n = (n \div 100) * 10 ^ places + Fraction(DigitsOf(n % 100, 2), places)
      BY <1>2, <1>3, <1>4, <1>5
    <2> QED
      BY <2>1, DecimalRead
  <1> QED
    BY <1>5

\* A humidity in hundredths is heard in thousandths.
LEMMA HumidityRoundTrip ==
  ASSUME NEW h \in Nat, 10 * h <= I32Max, h \div 100 <= U32Max
  PROVE  ParseDecimal(FormatDecimal(h), 3) = Parsed(10 * h)
  <1>1. h % 100 \in 0 .. 99
    OBVIOUS
  <1>2. Fraction(DigitsOf(h % 100, 2), 3) = 10 * (h % 100)
    BY <1>1, HundredthsRoundTrip
  <1>3. 10 ^ 3 = 1000
    OBVIOUS
  <1>4. 1000 * (h \div 100) + 10 * (h % 100) = 10 * h
    OBVIOUS
  <1>5. ASSUME NEW places, places = 3
        PROVE  ParseDecimal(FormatDecimal(h), places) = Parsed(10 * h)
    <2> DEFINE v == 10 * h
    <2>1. v \in Nat /\ v <= I32Max
      OBVIOUS
    <2>2. v = (h \div 100) * 10 ^ places + Fraction(DigitsOf(h % 100, 2), places)
      BY <1>2, <1>3, <1>4, <1>5
    <2>3. h \in Int /\ h = (IF h < 0 THEN -h ELSE h) /\ ~(h < 0)
      OBVIOUS
    <2> HIDE DEF v
    <2>4. ParseDecimal(FormatDecimal(h), places) = Parsed(IF h < 0 THEN -v ELSE v)
      BY <2>1, <2>2, <2>3, DecimalRead
    <2> QED
      BY <2>3, <2>4 DEF v
  <1> QED
    BY <1>5

\* Nothing is heard in place of a value that was not read.
LEMMA NothingFromErr ==
  /\ ParseDecimal(ErrText, 2).ok = FALSE /\ ParseDecimal(ErrText, 3).ok = FALSE
  /\ ParseU32(ErrText).ok = FALSE
  <1> DEFINE body == <<Letter>>
  <1>1. body \in Seq(Int) /\ Len(body) = 1 /\ body[1] = Letter /\ body # <<>>
    BY DEF Letter
  <1>2. ErrText = body
    BY DEF ErrText
  <1> HIDE DEF body
  <1>3. ReadDigits(body).ok = FALSE
    <2>1. Len(body) \in Nat
      BY <1>1
    <2>2. PICK r : /\ ReadDigits(body) = r[Len(body)]
                   /\ r[0] = Parsed(0)
                   /\ \A k \in 1 .. Len(body) : r[k] = AddDigit(r[k - 1], body[k])
      BY <2>1, ReadFacts
    <2>3. ReadDigits(body) = AddDigit(r[0], Letter)
      BY <1>1, <2>2
    <2>4. Letter \notin Digits
      BY DEF Letter, Digits
    <2> QED
      BY <2>3, <2>4 DEF AddDigit, Rejected
  <1>4. BodyOf(body) = body
    BY <1>1 DEF BodyOf, Letter, Minus
  <1>5. {i \in DOMAIN body : body[i] = Dot} = {}
    <2>1. DOMAIN body = {1}
      BY <1>1
    <2> QED
      BY <1>1, <2>1 DEF Letter, Dot
  <1>6. Point(body) = 2
    BY <1>1, <1>5 DEF Point
  <1>7. WholeOf(body) = body
    <2>1. SubSeq(body, 1, Len(body)) = body
      BY <1>1, SubSeqFull
    <2> QED
      BY <1>1, <1>6, <2>1 DEF WholeOf
  <1>8. \A places : ParseDecimal(body, places).ok = FALSE
    <2> TAKE places
    <2>1. ParseDecimal(body, places) = Rejected
      BY <1>3, <1>4, <1>7, ParseParts
    <2> QED
      BY <2>1 DEF Rejected
  <1>9. ParseU32(body).ok = FALSE
    BY <1>1, <1>3 DEF ParseU32
  <1> QED
    BY <1>2, <1>8, <1>9

-----------------------------------------------------------------------------
\* The driver's counters stay in range, and the measurement that is going on
\* has the number that a sample and gas of it get: gas of an earlier
\* measurement, or of one that was rejected, is never beside its sample.
CountersTyped ==
  /\ DOMAIN chips \subseteq {Addresses[i] : i \in DOMAIN Addresses}
  /\ slot \in DOMAIN Addresses /\ count \in 0 .. 4
  /\ number \in 0 .. Numbers /\ faults \in 0 .. MaxFaults
  /\ sample.ok \in BOOLEAN

Numbered ==
  /\ step # "idle" \/ sample.ok => number \in 1 .. Numbers
  /\ gas_valid \in {0, number}
  /\ step \in {"poll", "field"} \/ sample.ok => sample.number = number

LatestTyped ==
  /\ latest_reading.temperature \in -I32Max - 1 .. I32Max
  /\ latest_reading.humidity \in 0 .. I32Max /\ latest_reading.gas \in 0 .. U32Max

LatestIsOne ==
  /\ latest_reading.has_gas => latest_reading.has_environment
  /\ latest_reading.has_environment =>
       \E k \in 1 .. Numbers :
         /\ latest_reading.temperature = Measured[k].temperature
         /\ latest_reading.humidity = 10 * Measured[k].humidity
         /\ latest_reading.has_gas => latest_reading.gas = Measured[k].gas

NInv == CountersTyped /\ Numbered

RInv == CInv /\ NInv /\ LatestTyped /\ LatestIsOne

LEMMA NInit == BmeInit => NInv
  <1>1. ASSUME BmeInit PROVE NInv
    <2>1. 1 \in DOMAIN Addresses
      BY BmeAssumption
    <2>2. DOMAIN chips \subseteq {Addresses[i] : i \in DOMAIN Addresses}
      BY <1>1 DEF BmeInit
    <2> QED
      BY <1>1, <2>1, <2>2, BmeAssumption DEF BmeInit, NoSample, NInv, CountersTyped, Numbered
  <1> QED
    BY <1>1

LEMMA NextAddressTyped == NextAddress /\ slot \in DOMAIN Addresses => slot' \in DOMAIN Addresses
  BY BmeAssumption DEF NextAddress

LEMMA FaultTyped == faults \in 0 .. MaxFaults /\ Fault => faults' \in 0 .. MaxFaults
  BY BmeAssumption DEF Fault

LEMMA SkipNumbers == CInv /\ NInv /\ Skip /\ step # "idle" /\ (Fault \/ UNCHANGED faults) => NInv'
  <1> SUFFICES ASSUME CInv, NInv, Skip, step # "idle", Fault \/ UNCHANGED faults PROVE NInv'
    OBVIOUS
  <1>1. /\ step' \in {"init", "done"} /\ count' = 0 /\ sample' = NoSample
        /\ UNCHANGED <<chips, number, gas_valid>>
    BY DEF Skip, NextAddress
  <1>2. slot' \in DOMAIN Addresses
    BY NextAddressTyped DEF Skip, NInv, CountersTyped
  <1>3. faults' \in 0 .. MaxFaults
    BY FaultTyped DEF NInv, CountersTyped
  <1> QED
    BY <1>1, <1>2, <1>3 DEF NInv, CountersTyped, Numbered, NoSample

LEMMA BeginNumbers == CInv /\ NInv /\ Begin => NInv'
  <1> SUFFICES ASSUME CInv, NInv, Begin PROVE NInv'
    OBVIOUS
  <1>1. 1 \in DOMAIN Addresses
    BY BmeAssumption
  <1>2. number' \in 1 .. Numbers
    BY BmeAssumption DEF Begin, NInv, CountersTyped
  <1> QED
    BY <1>1, <1>2 DEF Begin, NoSample, NInv, CountersTyped, Numbered

LEMMA CacheNumbers == CInv /\ NInv /\ InitFromCache => NInv'
  BY DEF InitFromCache, NInv, CountersTyped, Numbered

LEMMA CalibrationNumbers == CInv /\ NInv /\ ReadCalibration => NInv'
  <1> SUFFICES ASSUME CInv, NInv, ReadCalibration PROVE NInv'
    OBVIOUS
  <1>1. CASE Skip
    BY <1>1, SkipNumbers DEF ReadCalibration, Fail
  <1>2. CASE ~Skip
    <2>1. /\ step = "init" /\ step' = "setup" /\ count' = 0
          /\ chips' = [chips EXCEPT ![Address].dipped = FALSE]
          /\ UNCHANGED <<slot, number, sample, gas_valid, faults>>
      BY <1>2 DEF ReadCalibration, Fail
    <2>2. DOMAIN chips' = DOMAIN chips
      BY <2>1
    <2> QED
      BY <2>1, <2>2 DEF NInv, CountersTyped, Numbered
  <1> QED
    BY <1>1, <1>2

LEMMA SetupNumbers == CInv /\ NInv /\ WriteSetup => NInv'
  <1> SUFFICES ASSUME CInv, NInv, WriteSetup PROVE NInv'
    OBVIOUS
  <1>1. CASE Skip
    BY <1>1, SkipNumbers DEF WriteSetup, Fail
  <1>2. CASE ~Skip
    <2>1. /\ step = "setup"
          /\ chips' = [chips EXCEPT ![Address].registers = @ \cup {Setup[count + 1]}]
          /\ IF count + 1 = Len(Setup)
             THEN step' = "trigger" /\ count' = 0
             ELSE count' = count + 1 /\ UNCHANGED step
          /\ UNCHANGED <<slot, number, sample, gas_valid, faults>>
      BY <1>2 DEF WriteSetup, Fail
    <2>2. DOMAIN chips' = DOMAIN chips
      BY <2>1
    <2>3. count' \in 0 .. 4 /\ step' \in {"setup", "trigger"}
      BY <2>1, SetupShape DEF NInv, CountersTyped
    <2> QED
      BY <2>1, <2>2, <2>3 DEF NInv, CountersTyped, Numbered
  <1> QED
    BY <1>1, <1>2

LEMMA TriggerNumbers == CInv /\ NInv /\ Trigger => NInv'
  <1> SUFFICES ASSUME CInv, NInv, Trigger PROVE NInv'
    OBVIOUS
  <1>1. CASE Skip
    BY <1>1, SkipNumbers DEF Trigger, Fail
  <1>2. CASE ~Skip
    <2>1. /\ step = "trigger" /\ step' = "poll" /\ count' = 0 /\ gas_valid' = 0
          /\ sample'.number = number /\ sample'.ok = FALSE
          /\ UNCHANGED <<chips, slot, number, faults>>
      BY <1>2 DEF Trigger, Fail, NoSample
    <2>2. CountersTyped'
      <3>1. sample'.ok \in BOOLEAN
        BY <2>1
      <3>2. count' \in 0 .. 4
        BY <2>1
      <3> QED
        BY <2>1, <3>1, <3>2, Zenon DEF NInv, CountersTyped
    <2>3. number \in 1 .. Numbers
      BY <2>1 DEF NInv, Numbered
    <2>4. Numbered'
      BY <2>1, <2>3 DEF Numbered
    <2> QED
      BY <2>2, <2>4 DEF NInv
  <1> QED
    BY <1>1, <1>2

LEMMA PollNumbers == CInv /\ NInv /\ Poll => NInv'
  <1> SUFFICES ASSUME CInv, NInv, Poll PROVE NInv'
    OBVIOUS
  <1>1. CASE Skip
    BY <1>1, SkipNumbers DEF Poll, Fail
  <1>2. CASE ~Skip
    <2>1. step = "poll" /\ step' = "field" /\ UNCHANGED <<chips, slot, count, number, sample, gas_valid, faults>>
      BY <1>2 DEF Poll, Fail
    <2> QED
      BY <2>1 DEF NInv, CountersTyped, Numbered
  <1> QED
    BY <1>1, <1>2

\* A measurement that is rejected leaves its gas, whose number it has.
LEMMA FieldNumbers == CInv /\ NInv /\ ReadField => NInv'
  <1> SUFFICES ASSUME CInv, NInv, ReadField PROVE NInv'
    OBVIOUS
  <1>1. CASE Skip
    BY <1>1, SkipNumbers DEF ReadField, Fail
  <1>2. CASE ~Skip
    <2>1. /\ step = "field" /\ gas_valid' \in {0, number} /\ UNCHANGED <<chips, count, number>>
          /\ \/ /\ sample' = [sample EXCEPT !.ok = TRUE, !.calibration = g_bme680.calibration]
                /\ step' = "done" /\ UNCHANGED <<slot, faults>>
             \/ Fault /\ NextAddress /\ sample' = NoSample
      BY <1>2 DEF ReadField, Fail, NInv, Numbered
    <2>2. CASE UNCHANGED slot /\ UNCHANGED faults /\ step' = "done" /\ sample'.ok = TRUE
           /\ sample'.number = sample.number
      BY <2>1, <2>2 DEF NInv, CountersTyped, Numbered
    <2>3. CASE Fault /\ NextAddress /\ sample' = NoSample
      <3>1. step' \in {"init", "done"}
        BY <2>3 DEF NextAddress
      <3>2. slot' \in DOMAIN Addresses /\ faults' \in 0 .. MaxFaults
        BY <2>3, NextAddressTyped, FaultTyped DEF NInv, CountersTyped
      <3> QED
        BY <2>1, <2>3, <3>1, <3>2 DEF NInv, CountersTyped, Numbered, NoSample
    <2>4. sample' = [sample EXCEPT !.ok = TRUE, !.calibration = g_bme680.calibration]
            => sample'.number = sample.number /\ sample'.ok = TRUE
      BY DEF CInv, SampleShaped
    <2> QED
      BY <2>1, <2>2, <2>3, <2>4
  <1> QED
    BY <1>1, <1>2

LEMMA DipNumbers == CInv /\ NInv /\ Dip => NInv'
  <1> SUFFICES ASSUME CInv, NInv, Dip PROVE NInv'
    OBVIOUS
  <1>1. DOMAIN chips' = DOMAIN chips /\ UNCHANGED <<step, slot, count, number, sample, gas_valid>>
    BY DEF Dip
  <1>2. faults' \in 0 .. MaxFaults
    BY FaultTyped DEF Dip, NInv, CountersTyped
  <1> QED
    BY <1>1, <1>2 DEF NInv, CountersTyped, Numbered

LEMMA EndNumbers == CInv /\ NInv /\ End => NInv'
  BY DEF End, EndSample, EndReadAll, NInv, CountersTyped, Numbered

-----------------------------------------------------------------------------
\* What the numbers that are printed are read as.
LEMMA ReplyIsRead ==
  ASSUME CInv, NInv, step = "done", NEW light \in BOOLEAN
  PROVE  /\ sample.ok =>
              /\ sample.number \in 1 .. Numbers
              /\ ParseDecimal(Reply(light).temperature, 2) = Parsed(Measured[sample.number].temperature)
              /\ ParseDecimal(Reply(light).humidity, 3) = Parsed(10 * Measured[sample.number].humidity)
              /\ gas_valid # 0 => ParseU32(Reply(light).gas) = Parsed(Measured[sample.number].gas)
              /\ gas_valid = 0 => ParseU32(Reply(light).gas).ok = FALSE
         /\ ~sample.ok =>
              /\ ParseDecimal(Reply(light).temperature, 2).ok = FALSE
              /\ ParseU32(Reply(light).gas).ok = FALSE
  <1>1. CASE sample.ok
    <2> DEFINE k == sample.number
               m == Measured[k]
    <2>1. k \in 1 .. Numbers /\ gas_valid \in {0, k}
      BY <1>1 DEF NInv, Numbered
    <2>2. /\ Reply(light).temperature = FormatDecimal(m.temperature)
          /\ Reply(light).humidity = FormatDecimal(m.humidity)
          /\ gas_valid # 0 => Reply(light).gas = DigitsOf(m.gas, 1)
          /\ gas_valid = 0 => Reply(light).gas = ErrText
      BY <1>1, <2>1 DEF Reply
    <2>3. m \in [temperature : Int, humidity : Nat, gas : 0 .. U32Max] /\ InRange(m)
      BY <2>1, MeasuredAssumption
    <2> HIDE DEF k, m
    <2>4. m.temperature \in Int /\ m.humidity \in Nat /\ m.gas \in 0 .. U32Max
      BY <2>3
    <2>5. ParseDecimal(Reply(light).temperature, 2) = Parsed(m.temperature)
      <3> DEFINE n == IF m.temperature < 0 THEN -m.temperature ELSE m.temperature
      <3>1. n \in Nat /\ n <= I32Max /\ n \div 100 <= U32Max
        BY <2>3, <2>4 DEF InRange
      <3> QED
        BY <2>2, <2>4, <3>1, TemperatureRoundTrip
    <2>6. ParseDecimal(Reply(light).humidity, 3) = Parsed(10 * m.humidity)
      <3>1. 10 * m.humidity <= I32Max /\ m.humidity \div 100 <= U32Max
        BY <2>3 DEF InRange
      <3> QED
        BY <2>2, <2>4, <3>1, HumidityRoundTrip
    <2>7. ParseU32(DigitsOf(m.gas, 1)) = Parsed(m.gas)
      BY <2>4, DigitsTyped, DigitsRoundTrip DEF ParseU32
    <2> QED
      BY <1>1, <2>1, <2>2, <2>5, <2>6, <2>7, NothingFromErr DEF k, m
  <1>2. CASE ~sample.ok
    <2>1. Reply(light).temperature = ErrText /\ Reply(light).gas = ErrText
      BY <1>2 DEF Reply
    <2> QED
      BY <1>2, <2>1, NothingFromErr
  <1> QED
    BY <1>1, <1>2

\* A line that arrives replaces what it has and lowers the flag of what it
\* does not have.
LEMMA LineKeeps ==
  ASSUME RInv, step = "done", NEW light \in BOOLEAN,
         latest_reading' = UpdateReading(latest_reading, Reply(light))
  PROVE  /\ LatestTyped' /\ LatestIsOne'
         /\ latest_reading'.has_environment = sample.ok
         /\ latest_reading'.has_gas = (sample.ok /\ gas_valid # 0)
  <1> DEFINE temperature == ParseDecimal(Reply(light).temperature, 2)
             humidity == ParseDecimal(Reply(light).humidity, 3)
             gas == ParseU32(Reply(light).gas)
             have == temperature.ok /\ humidity.ok
  <1>1. /\ latest_reading'.has_environment = have
        /\ latest_reading'.has_gas = gas.ok
        /\ latest_reading'.temperature = IF have THEN temperature.value ELSE latest_reading.temperature
        /\ latest_reading'.humidity = IF have THEN humidity.value ELSE latest_reading.humidity
        /\ latest_reading'.gas = IF gas.ok THEN gas.value ELSE latest_reading.gas
    BY DEF UpdateReading
  <1>2. CASE sample.ok
    <2> DEFINE k == sample.number
               m == Measured[k]
    <2>1. /\ k \in 1 .. Numbers
          /\ temperature = Parsed(m.temperature) /\ humidity = Parsed(10 * m.humidity)
          /\ gas_valid # 0 => gas = Parsed(m.gas)
          /\ gas_valid = 0 => gas.ok = FALSE
      BY <1>2, ReplyIsRead DEF RInv
    <2>2. /\ temperature.ok = TRUE /\ temperature.value = m.temperature
          /\ humidity.ok = TRUE /\ humidity.value = 10 * m.humidity
          /\ gas_valid # 0 => gas.ok = TRUE /\ gas.value = m.gas
          /\ gas_valid = 0 => gas.ok = FALSE
      BY <2>1 DEF Parsed
    <2>3. m \in [temperature : Int, humidity : Nat, gas : 0 .. U32Max] /\ InRange(m)
      BY <2>1, MeasuredAssumption
    <2> HIDE DEF temperature, humidity, gas, m, k
    <2>4. /\ m.temperature \in -I32Max - 1 .. I32Max
          /\ 10 * m.humidity \in 0 .. I32Max /\ m.gas \in 0 .. U32Max
      BY <2>3, WidthAssumption DEF InRange
    <2>5. LatestTyped'
      BY <1>1, <2>2, <2>4 DEF RInv, LatestTyped
    <2>6. /\ latest_reading'.temperature = Measured[k].temperature
          /\ latest_reading'.humidity = 10 * Measured[k].humidity
          /\ latest_reading'.has_gas => latest_reading'.gas = Measured[k].gas
      BY <1>1, <2>2 DEF m
    <2>7. LatestIsOne'
      BY <1>1, <2>1, <2>2, <2>6 DEF LatestIsOne
    <2>8. latest_reading'.has_environment = sample.ok
      BY <1>1, <1>2, <2>2
    <2>9. latest_reading'.has_gas = (sample.ok /\ gas_valid # 0)
      BY <1>1, <1>2, <2>2
    <2> QED
      BY <2>5, <2>7, <2>8, <2>9
  <1>3. CASE ~sample.ok
    <2>1. temperature.ok = FALSE /\ gas.ok = FALSE
      BY <1>3, ReplyIsRead DEF RInv
    <2> HIDE DEF temperature, humidity, gas
    <2>2. /\ latest_reading'.has_environment = FALSE
          /\ latest_reading'.has_gas = FALSE
          /\ latest_reading'.temperature = latest_reading.temperature
          /\ latest_reading'.humidity = latest_reading.humidity
          /\ latest_reading'.gas = latest_reading.gas
      BY <1>1, <2>1
    <2>3. LatestTyped' /\ LatestIsOne'
      BY <2>2 DEF RInv, LatestTyped, LatestIsOne
    <2>4. sample.ok = FALSE
      BY <1>3 DEF RInv, NInv, CountersTyped
    <2> QED
      BY <2>2, <2>3, <2>4
  <1> QED
    BY <1>2, <1>3

LEMMA EndLatest ==
  RInv /\ End =>
    /\ LatestTyped' /\ LatestIsOne'
    /\ latest_reading' # latest_reading =>
         /\ latest_reading'.has_environment = sample.ok
         /\ latest_reading'.has_gas = (sample.ok /\ gas_valid # 0)
  <1> SUFFICES ASSUME RInv, End
               PROVE  /\ LatestTyped' /\ LatestIsOne'
                      /\ latest_reading' # latest_reading =>
                           /\ latest_reading'.has_environment = sample.ok
                           /\ latest_reading'.has_gas = (sample.ok /\ gas_valid # 0)
    OBVIOUS
  <1>1. CASE UNCHANGED latest_reading
    BY <1>1 DEF RInv, LatestTyped, LatestIsOne
  <1>2. CASE ~UNCHANGED latest_reading
    <2>1. step = "done" /\ EndReadAll
      BY <1>2 DEF End, EndSample, EndReadAll
    <2>2. PICK light \in BOOLEAN : latest_reading' \in {latest_reading, UpdateReading(latest_reading, Reply(light))}
      BY <2>1 DEF EndReadAll
    <2>3. latest_reading' = UpdateReading(latest_reading, Reply(light))
      BY <1>2, <2>2
    <2> QED
      BY <2>1, <2>3, LineKeeps
  <1> QED
    BY <1>1, <1>2

LEMMA RKeeps == RInv /\ [ReadNext]_readVars => RInv'
  <1> SUFFICES ASSUME RInv, [ReadNext]_readVars PROVE RInv'
    OBVIOUS
  <1>1. CInv'
    BY CKeeps DEF RInv
  <1>2. CASE Measure \/ PowerDips
    <2>1. LatestTyped' /\ LatestIsOne'
      <3>1. UNCHANGED latest_reading
        BY <1>2 DEF Measure, PowerDips
      <3> QED
        BY <3>1 DEF RInv, LatestTyped, LatestIsOne
    <2>2. NInv'
      <3>1. CInv /\ NInv
        BY DEF RInv
      <3>2. CASE Begin
        BY <3>1, <3>2, BeginNumbers
      <3>3. CASE InitFromCache
        BY <3>1, <3>3, CacheNumbers
      <3>4. CASE ReadCalibration
        BY <3>1, <3>4, CalibrationNumbers
      <3>5. CASE WriteSetup
        BY <3>1, <3>5, SetupNumbers
      <3>6. CASE Trigger
        BY <3>1, <3>6, TriggerNumbers
      <3>7. CASE Poll
        BY <3>1, <3>7, PollNumbers
      <3>8. CASE ReadField
        BY <3>1, <3>8, FieldNumbers
      <3>9. CASE Dip
        BY <3>1, <3>9, DipNumbers
      <3> QED
        BY <1>2, <3>2, <3>3, <3>4, <3>5, <3>6, <3>7, <3>8, <3>9 DEF Measure, PowerDips, Exchange
    <2> QED
      BY <1>1, <2>1, <2>2 DEF RInv
  <1>3. CASE End
    BY <1>1, <1>3, EndNumbers, EndLatest DEF RInv
  <1>4. CASE UNCHANGED readVars
    <2>1. /\ UNCHANGED <<chips, step, slot, count, number, sample>>
          /\ UNCHANGED <<gas_valid, faults, latest_reading>>
      BY <1>4 DEF readVars, bmeVars
    <2> QED
      BY <1>1, <2>1 DEF RInv, NInv, CountersTyped, Numbered, LatestTyped, LatestIsOne
  <1> QED
    BY <1>2, <1>3, <1>4 DEF ReadNext

LEMMA RStart == ReadInit => RInv
  <1> SUFFICES ASSUME ReadInit PROVE RInv
    OBVIOUS
  <1>1. CInv /\ NInv
    BY CInit, NInit DEF ReadInit
  <1>2. /\ latest_reading.temperature = 0 /\ latest_reading.humidity = 0 /\ latest_reading.gas = 0
        /\ latest_reading.has_environment = FALSE /\ latest_reading.has_gas = FALSE
    BY DEF ReadInit
  <1>3. LatestTyped /\ LatestIsOne
    BY <1>2, WidthAssumption DEF LatestTyped, LatestIsOne
  <1> QED
    BY <1>1, <1>3 DEF RInv

LEMMA RHolds == RInv => HoldsOneMeasurement
  <1> SUFFICES ASSUME RInv PROVE HoldsOneMeasurement
    OBVIOUS
  <1>1. TypeOK
    <2>1. \A a \in DOMAIN chips : chips[a].registers \subseteq Registers
      BY DEF RInv, CInv, ChipsTyped
    <2>2. step \in {"trigger", "poll", "field"} => Fitted
      BY DEF RInv, CInv, MeasuresCached, CacheIsTrue, Cached, Fitted
    <2>3. step = "setup" => Fitted
      BY DEF RInv, CInv, SetupGoesOn
    <2>4. count \in 0 .. Len(Setup) - 1
      BY SetupShape DEF RInv, NInv, CountersTyped
    <2>5. gas_valid \in 0 .. Numbers
      BY BmeAssumption DEF RInv, NInv, CountersTyped, Numbered
    <2> QED
      BY <2>1, <2>2, <2>3, <2>4, <2>5
      DEF TypeOK, RInv, CInv, StepTyped, NInv, CountersTyped, LatestTyped
  <1> QED
    BY <1>1 DEF HoldsOneMeasurement, RInv, LatestIsOne

\* What the base station offers as the state of the case comes from one
\* measurement and is what was measured, for any measurements in the range of
\* the sensor and any width of the numbers.
THEOREM OneMeasurement == ReadSpec => []HoldsOneMeasurement
  <1> QED
    BY RStart, RKeeps, RHolds, PTL DEF ReadSpec

\* Every number that is printed is read back: a line that arrives raises the
\* flags of exactly what was measured.
THEOREM LinesAreHeard == ReadSpec => HeardAsMeasured
  <1> DEFINE Heard == latest_reading' # latest_reading =>
                        /\ latest_reading'.has_environment = sample.ok
                        /\ latest_reading'.has_gas = (sample.ok /\ gas_valid # 0)
  <1>1. RInv /\ [ReadNext]_readVars => [Heard]_readVars
    <2> SUFFICES ASSUME RInv, [ReadNext]_readVars PROVE [Heard]_readVars
      OBVIOUS
    <2>1. CASE End
      BY <2>1, EndLatest
    <2>2. CASE Measure
      BY <2>2 DEF Measure
    <2>3. CASE PowerDips
      BY <2>3 DEF PowerDips
    <2>4. CASE UNCHANGED readVars
      BY <2>4
    <2> QED
      BY <2>1, <2>2, <2>3, <2>4 DEF ReadNext
  <1> QED
    BY <1>1, RStart, RKeeps, PTL DEF ReadSpec, HeardAsMeasured
===============================================================================
