-------------------------------- MODULE Bme680 --------------------------------
(***************************************************************************)
(* The BME680 driver of the sensor node (bme680_min.c) and the loop over   *)
(* the sensor's two possible addresses that uses it (read_environment in   *)
(* sensor-node/src/main.c).  One step is one exchange on the I2C bus; any  *)
(* of them may fail, and the sensor may lose power for a moment between    *)
(* two of them, which clears its registers and not the driver's copy of    *)
(* what it set up.  What the compensation formulas compute is left out:    *)
(* they need 64 bits.  A measurement is known by the chip it was taken by, *)
(* the calibration it was computed with, the registers the chip had when   *)
(* it was started, and its number.                                         *)
(***************************************************************************)
EXTENDS Integers, Sequences

CONSTANTS Addresses,  \* the addresses in the order they are tried
          NoChip,     \* no calibration data
          HeaterMs,   \* BME680_HEATR_DUR_MS
          ConvertMs,  \* how long the conversions before the heating take
          PollMax,    \* polls of the status register, one millisecond apart
          Numbers,    \* measurements are numbered modulo this bound
          MaxFaults   \* exchanges, conversions and supplies that fail

ASSUME BmeAssumption ==
  /\ Addresses \in Seq(Nat) /\ Addresses # <<>> /\ NoChip \notin Nat
  /\ HeaterMs \in Nat /\ ConvertMs \in Nat /\ PollMax \in Nat /\ Numbers \in Nat \ {0} /\ MaxFaults \in Nat

VARIABLES chips,      \* the sensors that are fitted, and their registers
          g_bme680,   \* the driver's state: what it set up last
          next,       \* the state that bme680_init_min is building
          step,       \* the exchange that comes next
          slot,       \* the index in Addresses of the address being tried
          count,      \* registers written so far
          number,     \* the number of this measurement
          sample,     \* the measurement: temperature, humidity, pressure
          gas_valid,  \* the number of the measurement that gave gas, or 0
          faults

bmeVars == <<chips, g_bme680, next, step, slot, count, number, sample, gas_valid, faults>>

\* The registers bme680_init_min writes, in its order.
Setup == <<"CTRL_HUM", "CONFIG", "CTRL_GAS_1", "RES_HEAT0", "GAS_WAIT0">>
Registers == {Setup[i] : i \in DOMAIN Setup}

Uninitialised == [valid |-> FALSE, addr |-> 0, calibration |-> NoChip]
NoSample == [ok |-> FALSE, number |-> 0, chip |-> 0, calibration |-> NoChip,
             registers |-> {}, dipped |-> FALSE]

Address == Addresses[slot]
Fitted == Address \in DOMAIN chips

BmeInit ==
  /\ \E fitted \in SUBSET {Addresses[i] : i \in DOMAIN Addresses} \ {{}} :
       chips = [a \in fitted |-> [registers |-> {}, dipped |-> FALSE]]
  /\ g_bme680 = Uninitialised /\ next = Uninitialised
  /\ step = "idle" /\ slot = 1 /\ count = 0 /\ number = 0
  /\ sample = NoSample /\ gas_valid = 0 /\ faults = 0

-----------------------------------------------------------------------------
Fault == faults < MaxFaults /\ faults' = faults + 1

\* Mutant: the loop goes one address too far.
NextAddressTooFar ==
  IF slot <= Len(Addresses)
  THEN slot' = slot + 1 /\ step' = "init"
  ELSE slot' = slot /\ step' = "done"

\* This address has failed: the loop tries the next one, or gives up.
NextAddress ==
  IF slot < Len(Addresses)
  THEN slot' = slot + 1 /\ step' = "init"
  ELSE slot' = slot /\ step' = "done"

Skip ==
  /\ NextAddress
  /\ count' = 0 /\ next' = Uninitialised /\ sample' = NoSample
  /\ UNCHANGED <<chips, g_bme680, number, gas_valid>>

\* An exchange fails, or the 250 polls pass without new data.
Fail == Fault /\ Skip

Begin ==
  /\ step = "idle"
  /\ number' = (number % Numbers) + 1
  /\ step' = "init" /\ slot' = 1 /\ count' = 0 /\ gas_valid' = 0 /\ sample' = NoSample
  /\ UNCHANGED <<chips, g_bme680, next, faults>>

\* Mutant: the address of the cached state is not compared.
CachedAnywhere == g_bme680.valid /\ Fitted

Cached == g_bme680.valid /\ g_bme680.addr = Address

\* bme680_init_min, from the cache.
InitFromCache ==
  /\ step = "init" /\ Cached
  /\ step' = "trigger"
  /\ UNCHANGED <<chips, g_bme680, next, slot, count, number, sample, gas_valid, faults>>

\* bme680_init_min reads the chip's identity and its calibration data.
ReadCalibration ==
  /\ step = "init" /\ ~Cached
  /\ \/ /\ Fitted
        /\ next' = [valid |-> FALSE, addr |-> Address, calibration |-> Address]
        /\ step' = "setup" /\ count' = 0
        /\ chips' = [chips EXCEPT ![Address].dipped = FALSE]
        /\ UNCHANGED <<g_bme680, slot, number, sample, gas_valid, faults>>
     \/ ~Fitted /\ UNCHANGED faults /\ Skip
     \/ Fail

\* Mutant: the state is published before the registers are written.
CommitEarly ==
  IF count = 0 THEN g_bme680' = [next EXCEPT !.valid = TRUE] ELSE UNCHANGED g_bme680

\* The state is published when the last register has been written.
Commit ==
  IF count + 1 = Len(Setup) THEN g_bme680' = [next EXCEPT !.valid = TRUE] ELSE UNCHANGED g_bme680

WriteSetup ==
  /\ step = "setup"
  /\ \/ /\ chips' = [chips EXCEPT ![Address].registers = @ \cup {Setup[count + 1]}]
        /\ Commit
        /\ IF count + 1 = Len(Setup)
           THEN step' = "trigger" /\ count' = 0 /\ next' = Uninitialised
           ELSE count' = count + 1 /\ UNCHANGED <<step, next>>
        /\ UNCHANGED <<slot, number, sample, gas_valid, faults>>
     \/ Fail

\* bme680_read_all_min: gas is not valid until it has been read.  The chip
\* starts a measurement with the registers it has.
Trigger ==
  /\ step = "trigger"
  /\ \/ /\ sample' = [NoSample EXCEPT !.number = number, !.chip = Address,
                                      !.registers = chips[Address].registers,
                                      !.dipped = chips[Address].dipped]
        /\ step' = "poll" /\ count' = 0 /\ gas_valid' = 0
        /\ UNCHANGED <<chips, g_bme680, next, slot, number, faults>>
     \/ Fail

\* Mutant: the limit is read as 192 ms.
GasWaitLimit(ms) ==
  IF ms >= 192 THEN 255
  ELSE LET factor == CHOOSE f \in 0 .. 3 : ms \div 4 ^ f <= 63 /\ \A g \in 0 .. f - 1 : ms \div 4 ^ g > 63
       IN  ms \div 4 ^ factor + 64 * factor

\* bme680_calc_gas_wait: six bits of value and two of its power of four.
GasWait(ms) ==
  IF ms >= 4032 THEN 255
  ELSE LET factor == CHOOSE f \in 0 .. 3 : ms \div 4 ^ f <= 63 /\ \A g \in 0 .. f - 1 : ms \div 4 ^ g > 63
       IN  ms \div 4 ^ factor + 64 * factor

\* How long the chip works on a measurement, by the registers it has.
WorkMs(registers) ==
  LET wait == GasWait(HeaterMs)
  IN  ConvertMs + IF {"CTRL_GAS_1", "GAS_WAIT0"} \subseteq registers
                  THEN (wait % 64) * 4 ^ (wait \div 64)
                  ELSE 0

\* The loop of polls: it ends with new data, or after the last poll.
Poll ==
  /\ step = "poll"
  /\ \/ IF WorkMs(sample.registers) < PollMax
        THEN /\ step' = "field"
             /\ UNCHANGED <<chips, g_bme680, next, slot, count, number, sample, gas_valid, faults>>
        ELSE Skip /\ UNCHANGED faults
     \/ Fail

\* The field is read and computed with the calibration in g_bme680; a value
\* out of the sensor's range rejects it, after gas_valid has been set.
ReadField ==
  /\ step = "field"
  /\ \/ /\ \/ "CTRL_GAS_1" \in sample.registers /\ gas_valid' = number
           \/ UNCHANGED gas_valid
        /\ \/ /\ sample' = [sample EXCEPT !.ok = TRUE, !.calibration = g_bme680.calibration]
              /\ step' = "done"
              /\ UNCHANGED <<slot, faults>>
           \/ Fault /\ NextAddress /\ sample' = NoSample
        /\ UNCHANGED <<chips, g_bme680, next, count, number>>
     \/ Fail

\* The supply of a sensor dips: it starts again with empty registers.  A
\* measurement it was making is lost, which is a Fail of its own.
Dip ==
  /\ Fault
  /\ \E a \in DOMAIN chips :
       /\ chips' = [chips EXCEPT ![a] = [registers |-> {}, dipped |-> TRUE]]
       /\ step \in {"poll", "field"} => a # Address
  /\ UNCHANGED <<g_bme680, next, step, slot, count, number, sample, gas_valid>>

Exchange == InitFromCache \/ ReadCalibration \/ WriteSetup \/ Trigger \/ Poll \/ ReadField

-----------------------------------------------------------------------------
\* A reading that is reported was computed with the calibration data of the
\* chip it was taken from, and that chip had all five registers set up when
\* the measurement was started, unless its supply has dipped since
\* bme680_init_min last read its calibration (the driver cannot see that).
MeasuredAsConfigured ==
  sample.ok => /\ sample.calibration = sample.chip
               /\ sample.registers = Registers \/ sample.dipped
===============================================================================
