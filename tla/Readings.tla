------------------------------- MODULE Readings -------------------------------
(***************************************************************************)
(* A reading's way to the base station: the node measures (Bme680, and the *)
(* light sensor of veml7700_min.c), answers READ_ALL with one line, and    *)
(* the driver of the base station keeps what the line says in              *)
(* latest_reading (update_reading_from_payload).  The pressure is treated  *)
(* like the temperature, and is left out; so are the fields that do not    *)
(* come from the two sensors.                                              *)
(***************************************************************************)
EXTENDS Bme680, TextFields

\* What the measurement of each number shows: temperature and humidity in
\* hundredths, gas in ohms.
CONSTANT Measured

\* A value outside the sensor's range is not reported (bme680_read_all_min),
\* and the range fits the numbers of the base station.
InRange(m) ==
  LET heat == IF m.temperature < 0 THEN -m.temperature ELSE m.temperature
  IN  /\ heat <= I32Max /\ heat \div 100 <= U32Max
      /\ 10 * m.humidity <= I32Max /\ m.humidity \div 100 <= U32Max

ASSUME MeasuredAssumption ==
  /\ Measured \in [1 .. Numbers -> [temperature : Int, humidity : Nat, gas : 0 .. U32Max]]
  /\ \A k \in 1 .. Numbers : InRange(Measured[k])

VARIABLE latest_reading

readVars == <<bmeVars, latest_reading>>

ReadInit ==
  /\ BmeInit
  /\ latest_reading = [valid |-> FALSE, has_environment |-> FALSE, temperature |-> 0, humidity |-> 0,
                       has_gas |-> FALSE, gas |-> 0, has_light |-> FALSE]

-----------------------------------------------------------------------------
\* Mutant: the gas value is printed whether or not the environment is.
ReplyWithGas(light) ==
  [temperature |-> IF sample.ok THEN FormatDecimal(Measured[sample.number].temperature) ELSE ErrText,
   humidity    |-> IF sample.ok THEN FormatDecimal(Measured[sample.number].humidity) ELSE ErrText,
   gas         |-> IF gas_valid # 0 THEN DigitsOf(Measured[gas_valid].gas, 1) ELSE ErrText,
   light       |-> light]

\* handle_read_all: GAS=ERR when the environment was not read.
Reply(light) ==
  [temperature |-> IF sample.ok THEN FormatDecimal(Measured[sample.number].temperature) ELSE ErrText,
   humidity    |-> IF sample.ok THEN FormatDecimal(Measured[sample.number].humidity) ELSE ErrText,
   gas         |-> IF sample.ok /\ gas_valid # 0 THEN DigitsOf(Measured[gas_valid].gas, 1) ELSE ErrText,
   light       |-> light]

\* Mutant: ERR leaves has_gas as it was.
UpdateReadingKeepsGas(r, line) ==
  LET temperature == ParseDecimal(line.temperature, 2)
      humidity    == ParseDecimal(line.humidity, 3)
      gas         == ParseU32(line.gas)
      have        == temperature.ok /\ humidity.ok
  IN  [valid           |-> TRUE,
       has_environment |-> have,
       temperature     |-> IF have THEN temperature.value ELSE r.temperature,
       humidity        |-> IF have THEN humidity.value ELSE r.humidity,
       has_gas         |-> gas.ok \/ r.has_gas,
       gas             |-> IF gas.ok THEN gas.value ELSE r.gas,
       has_light       |-> line.light]

\* ERR lowers a flag and leaves the value that goes with it.
UpdateReading(r, line) ==
  LET temperature == ParseDecimal(line.temperature, 2)
      humidity    == ParseDecimal(line.humidity, 3)
      gas         == ParseU32(line.gas)
      have        == temperature.ok /\ humidity.ok
  IN  [valid           |-> TRUE,
       has_environment |-> have,
       temperature     |-> IF have THEN temperature.value ELSE r.temperature,
       humidity        |-> IF have THEN humidity.value ELSE r.humidity,
       has_gas         |-> gas.ok,
       gas             |-> IF gas.ok THEN gas.value ELSE r.gas,
       has_light       |-> line.light]

\* The periodic sample of the node's loop: nothing is sent.
EndSample == step = "done" /\ step' = "idle" /\ UNCHANGED latest_reading

\* The light sensor is read (read_light) and the line is sent; it may be lost.
EndReadAll ==
  /\ step = "done" /\ step' = "idle"
  /\ \E light \in BOOLEAN :
       latest_reading' \in {latest_reading, UpdateReading(latest_reading, Reply(light))}

End ==
  /\ EndSample \/ EndReadAll
  /\ UNCHANGED <<chips, g_bme680, next, slot, count, number, sample, gas_valid, faults>>

Measure == (Begin \/ Exchange) /\ UNCHANGED latest_reading
PowerDips == Dip /\ UNCHANGED latest_reading

ReadNext == Measure \/ PowerDips \/ End

\* The loop of the node goes on, and every exchange returns.
ReadSpec ==
  /\ ReadInit /\ [][ReadNext]_readVars
  /\ WF_readVars(Measure) /\ WF_readVars(End)

-----------------------------------------------------------------------------
TypeOK ==
  /\ DOMAIN chips \subseteq {Addresses[i] : i \in DOMAIN Addresses}
  /\ \A a \in DOMAIN chips : chips[a].registers \subseteq Registers
  /\ step \in {"idle", "init", "setup", "trigger", "poll", "field", "done"}
  /\ slot \in DOMAIN Addresses /\ count \in 0 .. Len(Setup) - 1
  /\ step \in {"setup", "trigger", "poll", "field"} => Fitted
  /\ number \in 0 .. Numbers /\ gas_valid \in 0 .. Numbers /\ faults \in 0 .. MaxFaults
  /\ latest_reading.temperature \in -I32Max - 1 .. I32Max
  /\ latest_reading.humidity \in 0 .. I32Max /\ latest_reading.gas \in 0 .. U32Max

\* What latest_reading offers as the state of the case comes from one
\* measurement and is what was measured, below zero too and in the two
\* scales the driver uses: gas is never offered without the environment nor
\* beside that of another measurement, although each value has a flag and a
\* text of its own and outlives an ERR.
HoldsOneMeasurement ==
  /\ TypeOK
  /\ latest_reading.has_gas => latest_reading.has_environment
  /\ latest_reading.has_environment =>
       \E k \in 1 .. Numbers :
         /\ latest_reading.temperature = Measured[k].temperature
         /\ latest_reading.humidity = 10 * Measured[k].humidity
         /\ latest_reading.has_gas => latest_reading.gas = Measured[k].gas

\* No number that the node prints is refused by the parser of the base
\* station: a line that arrives sets has_environment when the environment
\* was read, and has_gas when gas was read with it.
HeardAsMeasured ==
  [][latest_reading' # latest_reading =>
       /\ latest_reading'.has_environment = sample.ok
       /\ latest_reading'.has_gas = (sample.ok /\ gas_valid # 0)]_readVars

\* Once the faults are over, whatever they left in the driver's cache, every
\* read of the sensor ends and succeeds, at either address; the heating time
\* leaves the chip enough of the 250 ms of polls.
ReadsRecover == <>[](step = "done" => sample.ok) /\ []<>(step = "done")
===============================================================================
