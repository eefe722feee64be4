--------------------------------- MODULE Pins ---------------------------------
(***************************************************************************)
(* The pins and the settings of the peripherals in the bcm2835 library.    *)
(* The calls name a pin, a channel or a mode; the hardware has registers   *)
(* of 32 bits in which many of them share a word, words that set or clear  *)
(* bits when they are written, and words that ask for a password.  A word  *)
(* is the set of its bits that are 1.                                      *)
(***************************************************************************)
EXTENDS Integers, Sequences, FiniteSets, FiniteSetsExt, SequencesExt

CONSTANTS
  SomePins, Modes, Masks,   \* pins, function codes and sets of pins that calls name
  LevelPins,                \* pins whose level changes
  Speeds, Dividers,         \* speeds in Hz, dividers of clocks
  MaxPinCalls

Pins == 0..53
Bits == 0..31
BitsOf(n) == {b \in 0..30 : (n \div 2^b) % 2 = 1}
Number(S) == FoldSet(LAMBDA b, n : n + 2^b, 0, S)
Shifted(S, k) == {b + k : b \in S} \cap Bits
Detectors == {"REN", "FEN", "HEN", "LEN", "AREN", "AFEN"}
Words ==
  {"FSEL", "OUT", "EDS", "PUD", "PUDCLK", "PADS", "SPI_CS", "SPI_CLK", "BSC_DIV", "BSC_A",
   "CM", "PWM_CONTROL", "PWM_RANGE", "PWM_DATA", "AUX_ENABLE", "AUX_CNTL"} \cup Detectors

VARIABLES
  mapped,            \* what bcm2835_init has mapped: "none", "gpiomem" or "root"
  regs,              \* the registers
  pull, high,        \* pulls of the pins, and the pins whose level is high
  i2c_byte_wait_us, spi1_speed,
  asked, result,     \* the last call, and what it returned: a word, {1} for true
  nAsked

settings == <<mapped, regs, pull, i2c_byte_wait_us, spi1_speed>>
vars == <<settings, high, asked, result, nAsked>>

INPT == 0
ALT0 == 4
ALT4 == 3
PUD_OFF == 0
PASSWRD == {25, 27, 28, 30}
CORE_CLK_HZ == 250000000
SPI0_CS_CS == {0, 1}
SPI0_CS_CPHA_CPOL == {2, 3}
SPI0_CS_CLEAR == {4, 5}
SPI0Pins == {7, 8, 9, 10, 11}
AuxPins == {16, 19, 20, 21}
BscPins == {2, 3}

-----------------------------------------------------------------------------
\* What the hardware does with a value that is written.
Put(rs, word, i, value) == [rs EXCEPT ![word][i] = value]
Store(rs, word, i, value) ==
  CASE word = "SET" -> Put(rs, "OUT", i, rs["OUT"][i] \cup value)
    [] word = "CLR" -> Put(rs, "OUT", i, rs["OUT"][i] \ value)
    [] word = "EDS" -> Put(rs, "EDS", i, rs["EDS"][i] \ value)
    [] word \in {"PADS", "CM"} ->
         IF PASSWRD \subseteq value THEN Put(rs, word, i, value \ PASSWRD) ELSE rs
    [] OTHER -> Put(rs, word, i, value)

bcm2835_peri_write(rs, word, i, value) == Store(rs, word, i, value)
bcm2835_peri_set_bits(rs, word, i, value, mask) ==
  bcm2835_peri_write(rs, word, i, (rs[word][i] \ mask) \cup (value \cap mask))

\* Mutant: 32 pins are counted to a word.
bcm2835_gpio_fsel_Word(rs, pin, mode) ==
  bcm2835_peri_set_bits(rs, "FSEL", pin \div 32, Shifted(BitsOf(mode), (pin % 10) * 3),
                        Shifted({0, 1, 2}, (pin % 10) * 3))
bcm2835_gpio_fsel(rs, pin, mode) ==
  bcm2835_peri_set_bits(rs, "FSEL", pin \div 10, Shifted(BitsOf(mode), (pin % 10) * 3),
                        Shifted({0, 1, 2}, (pin % 10) * 3))
FselAll(rs, pins, mode) == FoldSet(LAMBDA p, r : bcm2835_gpio_fsel(r, p, mode), rs, pins)

bcm2835_gpio_set(rs, pin) == bcm2835_peri_write(rs, "SET", pin \div 32, {pin % 32})
bcm2835_gpio_clr(rs, pin) == bcm2835_peri_write(rs, "CLR", pin \div 32, {pin % 32})
bcm2835_gpio_write(rs, pin, on) ==
  IF on THEN bcm2835_gpio_set(rs, pin) ELSE bcm2835_gpio_clr(rs, pin)
bcm2835_gpio_set_multi(rs, mask) == bcm2835_peri_write(rs, "SET", 0, mask)
bcm2835_gpio_clr_multi(rs, mask) == bcm2835_peri_write(rs, "CLR", 0, mask)
bcm2835_gpio_write_mask(rs, value, mask) ==
  bcm2835_gpio_clr_multi(bcm2835_gpio_set_multi(rs, value \cap mask), (Bits \ value) \cap mask)

\* The level of a pin is read from LEV0 or LEV1.
LEV(i) == {p % 32 : p \in {q \in high : q \div 32 = i}}
bcm2835_gpio_lev(pin) == (pin % 32) \in LEV(pin \div 32)
bcm2835_gpio_eds(pin) == (pin % 32) \in regs["EDS"][pin \div 32]
bcm2835_gpio_eds_multi(mask) == regs["EDS"][0] \cap mask
bcm2835_gpio_set_eds(rs, pin) == bcm2835_peri_write(rs, "EDS", pin \div 32, {pin % 32})
bcm2835_gpio_set_eds_multi(rs, mask) == bcm2835_peri_write(rs, "EDS", 0, mask)

\* bcm2835_gpio_ren, _fen, _hen, _len, _aren, _afen, and the same with clr_.
Detect(rs, word, pin, on) ==
  bcm2835_peri_set_bits(rs, word, pin \div 32, IF on THEN {pin % 32} ELSE {}, {pin % 32})

\* A pin takes the pull that PUD asks for when its clock goes up.
bcm2835_gpio_pud(rs, pud) == bcm2835_peri_write(rs, "PUD", 0, BitsOf(pud))
bcm2835_gpio_pudclk(rs, pin, on) ==
  bcm2835_peri_write(rs, "PUDCLK", pin \div 32, IF on THEN {pin % 32} ELSE {})
Clocked(before, rs) ==
  [p \in Pins |->
     IF p % 32 \in rs["PUDCLK"][p \div 32] \ before["PUDCLK"][p \div 32]
     THEN Number(rs["PUD"][0]) ELSE pull[p]]
bcm2835_gpio_set_pud(rs, pin, pud) ==
  LET clocked == bcm2835_gpio_pudclk(bcm2835_gpio_pud(rs, pud), pin, TRUE)
  IN  [pull |-> Clocked(rs, clocked),
       regs |-> bcm2835_gpio_pudclk(bcm2835_gpio_pud(clocked, PUD_OFF), pin, FALSE)]

-----------------------------------------------------------------------------
bcm2835_gpio_pad(group) == IF mapped # "root" THEN {} ELSE regs["PADS"][group]
bcm2835_gpio_set_pad(rs, group, control) ==
  IF mapped # "root" THEN rs ELSE bcm2835_peri_write(rs, "PADS", group, control \cup PASSWRD)

\* The functions that begin and end give the pins to the peripheral and back.
bcm2835_spi_begin(rs) ==
  bcm2835_peri_write(bcm2835_peri_write(FselAll(rs, SPI0Pins, ALT0), "SPI_CS", 0, {}),
                     "SPI_CS", 0, SPI0_CS_CLEAR)
bcm2835_spi_end(rs) == FselAll(rs, SPI0Pins, INPT)
Even(n) == n - (n % 2)
bcm2835_spi_setClockDivider(rs, divider) == bcm2835_peri_write(rs, "SPI_CLK", 0, BitsOf(divider))
bcm2835_spi_set_speed_hz(rs, speed_hz) ==
  bcm2835_spi_setClockDivider(rs, Even((CORE_CLK_HZ \div speed_hz) % 2^16))
bcm2835_spi_setDataMode(rs, mode) ==
  bcm2835_peri_set_bits(rs, "SPI_CS", 0, Shifted(BitsOf(mode), 2), SPI0_CS_CPHA_CPOL)
bcm2835_spi_chipSelect(rs, cs) ==
  bcm2835_peri_set_bits(rs, "SPI_CS", 0, BitsOf(cs), SPI0_CS_CS)
bcm2835_spi_setChipSelectPolarity(rs, cs, active) ==
  bcm2835_peri_set_bits(rs, "SPI_CS", 0, Shifted(BitsOf(active), 21 + cs), {21 + cs})

DIV_ROUND_UP(n, d) == (n + d - 1) \div d
AUX_SPI_CLOCK_MIN == 30500
AUX_SPI_CLOCK_MAX == 125000000
SPEED_MAX == 4095
bcm2835_aux_spi_CalcClockDivider(speed_hz) ==
  Min({DIV_ROUND_UP(CORE_CLK_HZ, 2 * Min({Max({speed_hz, AUX_SPI_CLOCK_MIN}), AUX_SPI_CLOCK_MAX})) - 1,
       SPEED_MAX})
bcm2835_aux_spi_begin(rs) ==
  bcm2835_peri_write(
    bcm2835_peri_write(bcm2835_peri_write(FselAll(rs, AuxPins, ALT4), "AUX_ENABLE", 0, {1}),
                       "AUX_CNTL", 1, {}), "AUX_CNTL", 0, {9})
bcm2835_aux_spi_end(rs) == FselAll(rs, AuxPins, INPT)

bcm2835_i2c_begin(rs) == FselAll(rs, BscPins, ALT0)
bcm2835_i2c_end(rs) == FselAll(rs, BscPins, INPT)
bcm2835_i2c_setSlaveAddress(rs, addr) == bcm2835_peri_write(rs, "BSC_A", 0, BitsOf(addr))
\* Nine clocks of the divided core clock, in microseconds.
ByteWait(cdiv) == (cdiv * 9) \div 250
bcm2835_i2c_setClockDivider(rs, divider) == bcm2835_peri_write(rs, "BSC_DIV", 0, BitsOf(divider))
Baudrate(baudrate) == Even((CORE_CLK_HZ \div baudrate) % 2^16)

PWMCLK_CNTL == 4
PWMCLK_DIV == 5
bcm2835_pwm_set_clock(rs, divisor) ==
  bcm2835_peri_write(
    bcm2835_peri_write(bcm2835_peri_write(rs, "CM", PWMCLK_CNTL, PASSWRD \cup {0}),
                       "CM", PWMCLK_DIV, PASSWRD \cup Shifted(BitsOf(divisor % 2^12), 12)),
    "CM", PWMCLK_CNTL, PASSWRD \cup {0, 4})
MS_MODE(channel) == IF channel = 0 THEN 7 ELSE 15
ENABLE(channel) == IF channel = 0 THEN 0 ELSE 8
bcm2835_pwm_set_mode(rs, channel, markspace, enabled) ==
  bcm2835_peri_write(rs, "PWM_CONTROL", 0,
    (rs["PWM_CONTROL"][0] \ {MS_MODE(channel), ENABLE(channel)})
      \cup (IF markspace THEN {MS_MODE(channel)} ELSE {})
      \cup (IF enabled THEN {ENABLE(channel)} ELSE {}))
bcm2835_pwm_set_range(rs, channel, range) ==
  bcm2835_peri_write(rs, "PWM_RANGE", channel, BitsOf(range))
bcm2835_pwm_set_data(rs, channel, data) == bcm2835_peri_write(rs, "PWM_DATA", channel, BitsOf(data))

-----------------------------------------------------------------------------
Nothing == {}
Truth(b) == IF b THEN {1} ELSE {}

Init ==
  /\ mapped \in {"none", "gpiomem", "root"}
  /\ regs = [w \in Words |-> [i \in 0..5 |-> {}]]
  /\ pull = [p \in Pins |-> PUD_OFF] /\ high = {}
  /\ i2c_byte_wait_us = 0 /\ spi1_speed = 0
  /\ asked = <<"none">> /\ result = Nothing /\ nAsked = 0

Called(call, answer) ==
  /\ nAsked < MaxPinCalls /\ nAsked' = nAsked + 1
  /\ asked' = call /\ result' = answer /\ UNCHANGED high
Same == UNCHANGED settings
\* A call that changes nothing but registers.
Sets(rs) == regs' = rs /\ UNCHANGED <<mapped, pull, i2c_byte_wait_us, spi1_speed>>

bcm2835_init ==
  \E found \in {"none", "gpiomem", "root"} :
    /\ Called(<<"init">>, Truth(found # "none"))
    /\ mapped' = found /\ UNCHANGED <<regs, pull, i2c_byte_wait_us, spi1_speed>>
bcm2835_close ==
  /\ Called(<<"close">>, Truth(TRUE))
  /\ mapped' = "none" /\ UNCHANGED <<regs, pull, i2c_byte_wait_us, spi1_speed>>

Gpio ==
  /\ mapped # "none"
  /\ \/ \E p \in SomePins :
          \/ \E m \in Modes : Called(<<"fsel", p, m>>, Nothing) /\ Sets(bcm2835_gpio_fsel(regs, p, m))
          \/ \E on \in BOOLEAN : Called(<<"write", p, on>>, Nothing) /\ Sets(bcm2835_gpio_write(regs, p, on))
          \/ Called(<<"lev", p>>, Truth(bcm2835_gpio_lev(p))) /\ Same
          \/ Called(<<"eds", p>>, Truth(bcm2835_gpio_eds(p))) /\ Same
          \/ Called(<<"set_eds", p>>, Nothing) /\ Sets(bcm2835_gpio_set_eds(regs, p))
          \/ \E d \in Detectors, on \in BOOLEAN :
               Called(<<"detect", p, d, on>>, Nothing) /\ Sets(Detect(regs, d, p, on))
          \/ \E pud \in 0..2 :
               /\ Called(<<"pud", p, pud>>, Nothing)
               /\ regs' = bcm2835_gpio_set_pud(regs, p, pud).regs
               /\ pull' = bcm2835_gpio_set_pud(regs, p, pud).pull
               /\ UNCHANGED <<mapped, i2c_byte_wait_us, spi1_speed>>
     \/ \E mask \in Masks :
          \/ Called(<<"set_multi", mask>>, Nothing) /\ Sets(bcm2835_gpio_set_multi(regs, mask))
          \/ Called(<<"clr_multi", mask>>, Nothing) /\ Sets(bcm2835_gpio_clr_multi(regs, mask))
          \/ \E value \in Masks :
               /\ Called(<<"write_mask", value, mask>>, Nothing)
               /\ Sets(bcm2835_gpio_write_mask(regs, value, mask))
          \/ Called(<<"eds_multi", mask>>, bcm2835_gpio_eds_multi(mask)) /\ Same
          \/ Called(<<"set_eds_multi", mask>>, Nothing) /\ Sets(bcm2835_gpio_set_eds_multi(regs, mask))

\* These look first whether the registers are mapped.
Guarded ==
  \/ \E group \in 0..2 :
       \/ Called(<<"pad", group>>, bcm2835_gpio_pad(group)) /\ Same
       \/ \E control \in {{}, {0, 3, 4}} :
            Called(<<"set_pad", group, control>>, Nothing) /\ Sets(bcm2835_gpio_set_pad(regs, group, control))
  \/ \E c \in {"spi_begin", "aux_spi_begin", "i2c_begin", "pwm"} :
       mapped # "root" /\ Called(<<"refused", c>>, Truth(FALSE)) /\ Same

Spi ==
  /\ mapped = "root"
  /\ \/ Called(<<"spi_begin">>, Truth(TRUE)) /\ Sets(bcm2835_spi_begin(regs))
     \/ Called(<<"spi_end">>, Nothing) /\ Sets(bcm2835_spi_end(regs))
     \/ \E d \in Dividers : Called(<<"spi_divider", d>>, Nothing) /\ Sets(bcm2835_spi_setClockDivider(regs, d))
     \/ \E s \in Speeds : Called(<<"spi_speed", s>>, Nothing) /\ Sets(bcm2835_spi_set_speed_hz(regs, s))
     \/ \E m \in 0..3 : Called(<<"spi_mode", m>>, Nothing) /\ Sets(bcm2835_spi_setDataMode(regs, m))
     \/ \E cs \in 0..3 : Called(<<"spi_cs", cs>>, Nothing) /\ Sets(bcm2835_spi_chipSelect(regs, cs))
     \/ \E cs \in 0..2, active \in 0..1 :
          /\ Called(<<"spi_polarity", cs, active>>, Nothing)
          /\ Sets(bcm2835_spi_setChipSelectPolarity(regs, cs, active))
Aux ==
  /\ mapped = "root"
  /\ \/ /\ Called(<<"aux_spi_begin">>, Truth(TRUE))
        /\ regs' = bcm2835_aux_spi_begin(regs)
        /\ spi1_speed' = bcm2835_aux_spi_CalcClockDivider(1000000)
        /\ UNCHANGED <<mapped, pull, i2c_byte_wait_us>>
     \/ Called(<<"aux_spi_end">>, Nothing) /\ Sets(bcm2835_aux_spi_end(regs))
     \/ \E s \in Speeds :
          /\ Called(<<"aux_speed", s>>, Nothing)
          /\ spi1_speed' = bcm2835_aux_spi_CalcClockDivider(s)
          /\ UNCHANGED <<mapped, regs, pull, i2c_byte_wait_us>>
I2c ==
  /\ mapped = "root"
  /\ \/ /\ Called(<<"i2c_begin">>, Truth(TRUE))
        /\ regs' = bcm2835_i2c_begin(regs)
        /\ i2c_byte_wait_us' = ByteWait(Number(regs["BSC_DIV"][0]))
        /\ UNCHANGED <<mapped, pull, spi1_speed>>
     \/ Called(<<"i2c_end">>, Nothing) /\ Sets(bcm2835_i2c_end(regs))
     \/ \E a \in {3, 127} : Called(<<"i2c_address", a>>, Nothing) /\ Sets(bcm2835_i2c_setSlaveAddress(regs, a))
     \/ \E c \in {<<"i2c_divider", d>> : d \in Dividers} \cup {<<"i2c_baudrate", s>> : s \in Speeds} :
          /\ Called(c, Nothing)
          /\ LET divider == IF c[1] = "i2c_divider" THEN c[2] ELSE Baudrate(c[2])
             IN  /\ regs' = bcm2835_i2c_setClockDivider(regs, divider)
                 /\ i2c_byte_wait_us' = ByteWait(divider)
          /\ UNCHANGED <<mapped, pull, spi1_speed>>
Pwm ==
  /\ mapped = "root"
  /\ \/ \E d \in Dividers : Called(<<"pwm_clock", d>>, Nothing) /\ Sets(bcm2835_pwm_set_clock(regs, d))
     \/ \E channel \in 0..1 :
          \/ \E ms, on \in BOOLEAN :
               Called(<<"pwm_mode", channel, ms, on>>, Nothing) /\ Sets(bcm2835_pwm_set_mode(regs, channel, ms, on))
          \/ \E d \in Dividers :
               \/ Called(<<"pwm_range", channel, d>>, Nothing) /\ Sets(bcm2835_pwm_set_range(regs, channel, d))
               \/ Called(<<"pwm_data", channel, d>>, Nothing) /\ Sets(bcm2835_pwm_set_data(regs, channel, d))

\* The level of a pin changes, and its enabled detectors see it.
LevelChanges(p) ==
  /\ nAsked < MaxPinCalls
  /\ high' = IF p \in high THEN high \ {p} ELSE high \cup {p}
  /\ LET seen == IF p \in high THEN {"FEN", "AFEN", "LEN"} ELSE {"REN", "AREN", "HEN"}
     IN  regs' = IF \E d \in seen : p % 32 \in regs[d][p \div 32]
                 THEN Put(regs, "EDS", p \div 32, regs["EDS"][p \div 32] \cup {p % 32}) ELSE regs
  /\ UNCHANGED <<mapped, pull, i2c_byte_wait_us, spi1_speed, asked, result, nAsked>>

Next ==
  \/ bcm2835_init \/ bcm2835_close \/ Gpio \/ Guarded \/ Spi \/ Aux \/ I2c \/ Pwm
  \/ \E p \in LevelPins : LevelChanges(p)
Spec == Init /\ [][Next]_vars

-----------------------------------------------------------------------------
(* What the registers mean: the settings of each pin, channel and device.  *)

InWords(word) == {p \in Pins : p % 32 \in regs[word][p \div 32]}
Field(word, i, first, n) == Number({b - first : b \in regs[word][i] \cap (first..(first + n - 1))})
View ==
  [func |-> [p \in Pins |-> Field("FSEL", p \div 10, 3 * (p % 10), 3)],
   out |-> InWords("OUT"), events |-> InWords("EDS"), pull |-> pull,
   detects |-> [d \in Detectors |-> InWords(d)],
   pads |-> [g \in 0..2 |-> regs["PADS"][g]],
   cs |-> Field("SPI_CS", 0, 0, 2), mode |-> Field("SPI_CS", 0, 2, 2),
   polarity |-> [c \in 0..2 |-> Field("SPI_CS", 0, 21 + c, 1)],
   spiclk |-> Field("SPI_CLK", 0, 0, 16), auxclk |-> spi1_speed,
   address |-> Field("BSC_A", 0, 0, 7), bscclk |-> Field("BSC_DIV", 0, 0, 16), wait |-> i2c_byte_wait_us,
   pwmclk |-> Field("CM", PWMCLK_DIV, 12, 12),
   pwm |-> [c \in 0..1 |-> [ms |-> Field("PWM_CONTROL", 0, MS_MODE(c), 1),
                            on |-> Field("PWM_CONTROL", 0, ENABLE(c), 1),
                            range |-> Field("PWM_RANGE", c, 0, 31), data |-> Field("PWM_DATA", c, 0, 31)]]]

Bit(b) == IF b THEN 1 ELSE 0
Gives(v, pins, f) == [v EXCEPT !.func = [p \in Pins |-> IF p \in pins THEN f ELSE v.func[p]]]
With(S, on, x) == IF on THEN S \cup {x} ELSE S \ {x}
\* The divider for a speed: even, at most the exact one, and no more than needed.
FitsSpeed(divider, speed) ==
  LET exact == CORE_CLK_HZ \div speed
  IN  divider % 2 = 0 /\ (exact < 2^16 => divider <= exact /\ exact < divider + 2)
\* The auxiliary clock is not faster than was asked for, and the next one would be.
FitsAux(divider, speed) ==
  /\ divider < SPEED_MAX => 2 * (divider + 1) * Min({speed, AUX_SPI_CLOCK_MAX}) >= CORE_CLK_HZ
  /\ divider > 0 => 2 * divider * Max({speed, AUX_SPI_CLOCK_MIN}) < CORE_CLK_HZ

\* The settings after a call, out of those before it.
Meaning(c, v, w) ==
  CASE c[1] = "fsel" -> [v EXCEPT !.func[c[2]] = c[3]]
    [] c[1] = "write" -> [v EXCEPT !.out = With(v.out, c[3], c[2])]
    [] c[1] = "set_eds" -> [v EXCEPT !.events = v.events \ {c[2]}]
    [] c[1] = "detect" -> [v EXCEPT !.detects[c[3]] = With(v.detects[c[3]], c[4], c[2])]
    [] c[1] = "pud" -> [v EXCEPT !.pull[c[2]] = c[3]]
    [] c[1] = "set_multi" -> [v EXCEPT !.out = v.out \cup c[2]]
    [] c[1] = "clr_multi" -> [v EXCEPT !.out = v.out \ c[2]]
    [] c[1] = "write_mask" -> [v EXCEPT !.out = (v.out \ c[3]) \cup (c[2] \cap c[3])]
    [] c[1] = "set_eds_multi" -> [v EXCEPT !.events = v.events \ c[2]]
    [] c[1] = "set_pad" -> IF mapped = "root" THEN [v EXCEPT !.pads[c[2]] = c[3]] ELSE v
    [] c[1] = "spi_begin" ->
         [Gives(v, SPI0Pins, ALT0) EXCEPT !.cs = 0, !.mode = 0, !.polarity = [x \in 0..2 |-> 0]]
    [] c[1] = "spi_end" -> Gives(v, SPI0Pins, INPT)
    [] c[1] = "spi_divider" -> [v EXCEPT !.spiclk = c[2]]
    [] c[1] = "spi_speed" -> [v EXCEPT !.spiclk = w.spiclk]
    [] c[1] = "spi_mode" -> [v EXCEPT !.mode = c[2]]
    [] c[1] = "spi_cs" -> [v EXCEPT !.cs = c[2]]
    [] c[1] = "spi_polarity" -> [v EXCEPT !.polarity[c[2]] = c[3]]
    [] c[1] = "aux_spi_begin" -> [Gives(v, AuxPins, ALT4) EXCEPT !.auxclk = 124]
    [] c[1] = "aux_spi_end" -> Gives(v, AuxPins, INPT)
    [] c[1] = "aux_speed" -> [v EXCEPT !.auxclk = w.auxclk]
    [] c[1] = "i2c_begin" -> [Gives(v, BscPins, ALT0) EXCEPT !.wait = w.wait]
    [] c[1] = "i2c_end" -> Gives(v, BscPins, INPT)
    [] c[1] = "i2c_address" -> [v EXCEPT !.address = c[2]]
    [] c[1] = "i2c_divider" -> [v EXCEPT !.bscclk = c[2], !.wait = w.wait]
    [] c[1] = "i2c_baudrate" -> [v EXCEPT !.bscclk = w.bscclk, !.wait = w.wait]
    [] c[1] = "pwm_clock" -> [v EXCEPT !.pwmclk = c[2] % 2^12]
    [] c[1] = "pwm_mode" -> [v EXCEPT !.pwm[c[2]].ms = Bit(c[3]), !.pwm[c[2]].on = Bit(c[4])]
    [] c[1] = "pwm_range" -> [v EXCEPT !.pwm[c[2]].range = c[3]]
    [] c[1] = "pwm_data" -> [v EXCEPT !.pwm[c[2]].data = c[3]]
    [] OTHER -> v

\* What a call returns.
Returned(c, v, r) ==
  /\ c[1] = "lev" => r = Truth(c[2] \in high)
  /\ c[1] = "eds" => r = Truth(c[2] \in v.events)
  /\ c[1] = "eds_multi" => r = v.events \cap c[2]
  /\ c[1] = "pad" => r = IF mapped = "root" THEN v.pads[c[2]] ELSE {}
\* The clocks that speeds give, and the time that goes with them: nine clocks, to
\* within the microsecond that is cut off.
Clocks(c, w) ==
  /\ c[1] = "spi_speed" => FitsSpeed(w.spiclk, c[2])
  /\ c[1] = "i2c_baudrate" => FitsSpeed(w.bscclk, c[2])
  /\ c[1] = "aux_speed" => FitsAux(w.auxclk, c[2])
  /\ c[1] \in {"i2c_begin", "i2c_divider", "i2c_baudrate"} =>
       w.wait * 250 <= w.bscclk * 9 /\ w.bscclk * 9 < (w.wait + 1) * 250

\* Although the settings share words of registers, a call sets what it names and
\* leaves every other pin, channel and device as it was; pulls are clocked into one
\* pin and no other, also when they are set again; a setting that takes a password
\* takes effect; and clocks come as near to the speed as they can.
PinsStep ==
  nAsked' # nAsked =>
    /\ View' = Meaning(asked', View, View')
    /\ Returned(asked', View, result') /\ Clocks(asked', View')
PinsSound == [][PinsStep]_vars
=============================================================================
