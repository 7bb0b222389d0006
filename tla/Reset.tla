--------------------------------- MODULE Reset ---------------------------------
(***************************************************************************)
(* `reset` (src/reset.c): over the transport if it can reset the chip, over *)
(* a GPIO of the host if not, or by the registers with -s.  On a host with *)
(* FTDI adapters processes follow one another: each looks for the two      *)
(* channels it is to use and does a hardware reset (HardReset) or a soft   *)
(* reset.  On a host with a driver they share a GPIO (GpioReset).          *)
(***************************************************************************)
EXTENDS HardReset, SequencesExt

CONSTANTS Procs, Pin,     \* see GpioReset
          Plugged,        \* the lists of channels that libftd2xx may show: sequences of
                          \* records with a loc, a serial number, a type and a port
          SerialNumbers,  \* what serial_num= may give, <<>> for nothing
          MaxLoc,         \* a location that no channel has: UINT32_MAX
          MaxChannels     \* MMDEBUG_MAX_CHANNELS

ASSUME ResetAssumption ==
  /\ Pin \in Nat /\ MaxChannels \in Nat /\ MaxLoc \in Nat
  /\ \A list \in Plugged : /\ list \in Seq(ToSet(list))
                           /\ \A i \in DOMAIN list : list[i].loc \in 0..(MaxLoc - 1)
                           /\ \A i, j \in DOMAIN list : list[i].loc = list[j].loc => i = j

VARIABLES host,      \* "ftdi" or "driver"
          shown,     \* the list of channels this process was shown
          wanted,    \* the serial number it was given
          chosen,    \* the locations and numbers of its SPI and reset channels
          soft,      \* the register access to come, "off" or "done"
          softret,   \* what soft_reset returns
          aon,       \* the AON registers that hold a latched sleep
          asleep,    \* the AON registers whose sleep is in force
          latch,     \* the bits of the latch register that are set
          copy,      \* the bits that this process has read
          before,    \* History: the latch register when the process began
          boot,      \* History: how this process has booted the chip since it latched it
          gpc, gret, glow, gsent, glast, gcrowded, gexported, gdirection, gvalue

search == <<shown, wanted, chosen>>
regs   == <<aon, asleep, latch>>
effects == <<regs, copy, boot>>
softs  == <<soft, softret, effects, before>>
gpios  == <<gpc, gret, glow, gsent, glast, gcrowded, gexported, gdirection, gvalue>>
rvars  == <<vars, host, search, softs, gpios>>

Gpio == INSTANCE GpioReset
          WITH pc <- gpc, ret <- gret, low <- glow, sent <- gsent, last <- glast,
               crowded <- gcrowded, exported <- gexported, direction <- gdirection,
               value <- gvalue

-------------------------------------------------------------------------------
\* The chips' first ports have an MPSSE.
Mid_CheckMPSSEAvailable(c) ==
  \/ c.type = "2232C" /\ c.port = "A"
  \/ c.type \in {"2232H", "4232H"} /\ c.port \in {"A", "B"}
  \/ c.type = "232H"

\* SPI_GetNumChannels counts the places in the list that have one.
Available(list)   == {i \in DOMAIN list : Mid_CheckMPSSEAvailable(list[i])}
NumChannels(list) == Cardinality(Available(list))

\* The place of channel number, up to which there are number + 1 channels.
DeviceOf(list, number) ==
  CHOOSE i \in Available(list) : Cardinality(Available(list) \cap 1..i) = number + 1

\* SPI_GetChannelInfo and SPI_OpenChannel.
ChannelInfo(list, number) == list[DeviceOf(list, number)]
OpenChannel(list, number) == list[DeviceOf(list, number)]

NoChannel == [loc |-> MaxLoc, number |-> MaxLoc]
NoneYet   == [spi |-> NoChannel, reset |-> NoChannel]
Forget == shown' = <<>> /\ wanted' = <<>> /\ chosen' = NoneYet

\* Mutant: the channels are taken in the order of the list.
SetSpiAndReset_Listed(chan, this) ==
  IF chan.spi = NoChannel THEN [chan EXCEPT !.spi = this]
  ELSE IF chan.reset = NoChannel THEN [chan EXCEPT !.reset = this] ELSE chan

\* ftdi_spi_set_spi_and_reset_chan: the lowest location and the one after it.
SetSpiAndReset(chan, this) ==
  IF this.loc < chan.spi.loc THEN [spi |-> this, reset |-> chan.spi]
  ELSE IF this.loc < chan.reset.loc THEN [chan EXCEPT !.reset = this] ELSE chan

Wanted(channel, serial) == IsPrefix(serial, channel.serial)

\* The loop of ftdi_spi_init, which goes on after a channel (of silent) without
\* information: what is chosen after the first i channels.
Choice(list, serial, silent) ==
  LET after[i \in 0..NumChannels(list)] ==
        IF i = 0 THEN NoneYet
        ELSE LET info == ChannelInfo(list, i - 1)
             IN IF i \in silent \/ ~Wanted(info, serial) THEN after[i - 1]
                ELSE SetSpiAndReset(after[i - 1], [loc |-> info.loc, number |-> i - 1])
  IN after[NumChannels(list)]

Found(chan) == chan.spi # NoChannel /\ chan.reset # NoChannel

\* What ftdi_spi_init may find in which list, for which serial number.
Findings ==
  {[list |-> list, serial |-> serial, chan |-> Choice(list, serial, silent)] :
     list \in Plugged, serial \in SerialNumbers, silent \in SUBSET (1..MaxChannels)}

RInit ==
  /\ Init /\ Gpio!Init
  /\ host \in {"ftdi", "driver"}
  /\ shown = <<>> /\ wanted = <<>> /\ chosen = NoneYet
  /\ soft = "off" /\ softret = 0
  /\ aon = {} /\ asleep = {} /\ latch = {} /\ copy = {} /\ boot = {} /\ before = {}

-------------------------------------------------------------------------------
\* morsectrl_ftdi_spi_init: it drives lines only after it has found and opened both.
Search ==
  /\ pc = "idle"
  /\ \E f \in Findings :
       /\ NumChannels(f.list) <= MaxChannels /\ Found(f.chan)
       /\ shown' = f.list /\ wanted' = f.serial /\ chosen' = f.chan
  /\ Open /\ pc' = "drive"
  /\ soft' \in {"off", "aon 0"} /\ softret' = 0
  /\ copy' = {} /\ boot' = {} /\ before' = latch
  /\ UNCHANGED regs

\* The last step of ftdi_spi_init, which forgets the list, and without -s ftdi_spi_reset.
\* A chip whose reset line is low has its registers at their defaults.
Hard_reset ==
  /\ soft = "off" \/ pc = "drive"
  /\ Reset_device
  /\ Forget
  /\ IF reset' = "low" THEN aon' = {} /\ asleep' = {} /\ latch' = {} ELSE UNCHANGED regs
  /\ UNCHANGED <<soft, softret, copy, boot, before>>

\* A process ends, of itself or killed.
Ends == End /\ Forget /\ soft' = "off" /\ UNCHANGED <<softret, effects, before>>

\* The firmware of a chip that is not in reset latches a sleep, or latches one and wakes.
Sleep ==
  /\ pc = "idle" /\ reset = "high"
  /\ aon' \in {{}, {0, 1}}
  /\ asleep' \in {{}, aon'} /\ latch' \in SUBSET {0, 1}
  /\ UNCHANGED <<vars, copy, boot>>

\* What else uses the chip between two processes.
OthersUse ==
  /\ Sleep \/ (Use /\ UNCHANGED effects)
  /\ soft' = "off"
  /\ UNCHANGED <<search, softret, before>>

-------------------------------------------------------------------------------
\* soft_reset returns, and the process ends.
SoftReturn(r) == soft' = "done" /\ softret' = r /\ pc' = "idle"

\* An access of soft_reset: it has its effect and the next one comes, or it fails, with
\* or without effect.  A chip that is held in reset does not answer.
SoftAccess(at, effect, next) ==
  /\ pc = "config" /\ soft = at
  /\ \/ reset = "high" /\ effect /\ soft' = next /\ UNCHANGED <<softret, pc>>
     \/ ((reset = "high" /\ effect) \/ UNCHANGED effects) /\ SoftReturn(-1)
  /\ UNCHANGED <<ret, round, lines, chip, search, before>>

ClearAon(i, at, next) ==
  SoftAccess(at, aon' = aon \ {i} /\ UNCHANGED <<asleep, latch, copy, boot>>, next)

ReadLatch ==
  SoftAccess("read latch", copy' = latch /\ UNCHANGED <<asleep, aon, latch, boot>>, "latch low")

\* In the chip the latch takes the AON registers over when its bit rises.
WriteLatch(bits) ==
  /\ latch' = bits
  /\ IF 0 \in bits \ latch THEN asleep' = aon /\ boot' = {} ELSE UNCHANGED <<asleep, boot>>
  /\ UNCHANGED <<aon, copy>>

\* Mutant: the bit is taken to be low at first.
LatchLow_Assumed ==
  SoftAccess("latch low", UNCHANGED effects, "latch high")

LatchLow  == SoftAccess("latch low", WriteLatch(copy \ {0}), "latch high")
LatchHigh == SoftAccess("latch high", WriteLatch(copy \cup {0}), "latch end")
LatchEnd  == SoftAccess("latch end", WriteLatch(copy \ {0}), "boot address")

BootStep(at, next) ==
  SoftAccess(at, boot' = boot \cup {at} /\ UNCHANGED <<asleep, aon, latch, copy>>, next)

BootAddress == BootStep("boot address", "clock")
Clock       == BootStep("clock", "interrupt")

\* The last write: soft_reset returns what it returns.
Interrupt ==
  /\ pc = "config" /\ soft = "interrupt"
  /\ \/ reset = "high" /\ boot' = boot \cup {"interrupt"} /\ SoftReturn(0)
     \/ boot' \in {boot, boot \cup {"interrupt"}} /\ SoftReturn(-1)
  /\ UNCHANGED <<ret, round, lines, chip, search, asleep, aon, latch, copy, before>>

Soft_reset ==
  \/ ClearAon(0, "aon 0", "aon 1") \/ ClearAon(1, "aon 1", "read latch") \/ ReadLatch
  \/ LatchLow \/ LatchHigh \/ LatchEnd \/ BootAddress \/ Clock \/ Interrupt

-------------------------------------------------------------------------------
\* Over a driver: without a pin, from the command line or the environment, and with -s,
\* which a transport without registers does not support, nothing is touched.
NoPin ==
  \E p \in Procs :
    /\ gpc[p] = "start"
    /\ Gpio!Return(p, -1)
    /\ UNCHANGED <<glow, gsent, gcrowded, gexported, gdirection, gvalue>>

Process == host = "ftdi" /\ (Hard_reset \/ Soft_reset) /\ UNCHANGED <<host, gpios>>

Between == host = "ftdi" /\ (Search \/ Ends \/ OthersUse) /\ UNCHANGED <<host, gpios>>

Driver ==
  /\ host = "driver"
  /\ NoPin \/ Gpio!Next
  /\ UNCHANGED <<host, vars, search, softs>>

RNext == Process \/ Between \/ Driver

RSpec == RInit /\ [][RNext]_rvars

\* A process that runs makes its next access; it need not be started.
FairRSpec == RSpec /\ WF_rvars(Process)

-------------------------------------------------------------------------------
\* The channels of the plugged adapters that the serial number of a process fits.
Candidates == {c \in ToSet(shown) : Mid_CheckMPSSEAvailable(c) /\ Wanted(c, wanted)}

\* If the serial number fits one adapter, its two channels are opened, the first for SPI
\* and the second for the reset lines, in whatever order the driver lists them and
\* whatever other adapters and ports there are.
OwnAdapter ==
  pc = "drive" /\ Cardinality(Candidates) = 2 =>
    LET spi == OpenChannel(shown, chosen.spi.number)
        pins == OpenChannel(shown, chosen.reset.number)
    IN {spi, pins} = Candidates /\ spi.loc < pins.loc

\* When soft_reset returns 0 no sleep is in force, the latch is as it was but for its
\* bit, which is low, and the chip has been booted since, whatever a reset that was
\* killed or failed half way has left behind.
SoftResets ==
  soft = "done" /\ softret = 0 =>
    asleep = {} /\ latch = before \ {0} /\ boot = {"boot address", "clock", "interrupt"}

LastReleases == Gpio!LastReleases
AllRelease   == Gpio!AllRelease

===============================================================================
