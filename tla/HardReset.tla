------------------------------- MODULE HardReset -------------------------------
(***************************************************************************)
(* `reset` over FTDI: ftdi_spi_reset (src/transport/ftdi_spi.c) pulls the  *)
(* chip's reset and JTAG reset lines, and sdio_over_spi_post_hard_reset    *)
(* (src/transport/sdio_over_spi.c) brings the chip back to where firmware  *)
(* can be loaded.                                                          *)
(*                                                                         *)
(* Every access to the adapter or the chip may fail, with or without       *)
(* effect, and the process may be killed between any two.  The lines and   *)
(* the chip outlive the process.                                           *)
(***************************************************************************)
EXTENDS Integers

VARIABLES pc,       \* the access to come, "done" or, between processes, "idle"
          ret,      \* what reset_device returns
          round,    \* of entering SPI mode, or of starting the clock
          reset,    \* the reset line
          jtag,     \* the JTAG reset line
          mode,     \* the chip's interface: "sdio" or "spi"
          clk,      \* its clock control: "early" or "unset"
          manifest, \* its host manifest pointer: "stale" or "null"
          pulse     \* History: this process has reset the chip, "yes" or "no"

lines == <<reset, jtag>>
chip  == <<mode, clk, manifest, pulse>>
vars  == <<pc, ret, round, lines, chip>>

Rounds == 3

Init ==
  /\ pc = "idle" /\ ret = 0 /\ round = 0
  /\ reset = "high" /\ jtag = "high"
  /\ mode \in {"sdio", "spi"} /\ clk \in {"unset", "early"} /\ manifest \in {"stale", "null"}
  /\ pulse = "no"

Return(r) == pc' = "done" /\ ret' = r

\* FT_WriteGPIOL.  While the reset line is low the chip has no SPI mode or clock.
SetLines(r, j) ==
  /\ reset' = r /\ jtag' = j
  /\ IF r = "low" THEN mode' = "sdio" /\ clk' = "unset" /\ pulse' = "yes"
                  ELSE UNCHANGED <<mode, clk, pulse>>
  /\ UNCHANGED manifest

\* An access to the lines that fails may or may not have had its effect.
FailingLines(r, j) == SetLines(r, j) \/ UNCHANGED <<lines, chip>>

-------------------------------------------------------------------------------
\* ftdi_spi_init: an error in opening the channels ends the process.
Open ==
  /\ pc = "idle"
  /\ pc' \in {"idle", "drive"}
  /\ round' = 0 /\ pulse' = "no"
  /\ UNCHANGED <<ret, lines, mode, clk, manifest>>

\* The reset pins become high outputs; the result is not looked at.
Drive ==
  /\ pc = "drive"
  /\ FailingLines("high", "high")
  /\ pc' = "config"
  /\ UNCHANGED <<ret, round>>

\* SPI_GetChannelConfig, for the pin states.
Config ==
  /\ pc = "config"
  /\ (pc' = "assert" /\ UNCHANGED ret) \/ Return(-1)
  /\ UNCHANGED <<round, lines, chip>>

AssertReset ==
  /\ pc = "assert"
  /\ \/ SetLines("low", "low") /\ pc' = "cs" /\ UNCHANGED ret
     \/ FailingLines("low", "low") /\ Return(-1)
  /\ UNCHANGED round

\* ftdi_spi_set_cs.
DeassertCs ==
  /\ pc = "cs"
  /\ (pc' = "release" /\ UNCHANGED ret) \/ Return(-1)
  /\ UNCHANGED <<round, lines, chip>>

\* Mutant: both lines are released at once.
Release_Both ==
  /\ pc = "release"
  /\ \/ SetLines("high", "high") /\ pc' = "release_jtag" /\ UNCHANGED ret
     \/ FailingLines("high", "high") /\ Return(-1)
  /\ UNCHANGED round

Release ==
  /\ pc = "release"
  /\ \/ SetLines("high", "low") /\ pc' = "release_jtag" /\ UNCHANGED ret
     \/ FailingLines("high", "low") /\ Return(-1)
  /\ UNCHANGED round

ReleaseJtag ==
  /\ pc = "release_jtag"
  /\ \/ SetLines("high", "high") /\ pc' = "spi" /\ UNCHANGED ret
     \/ FailingLines("high", "high") /\ Return(-1)
  /\ UNCHANGED round

\* CMD63 and CMD0; that they fail is ignored.
EnterSpi ==
  /\ pc = "spi"
  /\ mode' \in {mode, "spi"}
  /\ IF round + 1 < Rounds THEN round' = round + 1 /\ UNCHANGED pc
                           ELSE round' = 0 /\ pc' = "chip_id"
  /\ UNCHANGED <<ret, lines, clk, manifest, pulse>>

\* Mutant: what reading the chip id says is ignored as well.
ReadChipId_Ignored ==
  /\ pc = "chip_id"
  /\ pc' = "write_reset"
  /\ UNCHANGED <<ret, round, lines, chip>>

\* A chip that is not in SPI mode does not answer.
ReadChipId ==
  /\ pc = "chip_id"
  /\ (mode = "spi" /\ pc' = "write_reset" /\ UNCHANGED ret) \/ Return(-1)
  /\ UNCHANGED <<round, lines, chip>>

\* Mutant: an attempt that failed is not counted.
Again_Uncounted == pc' = "write_reset" /\ UNCHANGED <<ret, round>>

\* The loop's continue.
Again ==
  /\ round' = round + 1
  /\ IF round + 1 < Rounds THEN pc' = "write_reset" /\ UNCHANGED ret ELSE Return(-1)

\* The RESET register: the chip starts afresh, without its clock setting.
WriteReset ==
  /\ pc = "write_reset"
  /\ \/ clk' = "unset" /\ pc' = "write_clk" /\ UNCHANGED <<ret, round>>
     \/ clk' \in {clk, "unset"} /\ Again
  /\ UNCHANGED <<lines, mode, manifest, pulse>>

WriteClk ==
  /\ pc = "write_clk"
  /\ \/ clk' = "early" /\ pc' = "clear_manifest" /\ UNCHANGED <<ret, round>>
     \/ clk' \in {clk, "early"} /\ Again
  /\ UNCHANGED <<lines, mode, manifest, pulse>>

ClearManifest ==
  /\ pc = "clear_manifest"
  /\ \/ manifest' = "null" /\ Return(0)
     \/ manifest' \in {manifest, "null"} /\ Return(-1)
  /\ UNCHANGED <<round, lines, mode, clk, pulse>>

\* The process ends, of itself or killed.
End ==
  /\ pc # "idle" /\ pc' = "idle"
  /\ UNCHANGED <<ret, round, lines, chip>>

\* Between processes firmware is loaded, runs and sets its manifest pointer, and
\* what else uses the chip changes its modes.
Use ==
  /\ pc = "idle" /\ reset = "high"
  /\ mode' \in {"sdio", "spi"} /\ clk' \in {"unset", "early"}
  /\ manifest' \in {manifest, "stale"}
  /\ UNCHANGED <<pc, ret, round, lines, pulse>>

Reset_device ==
  \/ Drive \/ Config \/ AssertReset \/ DeassertCs \/ Release \/ ReleaseJtag
  \/ EnterSpi \/ ReadChipId \/ WriteReset \/ WriteClk \/ ClearManifest

Next == Open \/ Reset_device \/ End \/ Use

Spec == Init /\ [][Next]_vars

\* A process that runs makes its next access; it need not be started.
FairSpec == Spec /\ WF_vars(Reset_device)

-------------------------------------------------------------------------------
\* Every variable keeps to its type.
TypeOK ==
  /\ pc \in {"idle", "drive", "config", "assert", "cs", "release", "release_jtag", "spi",
             "chip_id", "write_reset", "write_clk", "clear_manifest", "done"}
  /\ ret \in {0, -1} /\ round \in 0..Rounds
  /\ reset \in {"low", "high"} /\ jtag \in {"low", "high"}
  /\ mode \in {"sdio", "spi"} /\ clk \in {"unset", "early"}
  /\ manifest \in {"stale", "null"} /\ pulse \in {"no", "yes"}

\* When ftdi_spi_reset returns 0, whatever failed and was tried again on the way, the
\* chip has been reset, both lines are released, it is in SPI mode, its clock has been
\* set after the last write to RESET and the old firmware's manifest is gone.
ResetWorks ==
  pc = "done" /\ ret = 0 =>
    /\ pulse = "yes" /\ reset = "high" /\ jtag = "high"
    /\ mode = "spi" /\ clk = "early" /\ manifest = "null"

\* "De-assert JTAG-reset after reset" (ftdi_spi.c:1145): but for Drive, the JTAG
\* line is never released while the chip is held in reset.
JtagAfterReset ==
  [][(jtag = "low" /\ jtag' = "high" /\ pc # "drive") => reset = "high"]_vars

\* However often the chip refuses, ftdi_spi_reset comes to an end.
ResetReturns == pc # "idle" ~> pc \in {"idle", "done"}

===============================================================================
