# TLA+ models of morse_cli

`morse_cli` is a command line tool, one process per command, that configures and
debugs Morse Micro Wi-Fi HaLow chips. Each process parses its arguments, opens one
of three transports to a chip, runs one command handler and ends. The process is
sequential. What makes it hard is everything around it: the chip and its firmware,
which run concurrently and outlive the process; the serial line, the SPI bus and
the netlink socket, which fail half way; other invocations of the tool, before it
or beside it; and the chip memory, the session file and the `/sys` directory that
they all share.

This directory holds TLA+ specifications of the parts of the program in which those
matter, the TLC configurations that check them on small instances, and TLAPS proofs
of the most important properties for every value of the constants. `PROJECT.json`
is the index: components, runs, mutants, the map from definitions to source lines,
findings, hazards and theorems.

Running it:

    tlc -config UartSlip.cfg UartSlip      # any .cfg with its module
    tlapm UartSlipProofs.tla               # the other ...Proofs modules likewise

## 1. Inventory

### 1.1 The program and its surroundings

    morsectrl.c (main)      arguments, config file, transport, handler, exit status
      |
      |-- config_file.c     transport, interface and options from the file of -f
      |-- argtable3/        argument tables and getopt (third party, modified)
      |-- one handler per subcommand: channel.c standby.c reset.c stats.c raw.c ...
      |        |
      |        |-- command.c       builds header + body, sends it, reads the status
      |        |-- elf_file.c      firmware and board configuration into chip memory
      |        |-- gpioctrl.c      a host GPIO through /sys/class/gpio
      |        v
      |-- transport/transport.c    the transports' operations behind one interface
               |-- nl80211.c             vendor commands through the driver
               |-- ftdi_spi.c            mailbox in chip memory, reset lines
               |      |-- sdio_over_spi.c    CMD52 / CMD53 / CMD63, keyhole windows
               |      `-- libmpsse/          the adapter's MPSSE (third party, modified)
               `-- uart_slip.c           framed commands over a serial line
                      |-- slip.c             the framing
                      `-- uart_linux.c uart_win.c   the tty

### 1.2 Components

| Component | State it keeps | Operations | What makes it correct |
|---|---|---|---|
| SLIP framing, `transport/slip.c` | receive buffer, its length, a pending escape | `slip_rx` per character, `slip_tx` per packet | a packet arrives octet for octet whatever preceded it; no write past the buffer |
| UART transport, `transport/uart_slip.c` | the `rand()` sequence; frames left in the UART | init, deinit, `uart_slip_send` | a caller gets the answer to its own command; the wait ends |
| FTDI transport, `transport/ftdi_spi.c` | command and response buffer, status and doorbell registers of the chip; adapter pins | init, deinit, `ftdi_spi_send`, `ftdi_spi_reset`, register and memory access | the same; a command is executed once; a reset leaves a usable chip |
| SDIO over SPI, `transport/sdio_over_spi.c` | the chip's keyhole registers | memory blocks, registers, the sequence after a reset | every octet at its address, whatever the alignment |
| Netlink transport, `transport/nl80211.c` | socket, response under construction | init, deinit, send, callbacks | a response is the one to the request, and complete |
| Transport layer, `transport/transport.c` | the chosen transport | choice by name, argument parsing, dispatch, buffers | a promise to callers that no transport breaks |
| Commands, `command.c` | - | `morsectrl_send_command` | errors negative, statuses positive, 0 only for a response |
| Main program, `morsectrl.c` | the `morsectrl` record | parse, init, handler, deinit, exit status | the device is used between init and deinit; 0 means success |
| Configuration file, `config_file.c` | the option strings of main | line by line, merge with the command line | the command line prevails |
| Firmware loader, `elf_file.c` | file position, chip memory | `load_elf` for programs and board configurations | memory holds the file's image or the load fails |
| Reset, `reset.c`, `gpioctrl.c` | a GPIO in `/sys` | over GPIO, FTDI, soft | the chip was reset and is released |
| Standby, `standby.c` | session file; standby state of the firmware | store, enter, exit, config, payload | asleep on the right channel, with the right filter |
| Channel, `channel.c` | one response buffer for three queries | set, query | what is printed is what was asked |
| Argument parser, `argtable3/argtable3.c` | getopt's statics; counts and values of each entry | two passes of `arg_parse`, `getopt` for the legacy handlers | what is accepted is what the usage text says, with the values typed; it ends |
| libmpsse, `transport/libmpsse/source` | open channels; the adapter's mode, queue and chip select | list, open, synchronise, transfer, close | what the wire carries is what was given; the adapter is in step again after a failure |
| Statistics, `stats.c`, `offchip_statistics.c`, `stats_format_*.c` | table of statistics; statics of the JSON formatter | query, with reset, two command versions, TLVs | nothing lost or counted twice; no read past the answer |
| Parameters, offloads, AP, mesh, RAW, TWT and other handlers | - | check arguments, one command or a get and a set | what reaches the firmware is what was asked for |
| Utilities, `utilities.c` | - | conversions, alignment, checksums | total, no silent truncation |

### 1.3 How they interact

* Calls only, downwards: main, handler, `command.c`, `transport.c`, a transport's
  operations table. Netlink's handlers are the only callbacks into the program;
  `slip_rx` and `slip_tx` are driven by and drive `uart_slip.c`.
* Static variables within the process: getopt's `place` and `optind` pass from main's
  parser to the legacy handlers, the JSON formatter's `first` from one core to the next.
* Shared state outlives the process everywhere: frames in the UART, the mailbox,
  its status bit, the keyhole and latch registers in the chip, the adapter's reset
  lines, its mode, chip select and undelivered octets,
  the session file, the exported GPIO, the firmware's channel and filter. Every
  process finds what an earlier, perhaps killed, process left there.
* Processes run side by side on `/sys/class/gpio`, the session file, a tty (no lock)
  and the driver; the FTDI adapter is opened exclusively.

### 1.4 What is hard

The hazards, each at its line, are in `PROJECT.json`. The kinds that occur: stale
state left by earlier processes (sequence numbers, mailbox, keyhole, response
buffer), lost and garbled frames, timeouts racing answers, one step of several
failing, a status misread as another (negative error, positive status, 0), kills
between two steps, processes side by side on a shared file or pin, and arithmetic
at window, block and buffer boundaries. Nothing in the tool itself is concurrent;
there are no locks and no deadlock among its own parts, but there are loops that the
outside must end: `uart_slip_send`, which can wait for ever, the readers of files and
of TLVs, the attempts of a reset, and the loops over the command line.

The repository has no tests; what the code promises is stated in comments and
doxygen blocks, which the findings quote.

## 2. Plan

Order: what loses or misattributes a command first, then what leaves a chip
unusable, then what misreports.

| # | Module | What | Status |
|---|---|---|---|
| 1 | `Slip`, `SlipLink`, `UartSlipProofs` | framing, and a sender and a receiver over a bad line | done, proved |
| 2 | `CommandChannel` | abstract specification: what a transport promises | done |
| 3 | `UartSlip`, `UartSlipProofs` | the UART transport, implements 2 | done, proved |
| 4 | `FtdiMailbox`, `FtdiMailboxProofs` | the FTDI mailbox, implements 2 | done, proved |
| 5 | `SdioMemblock`, `SdioProofs` | memory transfers under 4 and 8 | done, proved |
| 6 | `HardReset`, `ResetProofs` | reset over FTDI | done, proved |
| 7 | `GpioReset`, `ResetProofs` | reset over a GPIO | done, proved |
| 8 | `ElfLoad`, `ElfLoadProofs` | firmware and board configuration | done, proved |
| 9 | `Standby` | the session file and the firmware's channel and filter | done, proved in `MorseCliProofs` |
| 10 | `Handlers`, `MorseCli`, `ChannelInfo`, `MorseCliProofs` | main, the configuration file, the choice of a transport, every handler that sends one command, `channel` | done, proved |
| 11 | `Nl80211`, `StatsProofs` | request, acknowledgement, vendor reply, error, implements 2 | done, proved under 12 |
| 12 | `StatsFormat`, `Stats`, `StatsProofs` | the statistics over 11: retries, TLVs, formatters | done, proved |
| 13 | `Reset`, `ResetProofs` | 6 and 7 together, the search for the adapter's channels, the soft reset | done, proved |
| 14 | `ArgTable`, `Getopt`, `Arguments`, `ArgumentsProofs` | from the command line to the command sent | done, proved |
| 15 | `SdioCommand`, `SdioChip`, `SpiChannel`, `SdioBus`, `SdioProofs` | SDIO commands octet by octet over libmpsse | done, the channel's recovery proved |

Left to TLC: `Carried` of `SdioBus` and liveness (section 5).

Components that compose: `SlipLink` uses `Slip`; `UartSlip` stands on what
`SlipLink` shows of frames; `FtdiMailbox` on what `SdioMemblock` shows of accesses;
`UartSlip`, `FtdiMailbox` and `Nl80211` refine `CommandChannel`; `MorseCli` is composed
of `Handlers` and `ChannelInfo`; `Reset` of `HardReset` and `GpioReset`; `Stats` of
`Nl80211` and `StatsFormat`; `Arguments` of `Getopt` and `ArgTable`; `SdioBus` of
`SpiChannel`, `SdioChip` and `SdioCommand`, and what it shows is what `SdioMemblock`
takes a CMD52 and a CMD53 to do.

## 3. The modules and the code

Conventions. `pc` (`at` in `SpiChannel`) names the access, call or step to come; an action is that step
with everything it changes, and its name is the function's or the step's. `ret` is
the function's return value, 0 or -1 where only the sign matters. A variable
commented *History* is not in the program; properties need it. Operators whose name
has a suffix after an underscore (`Poll_Unbounded`) and a comment starting with
"Mutant:" are not part of the model: each is a plausible bug that makes the property
it is paired with in `PROJECT.json` fail. `TypeOK`, where a module has it, says what
values its variables take; it is the start of the inductive invariants of the proofs, and
checked for `slip_link` (`LinkTypeOK`). `SlipLink` and `Arguments`, whose proofs stand beside
others', have their own names for Init, Next and the like (`LinkInit`, `GInit`).

### Slip, SlipLink

`Slip` holds `slip_rx` as an operator from a decoder state and a character to a
state and a status, and `Escape`, the characters `slip_tx` makes of an octet.
`SlipLink` puts a sender and a receiver on the two ends of a line: the sender runs
`slip_tx` one `transport_tx_fn` at a time, the receiver is the loop of
`uart_slip_send`, which resets the state after everything but `IN_PROGRESS`.
A character is received in the step that sends it, which loses no behaviour: the wire
keeps its order and the decoder sees nothing else. A write can fail, a character can
be lost, and noise can insert any character.

### CommandChannel

What `morsectrl_transport_send` promises in `transport.h`, as an abstract
specification: commands one at a time, each executed at most once, perhaps after the
caller has given up, and answered only after it was executed, with its own answer.
`UartSlip`, `FtdiMailbox` and `Nl80211` implement it under the mapping `Calls` each of
them defines; a caller that is handed another command's answer maps to a state the
abstract specification does not have.

### UartSlip

`uart_slip.c` at the level of frames. `seed` and `nth` are the state of `rand()`: a
sequence number is the pair of the second the process started in and the number of
the draw, that is, sequences of different seeds are taken never to collide. `Send`
is `uart_slip_send` up to its receive loop, `RxIgnore`, `RxAccept` and `RxFail` the
loop's outcomes for a completed frame, in the order of the checks in the code. A
frame too long for the buffer leaves its rest in the UART (`Rest`). `Stop` ends the
process anywhere; its frames stay. The device echoes sequence numbers, drops damaged
frames and answers with any of `Sizes` octets. The CRC is taken to tell damaged
frames from whole ones.

### FtdiMailbox

`ftdi_spi_send`, one action per access to the chip in the order of the code. `Access`
gives every access three outcomes: it succeeds, it fails with its effect, or it fails
without. Writing the command and reading the response are memory transfers, of which a
CMD53 can fail while the last one succeeds: then the buffer is what it was or `Mixed`, and
the code goes on (`Tear`). The firmware takes the command that is in memory when it sees
the doorbell and raises the status bit when it has written its response; it is at liberty
to do so after the timeout, while the next command is being written or polled for. Nothing
in the mailbox names the command, and nothing in the code waits for the firmware, so that
such an answer is taken for the next command's. `crowded` has the commands that were sent
before the firmware was done with an earlier one, `torn` those of which a transfer failed
unnoticed; the properties say what is true of all others, those after them included. The
adapter is opened exclusively, so that processes follow one another.

### SdioMemblock

`sdio_over_spi_memblock_common`: sections that end at 64 KiB windows, three CMD52 for
the keyhole before each, then a CMD53 for the whole blocks and one for the octets
left, rounded up to words. The sum that finds the end of a section is a 32-bit one
and is 0 in the last window (`current_size`); the nine-bit count field holds 0 for a
whole block (`CountField`). A failed CMD52 ends the call, a failed CMD53 does not.
What is asked for is word-aligned and lies in the address space.

### ElfLoad

`load_elf`. A file is its length, what it is loaded as, and its headers; an octet of
it is its offset, so chip memory shows where each octet came from. `Pick` chooses the
blobs from the headers; of a file that has been cut short only the first `heads` of them
are its own and the others what the buffer held, and program headers that begin behind the
end are read for ever (`HeadersRead`). `Read` is one `fread`, `Write` a
`morsectrl_transport_mem_write` that returns 0, which it does if its last CMD53 has
succeeded: any of the octets before that one may be missing (`Concealed`, `lost`). One that
fails may have written any of them. What `malloc` left in the buffer is the value `Junk`.

### HardReset

`reset` over FTDI, one action per access to the adapter or the chip, from
`ftdi_spi_init` through `ftdi_spi_reset` to `sdio_over_spi_post_hard_reset`. Every
access can fail, with or without effect, as often as it likes; the process can be
killed anywhere; `Use` is what firmware and other programs do to the chip between
resets. External to the code: a chip in reset loses its SPI mode and clock setting,
a write to RESET loses the clock setting, and only a chip in SPI mode answers.

### GpioReset

`morsectrl_reset` over `/sys/class/gpio`, one action per access, for several
processes that may run one after the other or side by side. External: the line is
pulled high as an input, the kernel refuses to export a pin twice and to set the
value of an input. `SysfsPin` is the pin that `gpio_sysfs_write` really names, two
characters of the number.

### Standby

`standby store`, `enter <dir>`, `enter` alone (`Bare`), which sets no channel, and `config
<file>` as processes that share the session file and one firmware. A command ends with
status 0, with a positive status and no body (`command.c` names 110, a timeout), or with
an error; or the transport returns 0 without a response and the status is any (`unheard`
has those `enter`s that read 0). But for 0 in an answer it is open whether it was carried
out. `Open` cuts the file, `Close` is the `fclose` at which the buffered lines reach it.
`exit` and `payload` are single commands without state.

### Reset

`reset` in its three forms. A host has FTDI adapters or a driver. On the first, processes
follow one another; `Search` looks through the channels libftd2xx lists, numbered as
`SPI_GetNumChannels` and `SPI_GetChannelInfo` number those that have an MPSSE, and keeps
the two lowest locations whose serial number begins as the wanted one; what is opened is
then the hard reset of `HardReset` or the soft reset: the AON registers cleared, the bit
of the latch low, high and low, then boot address, clock and interrupt. Each access can
fail, with or without effect, and the process be killed after it. On the second the
processes share a GPIO (`GpioReset`). External: a rising edge of the latch's bit takes
over the AON registers; firmware and other users set them between processes.

### Nl80211, StatsFormat, Stats

`Nl80211` is the exchange of one command: the driver has done with it before the sending
call returns (`Driver`), and what it has to say, one of `Verdicts`, lies in the socket;
`Receive` is `nl_recvmsgs` with the handlers of `nl80211.c`, which returns at the reply,
and then `nl_wait_for_ack`. libnl counts the number it expects up with each
acknowledgement or error it reads, and refuses others. A receive that fails leaves
messages for later commands and makes the numbers disagree: nothing of these is taken,
but every command after it fails. `MayBreak` bounds that to one broken exchange in a run.

`Stats` runs on top: `Load` reads the firmware file's sections into `FormatOf`; for each
core selected a command is sent, and the deprecated one when it fails or is refused; the
walk reads a tag and a length at `pos` with `left` octets to go. An octet of an answer is
its place, and what is read where no TLV begins is any tag and any of `Lengths`, so that
the malformed and the cut off are included. `StatsFormat` says how many octets each
format reads and which tokens it prints; the JSON formatters are translated one by one,
with the statics that decide on commas.

### ArgTable, Getopt, Arguments

`ArgTable` is `arg_parse` with the getopt it brings along. An argument is a sequence of
syllables, strings the code only matches as a whole: "-", "=", the letter of an option,
a numeral. `getopt_internal` is a step per letter or word, with its `place` and `optind` as
variables that outlive a call. `arg_parse` goes twice over the line:
`Find` looks for the command, the first word that is no option's argument, then the
options are parsed up to it, the words taken, and the counts checked; `errors` counts the
errors that have been registered. `Getopt` has the handlers that call that same getopt themselves (`mpsw`,
`twt`, `duty_cycle`, `vendor_ie`) with the static state main has left, of which it resets
only `optind`; `Arguments` has main's table, `raw`, `set` and `get`, the checks and the
cuts to a field's width, and the command that is sent.

The reference is `Meaning`: one pass over the line by the grammar of the usage text, in
which `Read` adds an argument to what those before it have said. `Right` says that each entry has as many arguments as it may have, each of
them well formed; the properties compare.

### SdioCommand, SdioChip, SpiChannel, SdioBus

`SdioCommand` is what `sdio_over_spi.c` lays out for CMD63, CMD52 and CMD53, with CRC7
and CRC16, one transaction for command, response, and all blocks with room for the
chip's delays, and how it looks for the answers in what comes back. `SdioChip` is the
other end: for each octet it hears it sends one, and a `mood` says how long it waits
before its response and each block, how it answers and what is damaged. `SpiChannel` is
libmpsse below: opening, with its reset of the MPSSE and the synchronisation by bad
commands, `SPI_ReadWrite` piece by piece with the chip select, closing; and the
adapter, which keeps its mode, loopback, queue and chip select from process to process.
Every D2XX call can fail, with or without effect, a read can come short, and the process
can end anywhere. While a channel is opened or closed a failure ends the process; one in a
transfer does not: `SPI_ReadWrite` returns at once, and `sdio_over_spi.c` goes on with the
next CMD53, another CMD63 or the next command, over a chip that is still selected, an MPSSE
that still waits for data and a queue that holds earlier answers (`Send` in `SdioBus`).
What an MPSSE makes of data for a command, or of a command for data, is not laid down
anywhere: it is `Astray` from there on and may deliver any of `Leftovers`, until it is reset.

### Handlers, MorseCli, ChannelInfo

`MorseCli` is one run of the program. `line` is what the command line has, `opt` what
has come of it when the configuration file has been read; the origin of every option
is kept, not its text. `ReadLine` takes one line that says something; lines that are
passed over, comments and options of other transports do not change anything and are
not steps. `state` is the transport's: parsed, open, or gone after deinit.

`Handlers` has a record for each of the 34 subcommands that convert their arguments and
send one command: who parses the arguments, whether the command may go to a chip
directly, the argument counts at which it explains itself and at which it goes on, and
what it returns for wrong arguments, without memory, and when the answer says no.
`Call` in `MorseCli` runs them. `channel` runs step by step as `ChannelInfo` has it, an
instance whose `transport` and `ret` are main's: SET_CHANNEL and three queries into one
response buffer; how much of the buffer an answer fills depends on the transport
(`Answered`, `RefusedAnswer`). `load_elf`, `reset`, `standby` and `stats` do as they like
within what main can see; they have modules of their own.

What a command comes back with is a member of `Returns`: 0, a transport error (-2),
a negative status (-22), positive ones (1, and 110 for a timeout), and two that an exit
status cannot hold or should not (256 and 255). `nl80211` and `ftdi_spi` (`Silent`) also
return 0 without having filled in a response: an acknowledgement alone, no room in the
message, or a timeout. The status is then what the memory held, any of `Returns` in a
handler's one command (`sent = "unanswered"`), and in `channel`, which uses its buffer
again, that of the query before (`LeftStatus`).

`Option` follows the code in appending to the string of `-c`, which lies in argv:
whichever of the other option strings and the subcommand's name come behind it are
overwritten, in any combination, since options can be given in any order. `garbled`
says that the subcommand's name was; no handler is then found.

## 4. What is checked

Every property of a passing run has a mutant: a definition replaced by a plausible bug
with which the run fails.

| Run | States | Properties | Bounds, and why they are enough |
|---|---|---|---|
| `slip_link` | 349,668 | `LinkTypeOK` `IntactDelivered` `NoPhantomFrame` | Packets of up to 3 octets out of END, ESC, ESC_END and a plain one, buffer of 2, 3 faults. A packet can be too long, end in any special octet and follow a frame cut off at any state of the decoder, which remembers nothing but its buffer and one flag. |
| `uart_slip` | 102,061 | `MatchedResponse` `ChannelSpec` `SendReturns` | 3 commands, 3 seconds, 2 faults, answers of 1 or 3 octets for buffers of 1 or 3. Three processes, one stale answer behind another, an answer longer than the buffer. |
| `ftdi_mailbox` | 534,876 | `OwnResponse` `ExecutedOnce` `ChannelSpec` `SendReturns` | 3 commands, 2 polls, 3 faults: a failure, a torn transfer or a timeout, or all of them, before the command in question; two commands before one that has to be right again. |
| `ftdi_mailbox_timeout` | - | `ZeroMeansResponse` violated | The same with 2 commands and no faults. |
| `sdio_memblock` | 5,638 | `WithinWindow` `Faithful` | 8 windows of 16 octets, blocks of 8, words of 2, two values of the lower keyhole octet; 8 addresses and 10 lengths at and around every boundary, over up to four windows, the last one included; 2 calls, 1 fault. |
| `elf_load` | 73,508 | `ImageLoaded` `NothingElseWritten` `LoadReturns` | Every file of up to 3 headers out of 7 or 6 per kind, with segments that adjoin, overlap, are empty or in flash; files cut short within or before a segment or within the headers. Blocks of 2 octets and windows of 4, so that a segment takes up to three CMD53s; 1 fault, reported or hidden: a reported one is followed by no further access, and hidden ones in several segments are left to the proof. |
| `reset` | 294,236 | `ResetWorks` `OwnAdapter` `SoftResets` `LastReleases` `AllRelease` `JtagAfterReset` `ResetReturns` | Over FTDI none but the code's own three rounds, 4 channels, and 4 lists of up to 6 channels: one adapter alone, several in mixed orders of which one's serial number begins with another's, one of a single channel, ports without an MPSSE. Any number of processes and failures. Over a GPIO 3 processes, any number of failures: one may disturb another while a third comes after both. |
| `standby` | 613,366 | `SleepsOnOwnChannel` | 1 store, 2 enter with and 1 without a directory, 2 config, of which one file has no filter, 2 channels; up to symmetry of processes of a kind and of channels. The property is a safety property and names no process, so that the symmetry is sound. |
| `morse_cli` | 198,619 | `UsedOnlyOpen` `ClosedInTheEnd` `HonestExit` `FileYields` `OwnChannels` | A build with all three transports, 3 lines of a file that say something (one each for transport, interface and an option, in any order, or options repeated), up to 14 arguments, one more than any handler asks for. All subcommands, options and outcomes. |
| `stats` | 1,912,116 | `ShownWhole` `WalkBounded` `DoneAsAsked` `JsonWellFormed` `ChannelSteps` `StatsReturns` | 2 of the 3 cores, which the code treats alike, every option; a firmware file with sections of which one is no statistics', two records with one tag; answers that are refused, sound, of an unknown tag, and cut off by a buffer of 17 octets (`Room`); 0 and 8 (`Lengths`) where no TLV begins; one broken exchange. |
| `arguments` | 313,113 | `ParsedAsGrammar` `SentAsTyped` `ParseReturns` | 8,168 lines: up to two of 26 forms of main's options before `raw`; up to two options of `raw`, `mpsw`, `twt`, `duty_cycle` and `vendor_ie`, right and wrong, each with its words, `-b` without any included; parameters of `set` and `get`. Numerals at and around the widths and limits. `MaxErrors` 3 for arg_end's 20, `MaxIe` 3 for the length of a vendor element. |
| `sdio_bus` | 1,069,944 | `Carried` `Recovered` | Every command; CMD53 in both directions and modes, one and two blocks of 2 octets; delays from none to one too many, every damaged block, transfers of 24 octets, so that a CMD53 takes up to three; 1 failed call or short read (`MaxUpsets`), 3 attempts at an echo, 4 octets on their way late (`Late`), enough for both echoes of an earlier synchronisation; any number of processes, killed anywhere. Over a channel out of step a CMD63 is sent (`OutOfStep`), any number of times, so that it answers with what an earlier command has left; what an adapter gone astray delivers is nothing, two echoes or a response (`Leftovers`). Once out of step nothing but the adapter's state matters to `Recovered`, and `Carried` is stated for what was sent in step. |

What they show, in words:

* **Framing.** A packet whose own characters all arrive is decoded octet for octet, or
  refused if too long, whatever line noise, half frames and full buffers came before
  it; and a quiet line yields no frame that nobody sent.
* **UART.** As long as no two processes start in the same second, no caller gets the
  answer to another command, whatever killed processes and over-long answers have left
  in the UART, and the transport keeps the promise of `CommandChannel`. As long as
  nothing is lost, the wait, which has no timeout, ends.
* **FTDI.** The mailbox, which names no command, mixes none up and never rings the doorbell
  for an earlier one, whatever fails, times out or is killed, but for commands that were
  sent while the firmware still was at an earlier one, as `stats` does right after a
  timeout, and those of which a failed CMD53 went unnoticed. Apart from these, and from the
  value returned at a timeout, it keeps the same promise; once the firmware has settled,
  nothing of the earlier disorder is left. `ftdi_spi_send` returns even if the firmware
  never answers.
* **Memory.** What moves is the buffer, in order, without gap or overlap, each octet at
  its address; no CMD53 crosses a window, not even in the last window of the address
  space; the keyhole setting of an earlier section or failed call is never used.
* **Firmware.** A load of a whole file that returns 0 has left the file's image in chip
  memory, but for octets before the last CMD53 of a `mem_write`, whose failure
  `sdio_over_spi.c` hides, and for a board configuration of which `elf_file.c` has lost a
  failure. A load that fails anywhere changes nothing outside the image. It ends, unless
  something that is to be read begins behind the end of the file.
* **Reset.** A reset over FTDI that returns 0 has worked, whatever failed and was tried
  again on the way; JTAG stays in reset until the chip has left it; the attempts end.
  A reset over a GPIO that has the pin to itself and returns 0 has pulsed and released
  the line; resets that get into each other's way and all return 0 leave it released.
  If the serial number fits one adapter, its own two channels are the ones opened,
  whatever else is plugged in and in whatever order it is listed. A soft reset that
  returns 0 has booted the chip with no sleep in force, whatever an earlier one left.
* **Standby.** An `enter` with a directory that puts the firmware to sleep has set the
  channel it sleeps on, unless the transport returned 0 for a SET_CHANNEL that was not
  answered and the memory read as status 0. `enter` alone sets no channel.
* **Main.** No handler touches a transport that is not open, those that are called for
  the usage text included; what was opened is closed, except that `reset` leaves the FTDI
  adapter open until the process ends. The exit status is never 255, and it is 0 only when
  help or the version was asked for, the firmware accepted a command, or the transport was
  `nl80211` or `ftdi_spi` and took a command for answered that was not: only over a UART
  does 0 mean accepted. Excepted (`Unsure`)
  are commands for which the code says otherwise: `arp_periodic_refresh` returns 0 without
  memory, `dhcpc` when the answer's own code is an error, `ecsa_info` for a wrong number
  of arguments, `vendor_ie` for options that name nothing to do, and the handlers that
  have modules of their own. A configuration file does not replace the transport,
  the interface or the subcommand of a command line that has no `-c`; with `-c` it can.
* **Channel.** As long as no query has a positive status, or comes back in parts over FTDI,
  every channel printed is the one it is printed as, wherever the transport fails, but for
  the queries for which it returned 0 and filled nothing in. Those print what the buffer
  held, and the ones after them their own channel again.

* **Netlink and statistics.** The driver's answers are taken as `CommandChannel`
  promises, as long as no receive fails and no command is acknowledged without its data.
  Of a sound answer every known statistic is shown once, from its own octets, whatever
  was answered before; of a malformed or cut one the walk ends at most an overhead
  behind what was received. `stats` that returns 0 has read, or reset, each core
  selected and no other by one of its two commands. The members of all cores together
  are one JSON object, deprecated commands and hexdumps apart.
* **Arguments.** What `arg_parse` accepts, with its two passes and the stop, is what the
  grammar of the usage text accepts, with the same values; a command that is sent
  carries the values typed, if they fit their fields, and nothing else, but for `raw delete`,
  which carries zeros; and every line ends, with the exceptions of section 6.
* **SDIO.** A command that returns 0 was executed by the chip once and exactly, each block
  in its place, whatever the delays, refusals and damaged blocks, over however many
  transfers, if the channel was in step when it was sent. `Undisturbed` leaves out the
  others, which a process sends after a call has failed and which may return 0 for an earlier
  command's response, and those during which a read came short, except where it changes
  nothing. Whatever state an earlier process has left, the channel is in step
  once it is open, and stays so until a call fails: unless the octets it finds look like
  the two echoes it waits for, one after the other (`Misleading`), as those do that a process
  killed in the middle of opening has left.

Deadlock is checked for `slip_link`, `stats`, `arguments` and `sdio_bus`; the other
specifications stop when their commands, processes or calls are used up.

### Fairness

* `uart_slip`: weak fairness of the receive loop's step on a completed frame, since the
  process polls the UART as long as it runs, and of the device, which serves its queue.
  `SendReturns` is conditional on no fault, since a lost answer is waited for forever.
* `ftdi_mailbox`: weak fairness of the process's own steps. None for the firmware.
* `elf_load`, `reset` (`FairRSpec`): weak fairness of the process's own steps, which do not
  wait for anybody. Failures have no fairness; the process need not be started or killed.
* `stats` (`FairSpec`): weak fairness of the handler's steps. The driver's answer, an error
  at least, is in the socket before the sending call returns, so that a receive does not
  wait either.
* `arguments`: the process goes on until it has ended; nothing but itself takes part.

## 5. What is proved

For every value of the constants, without bounds on processes, commands and faults (the
`Max...` constants are arbitrary naturals), TLAPS proves:

| Module | Theorem | States |
|---|---|---|
| `UartSlipProofs` | `LinkTypeCorrect` | `slip_rx` never writes past its buffer, `slip_tx` never leaves its packet |
| | `PacketsIntact` | `IntactDelivered` |
| | `NoFrameOutside` | `NoPhantomFrame` |
| | `TypeCorrect` | types; the process waits exactly while its last command is outstanding |
| | `ResponsesMatch` | `MatchedResponse` |
| | `ImplementsChannel` | `ChannelSpec`: every step is a step of `CommandChannel` or a stutter |
| `FtdiMailboxProofs` | `TypeCorrect` | types |
| | `ResponsesOwn` | `OwnResponse` |
| | `CommandsExecutedOnce` | `ExecutedOnce` |
| | `ImplementsChannel` | `ChannelSpec` |
| `SdioProofs` | `TypeCorrect` | types of `SdioMemblock` |
| | `StaysInWindow` | `WithinWindow` |
| | `MovesBuffer` | `Faithful` |
| | `BusRecovers` | `Recovered` of `SdioBus` |
| `ResetProofs` | `TypeCorrect` | types of `HardReset`; no loop is entered more than three times |
| | `ResetCorrect` | `ResetWorks` |
| | `JtagReleasedLast` | `JtagAfterReset` |
| | `ResetIsHardReset` | `RSpec => Spec`: every step of `Reset` is one of `HardReset` or a stutter |
| | `ResetStaysCorrect` | the two properties of `HardReset`, of `Reset` |
| | `OwnChannelsFound` | `OwnAdapter` |
| | `SoftResetCorrect` | `SoftResets` |
| | `LastProcessReleases` | `LastReleases` |
| | `AllProcessesRelease` | `AllRelease` |
| `ElfLoadProofs` | `TypeCorrect` | types |
| | `LoadsImage` | `ImageLoaded` |
| | `LeavesRestAlone` | `NothingElseWritten` |
| `MorseCliProofs` | `TypeCorrect` | types; what is returned is a value that `ExitStatus` maps |
| | `OnlyOpen` | `UsedOnlyOpen` |
| | `Closed` | `ClosedInTheEnd` |
| | `StatusHonest` | `HonestExit` |
| | `CommandLinePrevails` | `FileYields` |
| | `ChannelsOwned` | `OwnChannels` |
| | `StandbyTypeCorrect` | types of `Standby` |
| | `SleepsWhereTuned` | `SleepsOnOwnChannel` |
| `ArgumentsProofs` | `ParsesAsGrammar` | `ParsedAsGrammar` |
| | `SendsAsTyped` | `SentAsTyped` |
| `StatsProofs` | `TypeCorrect` | types of `Stats` and `Nl80211` |
| | `WalkStaysBounded` | `WalkBounded` |
| | `ShowsWhole` | `ShownWhole` |
| | `StatsDoneAsAsked` | `DoneAsAsked` |
| | `JsonIsWhole` | `JsonWellFormed` |
| | `TakesAnswersInTurn` | `ChannelSteps`: every step of an exchange is one of `CommandChannel` |

**UartSlipProofs**, of `SlipLink`, assumes that the special characters are distinct octets, packets are not
empty and the buffer has room for one octet. `LinkTypeOK` is inductive together with
`Position` (where `slip_tx` is in its packet). `IntactDelivered` speaks of the last
step of a packet; what makes it hold is a statement about every step before it,
`Sync`: as long as nothing has gone wrong since `slip_tx` was called, either the
receive buffer is the part of the packet that has been sent and an escape is pending
exactly between the characters of an escape, or the packet was already refused. The
leading END establishes it from any state (`LeadingEndClears`), which is the reason
`slip_tx` sends one; `AppendExtends` carries it over an octet.
`NoPhantomFrame` needs another invariant, `Quiet`, since a frame outside a packet can only
come of what an earlier one has left: as long as there was no fault, an escape is pending
exactly between its two characters, and between packets the buffer is empty.

Of `UartSlip`, it assumes `SeparateSeconds`; the assumption is needed, since TLC finds
`MatchedResponse` violated in `uart_slip` with `SeparateSeconds = FALSE`.
`MatchedResponse` is not inductive: it depends on what the line holds. The invariant adds `Drawn` (no sequence number comes from the future of the
generator), `Unique` (no two commands have the same), `Traced` (a whole frame carries
the number of the command it belongs to, and one from the device is of a command it has
executed) and `WaitsForOne`. Then a frame that passes the check on the number is the
current command's. `ImplementsChannel` goes through the steps: `Send` maps to `Issue`,
`Device` to `Execute` or a stutter, `RxAccept` to `Answer`, failures and the end of the
process to `Fail`.

**FtdiMailboxProofs** assumes nothing but that the bounds are naturals: in particular not
that the firmware is idle when a command is sent. The two buffers in memory do not say
whose command or response they hold; the
invariant's part `Alone` says it, of a command that was sent when it was, from the step the
process is at: before the doorbell may ring nobody is executing, and the status bit is low
once it has been cleared; when the doorbell is up, the command in memory is the current one,
or was torn; when the bit is seen high, the response is the current command's. `History`
relates it to what was executed and handed over: a command that is in memory while the
doorbell rings has not been executed, or is one of the `Excused`. Nothing is carried from
one command to the next but `Settled`, which is why disorder ends with it. The refinement
goes through the steps as that of `UartSlip`.

**SdioProofs** assumes, for `SdioMemblock`, what the code's constants and its callers fulfil: a window is
a multiple of a block, a block of a word and the space of a window; requests are aligned
and lie in the space. Most of it is arithmetic on quotients and remainders. `WithinWindow`
and `Faithful` speak of what was moved, so the invariant says of each step where it is:
`Positioned`, section and buffer go ahead together and the section ends at the window or the
request; `Selected`, each CMD52 has set its part of the keyhole for this section and no
other; `Moved`, what has been moved so far is one piece without gap or overlap from the
start of the buffer to `data`. That the last window, in which the sum overflows to 0, is no
exception is `current_size`'s lemma.
`BusRecovers` is about the adapter that processes hand on to each other, in any state and
with any number of octets on their way. Its invariant `BusInv` has four parts that hold
always: `Adapter`, what the steps of opening have set up so far, an adapter gone astray
included; `Nodes`, libmpsse's list holds the one channel; `Transfers`, what has been sent is
a part of what is to be; and `Waiting`, what is still to be delivered. `Quiet` has, for a
process of which no call has failed and which has not been misled, what the adapter is and
has to deliver at each step of a transfer. `Waiting` carries the argument for
`Mid_SyncMPSSE`. Unless they are `Misleading`, the octets that an earlier process has left
have no echo of the first command with one of the second behind it (`Clear`), and that does
not change when the code takes some of them or new echoes of the first command come behind
them. So whatever has been taken for an echo of the first one, all that is found of the
second is its own, which is the last octet to come (`EchoLast`), and nothing is left behind
it. The exception is needed: with `Late = 4`, as in the run, TLC finds the adapter out of
step when it is left out, since the two echoes that a process killed inside `Mid_SyncMPSSE`
has left pass for the next process's own. Commands, chips, moods, transfer sizes, what an
adapter gone astray delivers and the number of faults are arbitrary.
Two lemmas, `FlatExists` and `ClockedExists`, show that the recursive functions which lay out
a transaction and run the chip are defined, from which the lengths of both follow.

**ResetProofs**. `ResetWorks` speaks of the end; the invariant of the hard reset adds
`Achieved`, what has been achieved by the time the process makes each access, and bounds the
rounds. `Reset` is then shown to implement `HardReset`, so that these theorems hold of it
too. `SoftAchieved` does for the soft reset what `Achieved` does for the hard one; it needs
that the latch is as the process found it but for the bit it works on, since that is written
from a copy. `OwnAdapter` speaks of what the search has chosen: by induction over the loop,
whatever it has chosen is a channel that was listed and fits the serial number, and the SPI
channel's location is below the reset channel's (`Chosen`). For the GPIO, `Alone` says where
the pulse is of the process that has the pin to itself, and `Held` who must still let go of
a chip that is held in reset: a process that has yet to release it, or one that was killed
or returns -1.

**ElfLoadProofs** assumes that a file's segments lie at addresses of the chip, and nothing of
what fails. The invariant `Progress` has what chip memory is after the blobs before `ii`:
each address that no `mem_write` has kept from its caller holds the octet
of the last of them that covers it, or what it held. That the last one decides, as for
overlapping segments it does in the image, is why the invariant speaks of all of them, and
why an address is no longer among the `lost` once a later blob has been written over it.
That a program's reported failure is not lost is in it too (`broken` implies that `ret` is
-1), so that `ImageLoaded` holds of a program whatever has failed.

**StatsProofs** assumes types: the lengths are naturals, the firmware file's sections and
their records are sequences and its formats known.
Without a broken exchange the socket holds, at each call inside `send`, just what the driver
said to this request (`Exchange`); so the buffer holds the answer to the last request, cut to
its room, when the walk begins, and what was shown is what stands before `pos` (`Showing`).
`Walking` is `left`'s account, and holds of any answer. `Asked` and `Reading` say which cores
were read by the turn of each. The recursive functions which say where a TLV begins, and how
many records are shown before it, are first shown to exist.
For `JsonWellFormed`, `Leads(s, v, t)` says that tokens `v` take a reader of JSON from `s` to
`t`, and that one after the other does (`LeadsOn`). A value is what leads, wherever a value may
come, to what follows one (`IsValue`); members and lists are said alike, `Object` and `Array`
make values of them, and so each formatter of the table is shown to print one. The invariant,
`Forming`, has the reader of what has been printed so far inside the object's brace, before a
key or, once `first` is cleared, before a comma.

**MorseCliProofs** assumes that the build has transports out of the three. What is needed
of the table of handlers is said of one record: `Polite`, a legacy handler explains itself
when argc is 0; `Coded`, what it returns of its own is one of `Codes`; `Honest`, none of that
is 0. Each is shown for every row and carried over to the table. `UsedOnlyOpen` and
`ClosedInTheEnd` then follow from `Handling` (a handler that needs the transport is only
called when it is open, and it is open nowhere else), `HonestExit` from `Reported` (what
`ret` says once a handler has ended, and of a command without an answer that the transport is
`Silent`), `OwnChannels` from `Owned` (the response buffer keeps
its length until a query is refused, so that an answer fills it whatever an unanswered query
before it has printed).
`SleepsOnOwnChannel` of `Standby` is proved here under `~Parallel`: processes follow one
another, as the finding on the session file requires. `Prepared` says that one process at
most is midway, and that before the last command of an `enter` with a directory, whose
SET_CHANNEL was answered, the firmware is tuned by it to its channel.

**ArgumentsProofs** assumes of the constants that lines are sequences of arguments, arguments
of syllables, that main's argv is not empty, that numerals stand for integers and percentages
for naturals, and that the letter of mpsw's `-b` is no numeral. For `ParsesAsGrammar` it follows two recursions side by side:
arg_parse goes over the line, twice and with scans for the command in between, letter by letter and in variables that
it resets; `Meaning` reads it once. What they have in common is `After(n)`, the reading of
the first n arguments, which the proof defines by its step (`Readings` is shown to exist by a
smallest counterexample). The invariant, `ParsingInv`, has a part for each pass. In the
tagged ones the parse is either `On` the line, in which case what has been read up to
`optind` and the letters of a group up to `place` is good so far and, in the second pass, is what
`got` has; or `Off` it, behind what makes the line a bad one. `Ends` says where the first
pass stops and `Edge` how far the second one goes: no further than the word that `Find`
has found, up to which the two passes see the same. `Tagged` has the options' values when
the words begin, `Placed` the words that have been given to entries and `Missing` that one
got none, so that arg_parse_check finds that out (`Accepts`, `Rejects`). That an error
registered once leaves the line wrong needs `Grows`: what has been read is never taken back,
and so neither is what makes it fail. All this is for any table that is `Sound`: no entry takes more
than one value, options may be left out and words may not, and if there is a stop it is the
only word. `MainSound` and `RawSound` show that the tables of main and of `raw` are. The scope is
that of the property: no dash in a group of short options (`NoDashes`).

`SendsAsTyped` adds an invariant of the stages behind main's, `SentInv`. While main parses,
`Stopped` says that `idx` is the place of the word that stops it and that the words of the
line are what stands from there on: so the argv a command gets is `SubLine`. For `raw` the
rest is `ParsesAsGrammar` once more, with what each conversion makes of a number that fits
its field. For the loops over getopt, `LoopInv` has what has been found in terms of the
reading of the line up to `optind`: `AllHold`, that each value is the conversion of the last
one given. Two things are not in that reading. mpsw's `-b` takes a second word, which
the grammar passes over, or none, so that `UpperHolds` says of the second bound that it is
the last such word up to here and `Clear` that the loop never comes to stand on one; and
that vendor_ie has one command at most, `OneCommand`, comes from the handlers and not
from the line. `Inside` is the middle of a group of letters, where the same holds of the flags
read so far. At the end of the loop `Complete` follows: what is left of the line adds no
option to those read, and unless mpsw has words to spare no second bound is left behind.
The lemmas `MpswSent`, `TwtSent`, `DutyCycleSent` and `VendorIeSent` then read
each command off the values.

Not proved, and checked by TLC alone:

* `SendReturns`, `LoadReturns`, `ResetReturns`, `StatsReturns`, `ParseReturns`: liveness under
  fairness, which the prover has no rules for.
* `Carried`: as it stands it is not true of every CRC and every mood of the chip, since a damaged
  block can have the right checksum by chance; TLC's moods are none of these.
* the violation of `ftdi_mailbox_timeout`, which is a trace.

## 6. Where the code and its comments disagree

Shown by a run, with its trace: a timeout of `ftdi_spi_send` is returned as 0, and the
status is then read from an uninitialised response (`ftdi_mailbox_timeout`). Shown by a
run with another constant:

* Two processes started in one second number their commands alike, so that one can take
  the answer to another's command, against `uart_slip.c:28` (`uart_slip` with
  `SeparateSeconds = FALSE`).
* `standby enter` sends an uninitialised SET_CHANNEL when it finds the session file
  between the `fopen` and the `fclose` of a store, or after one killed there, against
  `standby.c:558` (`standby` with `Parallel = TRUE` and the invariant `LoadedWasSaved`).

Met while modelling; the models follow the code and the properties are stated so that
they hold of it:

* `slip_tx` drops the results of writing the ENDs and overwrites that of every octet
  but the last, against `slip.h:92`.
* `sdio_over_spi_memblock_common` overwrites the result of a failed CMD53 with that of
  a later one, against `sdio_over_spi.h:56` (`broken` in `SdioMemblock`). So a program load
  can return 0 without having written all of a segment (`lost` in `ElfLoad`), and a command
  or a response of more than one CMD53 be torn without anybody knowing (`torn` in
  `FtdiMailbox`, `PartsAnswered` in `ChannelInfo`).
* After a timeout of `ftdi_spi_send` nothing waits for the firmware: the next command, which
  `stats` sends at once (`stats.c:248`), is handed the late answer (`crowded`).
* `load_bcf_sections` returns 0 when a section could not be loaded, the `ret` of
  `elf_file.c:514` being local to the loop (`Failure` in `ElfLoad`); and
  `elf_file_load_binary_data` goes on when the file is too short, with uninitialised
  octets, or, when the offset is beyond the file's end, for ever (`MoreInFile`,
  `BeginsInside`). Headers behind the end of a file that has been cut short are read from
  what the buffer held (`heads`); those of a board configuration file from behind the
  buffer, which may as well crash.
* `ftdi_spi_init` does not look at whether the reset lines could be driven high
  (`Drive` in `HardReset`).
* `gpio_sysfs_write` writes two characters of a pin's number, however many it has
  (`SysfsPin` in `GpioReset`).
* `standby store` reports success when the query was refused or the file could not be
  written (`Query`, `Close` in `Standby`).
* `channel` prints a refused query with what the response buffer held before (`Show` in
  `ChannelInfo`), and so a query that was not answered though the transport returned 0,
  with the status of the one before (`LeftStatus`).
* Where a transport returns 0 without a response, the exit status is that of memory nobody
  filled in (`Silent` in `MorseCli`), and `standby enter` may put the firmware to sleep on a
  channel it never got (`unheard` in `Standby`).
* A line of a configuration file with an option of the transport overrides, for
  `ftdi_spi`, which takes the last value, the same option of `-c`, and makes one device
  name of two for `uart_slip`, against `config_file.c:22`, "Values read will not override
  any provided on the command line"; the option is appended in argv itself, over the
  strings that follow there (`Option` in `MorseCli`).
* `-h` exits with 2, since nobody takes back the parser's -1 (`ParseArgs`).
* `arp_periodic_refresh`, `dhcpc`, `ecsa_info` and `vendor_ie` can return 0 for a command that was not
  sent or not accepted (`Unsure`).
* `standby_session_load` (`standby.c:382`) and its callers accept a file without lines.

Of the netlink transport and the statistics:

* `NLA_PUT` jumps to `nla_put_failure` with `ret` still 0, so a command that found no room
  for an attribute is reported as sent and answered (`SendFails` in `Nl80211`); so is one
  that is acknowledged without data (`nl80211.c:431`).
* The deprecated command is answered into the buffer whose length the refusal of the new
  one has cut, and its text is cut to that (`ShownWhole` speaks of the new command).
  With `-j` it is printed as it is inside the JSON object, as are the hexdumps of unknown
  tags; after a failure the object's `{` is never closed (`JsonWellFormed`'s premise).
* `get_override_firmware_path` tests `CONFIG_TRANS_NL80211` (`stats.c:68`), which no build
  defines; elsewhere it is `ENABLE_TRANS_NL80211`.
* The formatters of structures read their fixed size whatever the TLV's length says
  (`Reads` in `StatsFormat`).

Of the FTDI adapter and the SDIO bus:

* `FT_OpenChannel` and `FT_GetChannelInfo` return `FT_OK` with nothing filled in when no
  device has the number asked for (`DeviceOf` in `Reset`). A reset pin number of 4 or more
  makes an empty mask in `ftdi_spi_init`, and resets pulse nothing.
* When `FT_Read` comes short, `SPI_ReadWrite` repeats the rest of the transfer from the
  octets read: they are sent again, and if the command is among them it is executed again
  (`ReadShort` in `SpiChannel`). After an error it leaves the chip selected and the
  adapter's answers in its queue, which the next command of the process reads and may take
  for its own (`Send` in `SdioBus`, `InStep` in `Carried`'s premise).
* Opening takes the echoes that an earlier process's opening has left for its own, if both
  are still to be delivered, and the channel is then out of step (`Misleading`).
* The blocks of a CMD53 are searched with a stride of 544 octets in a buffer laid out for
  545; with seven or more answers at the last moment the search ends behind the buffer
  (`Acknowledged` in `SdioCommand`). `sdio_over_spi_find_resp` looks at three octets only.
* `SPI_Write`, which no command uses, sends the beginning of its buffer in every transfer.
* `Mid_SendReceiveCmdFromMPSSE` does not free its buffer on an error.

Of the arguments:

* `-d-`, a dash among short options, is looked at for ever by arg_parse (`NoDashes`), as is
  `-b7` after other bounds by `mpsw -b 5 10 -b7`, whose loop takes back `optind`
  (`AttachedBounds`); `mpsw -b5 10` is refused.
* getopt here does not permute, so that options after a word are passed over in silence:
  `twt conf x -w 5` sends zeros. `twt conf` takes `-m`, `-e` and `-t`, which are for
  other commands, and drops them.
* Values are cut before they are checked: `raw` takes 257 slots for 1, AID 65537 for 1 and
  sends a negative identifier; the lower bound of `praw`'s validity is tested on its
  periodicity (`raw.c:295`); `set` and `twt -d 4294967297` keep the low 32 bits; an empty
  string is 0.
* `raw delete` jumps past the setting of the command's length (`raw.c:195`): all its room,
  zeroed, is sent as options, of which the first has the tag 0, `SLOT_DEF` (`ClearedRoom`).
* "010" is 10 where argtable reads it and 8 where `strtol` with base 0 does; `arg_csi`
  takes `5x` for 5; a beginning that fits several parameters' names takes the first.
* `--interface ''` is refused, `-i ''` is accepted.
* `vendor_ie -o zzz` adds the OUI 00:00:00, since the result of `hexstr2bin` is dropped
  (`vendor_ie.c:213`); without a command it returns 0.
* `duty_cycle` multiplies the float by 100 and truncates: 0.53 becomes 52 hundredths, and
  `nan` and what follows a number are accepted. `disable` and `airtime` ignore the rest of
  the line.

## 7. What is not modelled

* Pure input and output: the tty drivers, printing (but for the shape of the JSON).
* Two processes on one tty at once, each taking characters of the other's answer: the
  framing and the protocol would have to be one model, beyond what TLC can explore.
* Values and ranges of the commands that `Arguments` and `Getopt` do not have: `Handlers`
  knows them as right or wrong. So it is with the `-c` options of the FTDI transport.
* The direct-chip check and the transport's part of the command line are in `MorseCli`, not
  in `Arguments`, which sends whatever was parsed; combinations of more than two options.
* Of argtable: what no command uses (dates, files, doubles, hash tables, dynamic strings),
  the regular expression engine, the glossaries. Of libmpsse: I2C, `SPI_Read`, `SPI_Write`,
  `SPI_IsBusy`, `SPI_ChangeCS`, and the second channel's handle; a write of FTDI's that
  comes short without an error; latency. `MID_CHK_IN_BUF_OK` is not told apart from an
  empty queue. What an MPSSE does with data that it takes for commands is `Astray`, without
  detail.
* `morse_stats_load` takes the size of a section for a multiple of a record; a remainder
  is not modelled.
* Windows replacements, headers, build.
