----------------------------- MODULE EventLoop -----------------------------
(***************************************************************************)
(* The emulated console's time, libretro-gpsp/main.c: update_gba is called *)
(* when the CPU has used up its cycles or stops, accounts them to timers,  *)
(* serial port and video, does the DMA transfers they start, raises        *)
(* interrupts, and lets the CPU run until the next event.  While the CPU   *)
(* sleeps it goes round its loop.                                          *)
(*                                                                         *)
(* The program is any sequence of writes to the registers.                 *)
(***************************************************************************)
EXTENDS Integers, FiniteSets

CONSTANTS
  HDRAW, HBLANK,              \* cycles of a line, 960 and 272
  VISIBLE, TOTAL,             \* lines drawn and in all, 160 and 228
  OVERSHOOT,                  \* what update_gba accepts, 64
  DMA_LIMIT,                  \* cycles of DMA it takes from the CPU, 64
  LONGEST_RUN,                \* how far the CPU may run past its cycles
  LAST_TIMER, LAST_DMA,       \* 3 and 3
  RELOADS,                    \* values of a timer's reload
  TimerSettings,              \* what the program starts timers with
  DmaSettings,                \* likewise for the DMA channels
  DisplaySettings,            \* values of DISPSTAT's upper bits
  SerialSettings,             \* transfers over the serial port
  IESettings,                 \* interrupts enabled; {} without IME
  AHEAD                       \* bound on video_count, see trigger_timer

Timers == 0 .. LAST_TIMER
Channels == 0 .. LAST_DMA
SoundChannels == Channels \cap {1, 2}

(* Bits of IE and IF. *)
IRQ_VBLANK == 0
IRQ_HBLANK == 1
IRQ_VCOUNT == 2
IRQ_TIMER0 == 3
IRQ_SERIAL == 7
IRQ_DMA0 == 8
IRQ_KEYPAD == 12
Irqs == 0 .. 12

CPU_ACTIVE == "active"
CPU_HALT == "halt"
CPU_STOP == "stop"
CPU_DMA == "dma"

ASSUME LineAssumption ==
  /\ {HDRAW, HBLANK, VISIBLE, LONGEST_RUN} \subseteq Nat \ {0}
  /\ OVERSHOOT \in Nat /\ OVERSHOOT < HDRAW /\ OVERSHOOT < HBLANK
  /\ DMA_LIMIT \in Nat /\ TOTAL \in Nat /\ VISIBLE < TOTAL /\ AHEAD \in Nat
ASSUME CountAssumption == LAST_TIMER \in 0 .. 3 /\ LAST_DMA \in 0 .. 3
ASSUME TimerAssumption ==
  /\ RELOADS \subseteq Nat
  /\ TimerSettings \subseteq [timer : Timers, status : {"prescale", "cascade"},
                              prescale : Nat, irq : BOOLEAN]
(* The program's timers are no faster than OVERSHOOT: one that is would    *)
(* fall behind, a single overflow being counted in each turn of the loop.  *)
ASSUME PeriodAssumption ==
  /\ \A r \in RELOADS : r > OVERSHOOT
  /\ \A s \in TimerSettings : \A r \in RELOADS :
       r * s.prescale \in Nat /\ r * s.prescale > OVERSHOOT
ASSUME DmaAssumption ==
  DmaSettings \subseteq [channel : Channels, start : {"now", "vblank", "hblank", "special"},
                         repeat : BOOLEAN, irq : BOOLEAN, cycles : Nat \ {0}]
(* Sound channels repeat, as programs have them: of one that does not,     *)
(* direct_sound_channel outlives the transfer that ends it.                *)
ASSUME SoundAssumption == \A s \in DmaSettings : s.start = "special" => s.repeat
ASSUME SettingsAssumption ==
  /\ DisplaySettings \subseteq [vblank : BOOLEAN, hblank : BOOLEAN, vcount : BOOLEAN, lyc : Nat]
  /\ SerialSettings \subseteq [cycles : Nat \ {0}, irq : BOOLEAN]
  /\ IESettings \subseteq SUBSET Irqs

VARIABLES
  pc,               \* "cpu" runs, "update" in update_gba's loop, "frame" between frames
  remaining,        \* cycles the CPU did not use, update_gba's argument
  execute_cycles,   \* cycles it was asked to run
  cpu_ticks,        \* cycles accounted since the frame began
  video_count,      \* cycles left until the next video event
  hblank, vcount,   \* DISPSTAT's HBlank flag and VCOUNT
  display,          \* DISPSTAT's upper bits
  timer, serial, dma,
  halt_state, sleep_cycles,
  sleep_first,      \* bit 31 of sleep_cycles: nothing accounted yet
  owed,             \* what a DMA's cycles and those accounted since differ by
  enabled, flagged, \* interrupts enabled and flagged
  masked            \* CPSR's interrupt bit

cpu == <<pc, remaining, execute_cycles, halt_state>>
sleep == <<sleep_cycles, sleep_first, owed>>
video == <<cpu_ticks, video_count, hblank, vcount>>
irqs == <<enabled, flagged, masked>>
devices == <<display, timer, serial, dma>>
vars == <<cpu, sleep, video, irqs, devices>>

Stopped(r) == [status |-> "inactive", count |-> 0, reload |-> r, prescale |-> 1, irq |-> FALSE]
NoTransfer == [start |-> "inactive", repeat |-> FALSE, irq |-> FALSE, sound |-> FALSE]

Init ==
  /\ pc = "cpu" /\ remaining = HDRAW /\ execute_cycles = HDRAW
  /\ halt_state = CPU_ACTIVE
  /\ sleep_cycles = 0 /\ sleep_first = FALSE /\ owed = 0
  /\ cpu_ticks = 0 /\ video_count = HDRAW /\ hblank = FALSE /\ vcount = 0
  /\ display \in DisplaySettings
  /\ \E r \in RELOADS : timer = [i \in Timers |-> Stopped(r)]
  /\ serial = [cycles |-> 0, irq |-> FALSE]
  /\ dma = [c \in Channels |-> NoTransfer]
  /\ enabled = {} /\ flagged = {} /\ masked = FALSE

----------------------------------------------------------------------------
(* Interrupts, cpu.cc. *)

cpu_has_interrupt(ie, flags, mask) == ~mask /\ ie \cap flags # {}

(* Variant: only a stopped CPU wakes. *)
WokenStopOnly(state) == IF state = CPU_STOP THEN CPU_ACTIVE ELSE state

(* Variant: an interrupt ends a DMA's sleep too. *)
WokenAlways(state) == CPU_ACTIVE

Woken(state) == IF state \in {CPU_STOP, CPU_HALT} THEN CPU_ACTIVE ELSE state

(* flag_interrupt, then check_and_raise_interrupts, with IE and CPSR as    *)
(* they are to be: whoever flags or enables an interrupt raises it.        *)
Raised(state, ie, flags, mask) == IF cpu_has_interrupt(ie, flags, mask) THEN Woken(state) ELSE state
MaskedBy(ie, flags, mask) == mask \/ cpu_has_interrupt(ie, flags, mask)

----------------------------------------------------------------------------
(* DMA, gba_memory.c. *)

(* What dma_transfer leaves of a channel.  Of one that ends, nothing is    *)
(* looked at any more, unless it feeds the sound.                          *)
Transferred(d) ==
  IF d.start # "now" /\ d.repeat THEN d
  ELSE IF d.sound THEN [d EXCEPT !.start = "inactive"] ELSE NoTransfer
After(channels, chosen) ==
  [c \in Channels |-> IF c \in chosen THEN Transferred(channels[c]) ELSE channels[c]]
DmaIrqs(channels, chosen) == {IRQ_DMA0 + c : c \in {c \in chosen : channels[c].irq}}
(* A channel's control register with the enable bit set: nothing happens   *)
(* to one in use.  A transfer that starts now is done at once, and the CPU *)
(* sleeps for its cycles, after the interrupt it may raise.                *)
Enabled(s) ==
  [start |-> s.start, repeat |-> s.repeat, irq |-> s.irq,
   sound |-> dma[s.channel].sound \/ (s.channel \in {1, 2} /\ s.start = "special")]

trigger_dma(s) ==
  /\ pc = "cpu" /\ s.start # "now"
  /\ dma[s.channel].start = "inactive"
  /\ dma' = [dma EXCEPT ![s.channel] = Enabled(s)]
  /\ UNCHANGED <<cpu, sleep, video, irqs, display, timer, serial>>

trigger_dma_now(s) ==
  /\ pc = "cpu" /\ s.start = "now"
  /\ dma[s.channel].start = "inactive"
  /\ dma' = [dma EXCEPT ![s.channel] = Transferred(Enabled(s))]
  /\ flagged' = IF s.irq THEN flagged \cup {IRQ_DMA0 + s.channel} ELSE flagged
  /\ masked' = MaskedBy(enabled, flagged', masked)
  /\ halt_state' = CPU_DMA
  /\ sleep_cycles' = s.cycles /\ sleep_first' = TRUE
  /\ owed' = s.cycles
  /\ remaining' \in -LONGEST_RUN .. remaining
  /\ pc' = "update"
  /\ UNCHANGED <<execute_cycles, video, enabled, display, timer, serial>>

(* The enable bit clear. *)
Disabled(d) == NoTransfer
stop_dma(c) ==
  /\ pc = "cpu"
  /\ dma' = [dma EXCEPT ![c] = Disabled(dma[c])]
  /\ UNCHANGED <<cpu, sleep, video, irqs, display, timer, serial>>

----------------------------------------------------------------------------
(* The CPU runs: it uses up its cycles, or stops with some left, and it    *)
(* writes to registers in between.                                         *)

RunOut ==
  /\ pc = "cpu" /\ pc' = "update"
  /\ remaining' \in -LONGEST_RUN .. 0
  /\ UNCHANGED <<execute_cycles, halt_state, sleep, video, irqs, devices>>

Halt(state) ==
  /\ pc = "cpu" /\ pc' = "update"
  /\ remaining' \in -LONGEST_RUN .. remaining
  /\ halt_state' = state
  /\ UNCHANGED <<execute_cycles, sleep, video, irqs, devices>>

count_timer(i, r) ==
  /\ pc = "cpu"
  /\ timer' = [timer EXCEPT ![i].reload = r]
  /\ UNCHANGED <<cpu, sleep, video, irqs, display, serial, dma>>

(* A timer that starts and would be due first lowers execute_cycles, but   *)
(* not what the CPU still has to run of it.                                *)
Period(t) == t.reload * t.prescale

(* Variant: the CPU stops no earlier for a new timer. *)
LoweredNot(period) == execute_cycles

Lowered(period) == IF period < execute_cycles THEN period ELSE execute_cycles
Started(t, s) == [status |-> s.status, count |-> t.reload * s.prescale, reload |-> t.reload,
                  prescale |-> s.prescale, irq |-> s.irq]
trigger_timer(s) ==
  /\ pc = "cpu" /\ timer[s.timer].status = "inactive"
  /\ Lowered(Started(timer[s.timer], s).count) < execute_cycles => video_count <= AHEAD
  /\ timer' = [timer EXCEPT ![s.timer] = Started(timer[s.timer], s)]
  /\ execute_cycles' = Lowered(Started(timer[s.timer], s).count)
  /\ UNCHANGED <<pc, remaining, halt_state, sleep, video, irqs, display, serial, dma>>

(* A stopped timer's count is never looked at. *)
stop_timer(i) ==
  /\ pc = "cpu" /\ timer[i].status # "inactive"
  /\ timer' = [timer EXCEPT ![i] = Stopped(timer[i].reload)]
  /\ UNCHANGED <<cpu, sleep, video, irqs, display, serial, dma>>

write_siocnt(s) ==
  /\ pc = "cpu" /\ serial.cycles = 0
  /\ serial' = s
  /\ UNCHANGED <<cpu, sleep, video, irqs, display, timer, dma>>

write_dispstat(d) ==
  /\ pc = "cpu"
  /\ display' = d
  /\ UNCHANGED <<cpu, sleep, video, irqs, timer, serial, dma>>

(* Variant: what is pending is not looked at. *)
UncheckedMask(ie) == masked

(* IE or IME. *)
CheckedMask(ie) == MaskedBy(ie, flagged, masked)
write_ie(ie) ==
  /\ pc = "cpu"
  /\ enabled' = ie
  /\ masked' = CheckedMask(ie)
  /\ UNCHANGED <<cpu, sleep, video, flagged, devices>>

write_if(acknowledged) ==
  /\ pc = "cpu"
  /\ flagged' = flagged \ acknowledged
  /\ UNCHANGED <<cpu, sleep, video, enabled, masked, devices>>

(* An SWI masks interrupts; MSR and a return from a handler look for those *)
(* that are pending.                                                       *)
store_cpsr(mask) ==
  /\ pc = "cpu"
  /\ masked' = MaskedBy(enabled, flagged, mask)
  /\ UNCHANGED <<cpu, sleep, video, enabled, flagged, devices>>

----------------------------------------------------------------------------
(* One turn of update_gba's loop. *)

(* Variant: whatever the CPU ran is counted. *)
ClampedNot(cycles) == cycles

(* Blocks that ran longer than OVERSHOOT are only counted in part. *)
Clamped(cycles) == IF cycles < -OVERSHOOT THEN -OVERSHOOT ELSE cycles
Elapsed == execute_cycles - Clamped(remaining)

(* update_timers goes through the timers in order: one that overflows      *)
(* counts the next one if that is a cascade.                               *)
Due(i) == timer[i].status = "prescale" /\ timer[i].count - Elapsed <= 0
Overflows(i) ==
  \E j \in 0 .. i :
    /\ Due(j)
    /\ \A k \in j + 1 .. i : timer[k].status = "cascade" /\ timer[k].count <= 1
Counted(i) ==
  CASE timer[i].status = "prescale" -> timer[i].count - Elapsed
    [] timer[i].status = "cascade" /\ i > 0 /\ Overflows(i - 1) -> timer[i].count - 1
    [] OTHER -> timer[i].count
Updated(i) ==
  [timer[i] EXCEPT !.count = Counted(i) + (IF Overflows(i) THEN Period(timer[i]) ELSE 0)]
TimerIrqs == {IRQ_TIMER0 + i : i \in {i \in Timers : Overflows(i) /\ timer[i].irq}}

(* Timers 0 and 1 feed the sound channels; one that runs low asks for its  *)
(* DMA.  Which do is not modelled.                                         *)
SoundRequests == {c \in SoundChannels : dma[c].sound /\ \E i \in Timers \cap {0, 1} : Overflows(i)}

(* As an unsigned number, a negative count of cycles is a large one.       *)
Covers(cycles) == Elapsed < 0 \/ cycles <= Elapsed
SerialDone == serial.cycles # 0 /\ Covers(serial.cycles)
SerialLeft == IF serial.cycles = 0 \/ SerialDone THEN [serial EXCEPT !.cycles = 0]
              ELSE [serial EXCEPT !.cycles = serial.cycles - Elapsed]

(* The video: each line is drawn, then blank; VISIBLE of them are shown.   *)
LineEnds == video_count - Elapsed <= 0

(* Variant: a line too few. *)
NextLineEarly == IF vcount + 2 = TOTAL THEN 0 ELSE vcount + 1

NextLine == IF vcount + 1 = TOTAL THEN 0 ELSE vcount + 1
FrameEnds == LineEnds /\ hblank /\ vcount + 1 = TOTAL
VideoNow ==
  /\ cpu_ticks' = cpu_ticks + Elapsed - (IF FrameEnds THEN TOTAL * (HDRAW + HBLANK) ELSE 0)
  /\ IF ~LineEnds THEN /\ video_count' = video_count - Elapsed
                       /\ UNCHANGED <<hblank, vcount>>
     ELSE IF ~hblank THEN /\ video_count' = video_count - Elapsed + HBLANK
                          /\ hblank' = TRUE /\ UNCHANGED vcount
     ELSE /\ video_count' = video_count - Elapsed + HDRAW
          /\ hblank' = FALSE /\ vcount' = NextLine
VideoIrqs ==
  {q \in {IRQ_HBLANK, IRQ_VBLANK, IRQ_VCOUNT} : LineEnds /\
     \/ q = IRQ_HBLANK /\ ~hblank /\ display.hblank
     \/ q = IRQ_VBLANK /\ hblank /\ NextLine = VISIBLE /\ display.vblank
     \/ q = IRQ_VCOUNT /\ hblank /\ NextLine = display.lyc /\ display.vcount}
VideoTransfers(channels) ==
  {c \in Channels : LineEnds /\
     \/ ~hblank /\ vcount < VISIBLE /\ channels[c].start = "hblank"
     \/ hblank /\ NextLine = VISIBLE /\ channels[c].start = "vblank"}

(* Sleep for a DMA, after the first turn; the loop ends with it.           *)
Slept == IF sleep_first THEN 0 ELSE IF Covers(sleep_cycles) THEN sleep_cycles ELSE Elapsed
SleepNow(state) ==
  IF state = CPU_DMA
  THEN /\ sleep_cycles' = sleep_cycles - Slept /\ sleep_first' = FALSE
       /\ owed' = IF sleep_first THEN owed ELSE owed - Elapsed
       /\ halt_state' = IF sleep_cycles = Slept THEN CPU_ACTIVE ELSE CPU_DMA
  ELSE halt_state' = state /\ UNCHANGED sleep

(* Cycles until the next event, whichever is first.  A count below zero is *)
(* compared as an unsigned number.                                         *)
EventTimes ==
  {IF video_count' > 0 THEN video_count' ELSE 0}
    \cup {c \in {serial'.cycles} : c # 0}
    \cup {c \in {sleep_cycles'} : halt_state' = CPU_DMA}
    \cup {timer'[i].count : i \in {i \in Timers : timer'[i].status = "prescale" /\ timer'[i].count >= 0}}

Update ==
  /\ pc = "update"
  /\ timer' = [i \in Timers |-> Updated(i)]
  /\ serial' = SerialLeft
  /\ VideoNow
  /\ \E sound \in SUBSET SoundRequests :
       LET fed == After(dma, sound)
           now == VideoTransfers(fed)
       IN /\ dma' = After(fed, now)
          /\ flagged' = flagged \cup TimerIrqs \cup VideoIrqs
                     \cup (IF SerialDone /\ serial.irq THEN {IRQ_SERIAL} ELSE {})
                     \cup DmaIrqs(dma, sound) \cup DmaIrqs(fed, now)
          /\ SleepNow(Raised(halt_state, enabled, flagged', masked))
          /\ masked' = MaskedBy(enabled, flagged', masked)
          /\ execute_cycles' \in EventTimes /\ \A c \in EventTimes : execute_cycles' <= c
          /\ \E dma_cycles \in IF sound \cup now = {} THEN {0} ELSE 1 .. DMA_LIMIT :
               remaining' = IF halt_state' = CPU_ACTIVE /\ ~FrameEnds
                            THEN execute_cycles' - (IF dma_cycles < execute_cycles' THEN dma_cycles ELSE execute_cycles')
                            ELSE 0
  /\ pc' = CASE FrameEnds -> "frame"
              [] ~FrameEnds /\ halt_state' = CPU_ACTIVE -> "cpu"
              [] OTHER -> "update"
  /\ UNCHANGED <<display, enabled>>

----------------------------------------------------------------------------
(* Between frames, nspire_host_main.c. *)

trigger_key ==
  /\ pc = "frame"
  /\ flagged' = flagged \cup {IRQ_KEYPAD}
  /\ halt_state' = Raised(halt_state, enabled, flagged', masked)
  /\ masked' = MaskedBy(enabled, flagged', masked)
  /\ UNCHANGED <<pc, remaining, execute_cycles, sleep, video, enabled, devices>>

(* execute_arm_translate(execute_cycles): a CPU that sleeps goes straight  *)
(* to update_gba, with nothing of its cycles used.                         *)
run_frame ==
  /\ pc = "frame"
  /\ pc' = IF halt_state = CPU_ACTIVE THEN "cpu" ELSE "update"
  /\ remaining' = execute_cycles
  /\ UNCHANGED <<execute_cycles, halt_state, sleep, video, irqs, devices>>

Next ==
  \/ RunOut
  \/ \E state \in {CPU_STOP, CPU_HALT} : Halt(state)
  \/ \E s \in DmaSettings : trigger_dma(s) \/ trigger_dma_now(s)
  \/ \E c \in Channels : stop_dma(c)
  \/ \E i \in Timers, r \in RELOADS : count_timer(i, r)
  \/ \E s \in TimerSettings : trigger_timer(s)
  \/ \E i \in Timers : stop_timer(i)
  \/ \E s \in SerialSettings : write_siocnt(s)
  \/ \E d \in DisplaySettings : write_dispstat(d)
  \/ \E ie \in IESettings : write_ie(ie)
  \/ \E q \in Irqs : write_if({q})
  \/ \E mask \in BOOLEAN : store_cpsr(mask)
  \/ Update \/ trigger_key \/ run_frame

(* update_gba goes round until it returns, and the host program runs the   *)
(* next frame.                                                             *)
Spec == Init /\ [][Next]_vars /\ WF_vars(Update) /\ WF_vars(run_frame)

----------------------------------------------------------------------------
TimerStates ==
  [status : {"inactive", "prescale", "cascade"}, count : Int, reload : RELOADS, prescale : Nat, irq : BOOLEAN]
DmaStates ==
  [start : {"inactive", "vblank", "hblank", "special"}, repeat : BOOLEAN, irq : BOOLEAN, sound : BOOLEAN]

(* Types; a CPU that runs is not asleep. *)
TypeOK ==
  /\ pc \in {"cpu", "update", "frame"} /\ remaining \in Int /\ execute_cycles \in Nat
  /\ halt_state \in {CPU_ACTIVE, CPU_HALT, CPU_STOP, CPU_DMA}
  /\ (pc = "cpu" => halt_state = CPU_ACTIVE)
  /\ sleep_cycles \in Nat /\ sleep_first \in BOOLEAN /\ owed \in Int
  /\ cpu_ticks \in Int /\ video_count \in Int /\ hblank \in BOOLEAN /\ vcount \in 0 .. TOTAL - 1
  /\ display \in DisplaySettings
  /\ timer \in [Timers -> TimerStates]
  /\ serial \in [cycles : Nat, irq : BOOLEAN]
  /\ dma \in [Channels -> DmaStates]
  /\ enabled \subseteq Irqs /\ flagged \subseteq Irqs /\ masked \in BOOLEAN

(* Whenever the CPU is let run, update_gba has handled all that was due    *)
(* (no count is left at zero or below), and what it asks of the CPU ends   *)
(* with the next event of the video or of a timer at the latest.           *)
Counts == {video_count} \cup {timer[i].count : i \in {i \in Timers : timer[i].status = "prescale"}}
EventsAreOnTime == pc = "cpu" => \A c \in Counts : c > 0 /\ execute_cycles <= c

(* An interrupt that is flagged, enabled and not masked is raised before   *)
(* anything else happens, whoever flagged, enabled or unmasked it.         *)
InterruptsAreRaised == ~cpu_has_interrupt(enabled, flagged, masked)

(* The sleep of a DMA lasts exactly its cycles, in whatever turns of the   *)
(* loop, frames and interrupts they fall.                                  *)
SleepIsServed == [][halt_state = CPU_DMA /\ halt_state' = CPU_ACTIVE => owed' = 0]_vars

(* The lines of the screen do not drift from the CPU's clock: however late *)
(* each event is handled, the cycles accounted since the frame began and   *)
(* those left until the next event make up the lines drawn so far.         *)
ScreenKeepsTime ==
  cpu_ticks + video_count = vcount * (HDRAW + HBLANK) + HDRAW + (IF hblank THEN HBLANK ELSE 0)

(* A sound channel that was stopped is no longer fed by the timers:        *)
(* sound.c asks for a transfer "if DMA is enabled for the sound channel".  *)
StoppedSoundIsNotFed == \A c \in SoundChannels : dma[c].sound => dma[c].start # "inactive"

(* A CPU that halts wakes up, with the VBlank's interrupt enabled. *)
WakesAtVBlank == display.vblank /\ IRQ_VBLANK \in enabled /\ ~masked
HaltEnds == (halt_state \in {CPU_HALT, CPU_STOP} /\ WakesAtVBlank) ~> halt_state = CPU_ACTIVE
=============================================================================
