-------------------------- MODULE EventLoopProofs --------------------------
(***************************************************************************)
(* Proofs about EventLoop: its types, that events are on time, the screen  *)
(* keeps time, interrupts are raised, stopped sound channels are not fed   *)
(* and a DMA's sleep is served, for every screen, timer and program.       *)
(***************************************************************************)
EXTENDS EventLoop, TLAPS

Prescales == {1} \cup {s.prescale : s \in TimerSettings}

(* A timer's prescale is one it was started with. *)
PrescalesKnown == \A i \in Timers : timer[i].prescale \in Prescales

(* EventsAreOnTime, wherever the CPU is: the counts change only with       *)
(* execute_cycles.                                                         *)
OnTime == \A c \in Counts : c > 0 /\ execute_cycles <= c

(* A sound channel in use is one that repeats. *)
SoundRepeats ==
  \A c \in Channels : dma[c].sound => dma[c].start \in {"vblank", "hblank", "special"} /\ dma[c].repeat

(* While a DMA's sleep lasts what is owed is what is left of it, and the   *)
(* loop accounts no more than that.                                        *)
SleepIsOwed ==
  halt_state = CPU_DMA =>
    /\ owed = sleep_cycles /\ sleep_cycles > 0
    /\ ~sleep_first => execute_cycles <= sleep_cycles /\ (pc = "update" => remaining \in {0, execute_cycles})
    /\ sleep_first => pc = "update"

IInv ==
  TypeOK /\ PrescalesKnown /\ OnTime /\ SoundRepeats /\ SleepIsOwed
    /\ InterruptsAreRaised /\ ScreenKeepsTime

----------------------------------------------------------------------------
(* What one turn of the loop does to a timer. *)

LEMMA Assumptions ==
  /\ HDRAW \in Nat /\ HBLANK \in Nat /\ VISIBLE \in Nat /\ TOTAL \in Nat /\ OVERSHOOT \in Nat
  /\ LONGEST_RUN \in Nat /\ OVERSHOOT < HDRAW /\ OVERSHOOT < HBLANK /\ 0 < VISIBLE /\ VISIBLE < TOTAL
  /\ Timers \subseteq Nat /\ Channels \subseteq Nat
BY LineAssumption, CountAssumption DEF Timers, Channels

(* What is accounted is at most what was asked for and OVERSHOOT. *)
LEMMA ElapsedBound ==
  ASSUME TypeOK
  PROVE  Elapsed \in Int /\ Elapsed <= execute_cycles + OVERSHOOT
BY Assumptions DEF TypeOK, Elapsed, Clamped

(* A timer's period is longer than OVERSHOOT. *)
LEMMA PeriodBound ==
  ASSUME NEW r \in RELOADS, NEW p \in Prescales
  PROVE  r * p \in Nat /\ r * p > OVERSHOOT /\ p \in Nat
<1>1. CASE p = 1
  <2>1. r \in Nat /\ r > OVERSHOOT
    BY TimerAssumption, PeriodAssumption
  <2>2. r * 1 = r
    BY <2>1
  <2> QED
    BY <1>1, <2>1, <2>2
<1>2. CASE p # 1
  <2>1. PICK s \in TimerSettings : p = s.prescale
    BY <1>2 DEF Prescales
  <2>2. s.prescale \in Nat
    BY <2>1, TimerAssumption
  <2> QED
    BY <2>1, <2>2, PeriodAssumption
<1> QED
  BY <1>1, <1>2

LEMMA TimerTurn ==
  ASSUME TypeOK, PrescalesKnown, NEW i \in Timers
  PROVE  /\ Updated(i) \in TimerStates
         /\ Updated(i).prescale = timer[i].prescale
         /\ Updated(i).status = timer[i].status
         /\ timer[i].status = "prescale" =>
              Updated(i).count = timer[i].count - Elapsed
                                   + (IF timer[i].count - Elapsed <= 0 THEN Period(timer[i]) ELSE 0)
<1>1. timer[i] \in TimerStates
  BY DEF TypeOK
<1>2. Period(timer[i]) \in Nat
  BY <1>1, PeriodBound DEF Period, PrescalesKnown, TimerStates
<1>3. Elapsed \in Int
  BY ElapsedBound
<1>4. timer[i].count \in Int /\ Counted(i) \in Int
  BY <1>1, <1>3 DEF Counted, TimerStates
<1>5. Updated(i) = [timer[i] EXCEPT !.count = Counted(i) + (IF Overflows(i) THEN Period(timer[i]) ELSE 0)]
  BY DEF Updated
<1>6. Counted(i) + (IF Overflows(i) THEN Period(timer[i]) ELSE 0) \in Int
  BY <1>2, <1>4
<1>7. /\ Updated(i) \in TimerStates
      /\ Updated(i).prescale = timer[i].prescale
      /\ Updated(i).status = timer[i].status
      /\ Updated(i).count = Counted(i) + (IF Overflows(i) THEN Period(timer[i]) ELSE 0)
  BY <1>1, <1>5, <1>6 DEF TimerStates
<1>8. ASSUME timer[i].status = "prescale"
      PROVE  Counted(i) = timer[i].count - Elapsed /\ (Overflows(i) <=> timer[i].count - Elapsed <= 0)
  <2>1. Counted(i) = timer[i].count - Elapsed
    BY <1>8 DEF Counted
  <2>2. i \in Nat
    BY Assumptions
  <2>3. ASSUME Due(i) PROVE Overflows(i)
    BY <2>2, <2>3 DEF Overflows
  <2>4. ASSUME Overflows(i) PROVE Due(i)
    <3>1. PICK j \in 0 .. i :
            Due(j) /\ \A k \in j + 1 .. i : timer[k].status = "cascade" /\ timer[k].count <= 1
      BY <2>4 DEF Overflows
    <3>2. j = i
      <4>1. SUFFICES ASSUME j # i PROVE FALSE
        OBVIOUS
      <4>2. i \in j + 1 .. i
        BY <2>2, <4>1
      <4> QED
        BY <1>8, <3>1, <4>2
    <3> QED
      BY <3>1, <3>2
  <2> QED
    BY <1>8, <2>1, <2>3, <2>4 DEF Due
<1> QED
  BY <1>7, <1>8

----------------------------------------------------------------------------
(* Initial states. *)

LEMMA InitCorrect == Init => IInv
<1> SUFFICES ASSUME Init PROVE IInv
  OBVIOUS
<1> USE DEF Init
<1>1. TypeOK
  <2>1. display \in DisplaySettings
    OBVIOUS
  <2>2. PICK r \in RELOADS : timer = [i \in Timers |-> Stopped(r)]
    OBVIOUS
  <2>3. \A i \in Timers : Stopped(r) \in TimerStates
    BY Assumptions DEF Stopped, TimerStates
  <2>4. timer \in [Timers -> TimerStates]
    BY <2>2, <2>3
  <2>5. dma \in [Channels -> DmaStates]
    BY DEF NoTransfer, DmaStates
  <2>6. pc \in {"cpu", "update", "frame"} /\ remaining \in Int /\ execute_cycles \in Nat
          /\ sleep_cycles \in Nat /\ owed \in Int /\ cpu_ticks \in Int /\ video_count \in Int
          /\ vcount \in 0 .. TOTAL - 1 /\ serial \in [cycles : Nat, irq : BOOLEAN]
    BY Assumptions
  <2>7. halt_state \in {CPU_ACTIVE, CPU_HALT, CPU_STOP, CPU_DMA} /\ (pc = "cpu" => halt_state = CPU_ACTIVE)
          /\ enabled \subseteq Irqs /\ flagged \subseteq Irqs
    OBVIOUS
  <2>8. sleep_first \in BOOLEAN /\ hblank \in BOOLEAN /\ masked \in BOOLEAN
    BY Zenon
  <2> QED
    BY <2>1, <2>4, <2>5, <2>6, <2>7, <2>8 DEF TypeOK
<1>2. PICK r \in RELOADS : timer = [i \in Timers |-> Stopped(r)]
  OBVIOUS
<1>3. \A i \in Timers : timer[i].status = "inactive" /\ timer[i].prescale = 1
  BY <1>2 DEF Stopped
<1>4. PrescalesKnown
  BY <1>3 DEF PrescalesKnown, Prescales
<1>5. OnTime
  BY <1>3, Assumptions, LineAssumption DEF OnTime, Counts
<1>6. SoundRepeats
  BY DEF SoundRepeats, NoTransfer
<1>7. SleepIsOwed
  BY DEF SleepIsOwed, CPU_ACTIVE, CPU_DMA
<1>8. InterruptsAreRaised
  BY DEF InterruptsAreRaised, cpu_has_interrupt
<1>9. ScreenKeepsTime
  BY Assumptions DEF ScreenKeepsTime
<1> QED
  BY <1>1, <1>4, <1>5, <1>6, <1>7, <1>8, <1>9 DEF IInv

----------------------------------------------------------------------------
(* Timers and counts, in each action. *)

LEMMA StartedTimer ==
  ASSUME TypeOK, NEW s \in TimerSettings
  PROVE  /\ Started(timer[s.timer], s) \in TimerStates
         /\ Started(timer[s.timer], s).prescale \in Prescales
         /\ Started(timer[s.timer], s).count > 0
         /\ Lowered(Started(timer[s.timer], s).count) \in Nat
         /\ Lowered(Started(timer[s.timer], s).count) <= execute_cycles
         /\ Lowered(Started(timer[s.timer], s).count) <= Started(timer[s.timer], s).count
<1>1. s.timer \in Timers /\ s.prescale \in Nat /\ s.status \in {"prescale", "cascade"} /\ s.irq \in BOOLEAN
  BY TimerAssumption
<1>2. timer[s.timer].reload \in RELOADS /\ execute_cycles \in Nat
  BY <1>1 DEF TypeOK, TimerStates
<1>3. s.prescale \in Prescales
  BY DEF Prescales
<1>4. timer[s.timer].reload * s.prescale \in Nat /\ timer[s.timer].reload * s.prescale > OVERSHOOT
  BY <1>2, <1>3, PeriodBound
<1> QED
  BY <1>1, <1>2, <1>3, <1>4, Assumptions DEF Started, TimerStates, Lowered

LEMMA StoppedTimer ==
  ASSUME TypeOK, NEW i \in Timers
  PROVE  Stopped(timer[i].reload) \in TimerStates
BY Assumptions DEF TypeOK, TimerStates, Stopped

(* The next event is not in the past. *)
LEMMA NextEvent ==
  ASSUME TypeOK, PrescalesKnown, OnTime, Update
  PROVE  /\ timer' \in [Timers -> TimerStates]
         /\ \A i \in Timers : timer'[i].prescale = timer[i].prescale /\ timer'[i].status = timer[i].status
         /\ video_count' \in Int /\ video_count' > 0 /\ execute_cycles' <= video_count'
         /\ \A i \in Timers : timer'[i].status = "prescale" =>
              timer'[i].count > 0 /\ execute_cycles' <= timer'[i].count
<1>1. Elapsed \in Int /\ Elapsed <= execute_cycles + OVERSHOOT
  BY ElapsedBound
<1>2. timer' = [i \in Timers |-> Updated(i)]
  BY DEF Update
<1>3. timer' \in [Timers -> TimerStates]
      /\ \A i \in Timers : timer'[i].prescale = timer[i].prescale /\ timer'[i].status = timer[i].status
  BY <1>2, TimerTurn
<1>4. video_count > 0 /\ execute_cycles <= video_count /\ video_count \in Int /\ execute_cycles \in Nat
  BY DEF OnTime, Counts, TypeOK
<1>5. video_count' \in Int /\ video_count' > 0
  BY <1>1, <1>4, Assumptions DEF Update, VideoNow, LineEnds
<1>6. execute_cycles' \in EventTimes /\ \A c \in EventTimes : execute_cycles' <= c
  BY DEF Update
<1>7. execute_cycles' <= video_count'
  BY <1>5, <1>6 DEF EventTimes
<1>8. ASSUME NEW i \in Timers, timer'[i].status = "prescale"
      PROVE  timer'[i].count > 0 /\ execute_cycles' <= timer'[i].count
  <2>1. timer[i].status = "prescale" /\ timer[i] \in TimerStates
    BY <1>3, <1>8 DEF TypeOK
  <2>2. timer[i].count > 0 /\ execute_cycles <= timer[i].count /\ timer[i].count \in Int
    BY <2>1 DEF OnTime, Counts, TimerStates
  <2>3. Period(timer[i]) \in Nat /\ Period(timer[i]) > OVERSHOOT
    BY <2>1, PeriodBound DEF Period, PrescalesKnown, TimerStates
  <2>4. timer'[i].count = timer[i].count - Elapsed
                            + (IF timer[i].count - Elapsed <= 0 THEN Period(timer[i]) ELSE 0)
    BY <1>2, <2>1, TimerTurn
  <2>5. timer'[i].count \in Int /\ timer'[i].count > 0
    BY <1>1, <1>4, <2>2, <2>3, <2>4, Assumptions
  <2>6. timer'[i].count \in EventTimes
    BY <1>8, <2>5 DEF EventTimes
  <2> QED
    BY <1>6, <2>5, <2>6
<1> QED
  BY <1>3, <1>5, <1>7, <1>8

----------------------------------------------------------------------------
(* Types. *)

LEMMA RaisedType ==
  ASSUME NEW state \in {CPU_ACTIVE, CPU_HALT, CPU_STOP, CPU_DMA}, NEW ie, NEW flags, NEW mask
  PROVE  Raised(state, ie, flags, mask) \in {CPU_ACTIVE, CPU_HALT, CPU_STOP, CPU_DMA}
BY DEF Raised, Woken

LEMMA MaskedType ==
  ASSUME NEW mask \in BOOLEAN, NEW ie, NEW flags
  PROVE  MaskedBy(ie, flags, mask) \in BOOLEAN
BY Zenon DEF MaskedBy

LEMMA TransferredType ==
  ASSUME NEW d \in DmaStates
  PROVE  Transferred(d) \in DmaStates
BY DEF Transferred, NoTransfer, DmaStates

LEMMA EnabledType ==
  ASSUME TypeOK, NEW s \in DmaSettings
  PROVE  /\ s.channel \in Channels
         /\ s.start # "now" => Enabled(s) \in DmaStates
         /\ s.start = "now" => Transferred(Enabled(s)) \in DmaStates
<1>1. s \in [channel : Channels, start : {"now", "vblank", "hblank", "special"},
             repeat : BOOLEAN, irq : BOOLEAN, cycles : Nat \ {0}]
  BY DmaAssumption
<1>2. (dma[s.channel].sound \/ (s.channel \in {1, 2} /\ s.start = "special")) \in BOOLEAN
  BY Zenon
<1>3. Enabled(s).start = s.start /\ Enabled(s) \in
        [start : {"now", "vblank", "hblank", "special"}, repeat : BOOLEAN, irq : BOOLEAN, sound : BOOLEAN]
  BY <1>1, <1>2 DEF Enabled
<1> QED
  BY <1>1, <1>3 DEF DmaStates, Transferred, NoTransfer

LEMMA AfterType ==
  ASSUME NEW channels \in [Channels -> DmaStates], NEW chosen
  PROVE  After(channels, chosen) \in [Channels -> DmaStates]
BY TransferredType DEF After

LEMMA DmaIrqsType ==
  ASSUME NEW channels \in [Channels -> DmaStates], NEW chosen \in SUBSET Channels
  PROVE  DmaIrqs(channels, chosen) \subseteq Irqs
<1>1. \A c \in chosen : IRQ_DMA0 + c \in Irqs
  BY CountAssumption DEF Channels, IRQ_DMA0, Irqs
<1> QED
  BY <1>1 DEF DmaIrqs

LEMMA TypeUpdate ==
  ASSUME TypeOK, PrescalesKnown, OnTime, Update
  PROVE  TypeOK'
<1>1. timer' \in [Timers -> TimerStates] /\ video_count' \in Int /\ video_count' > 0
  BY NextEvent
<1>2. Elapsed \in Int
  BY ElapsedBound
<1>3. cpu_ticks' \in Int /\ vcount' \in 0 .. TOTAL - 1
  BY <1>2, Assumptions DEF TypeOK, Update, VideoNow, NextLine
<1>4. hblank' \in BOOLEAN
  BY Zenon DEF TypeOK, Update, VideoNow
<1>5. serial' \in [cycles : Nat, irq : BOOLEAN]
  BY <1>2 DEF TypeOK, Update, SerialLeft, SerialDone, Covers
<1>6. PICK sound \in SUBSET SoundRequests :
        /\ dma' = After(After(dma, sound), VideoTransfers(After(dma, sound)))
        /\ flagged' = flagged \cup TimerIrqs \cup VideoIrqs
                     \cup (IF SerialDone /\ serial.irq THEN {IRQ_SERIAL} ELSE {})
                     \cup DmaIrqs(dma, sound) \cup DmaIrqs(After(dma, sound), VideoTransfers(After(dma, sound)))
        /\ SleepNow(Raised(halt_state, enabled, flagged', masked))
        /\ masked' = MaskedBy(enabled, flagged', masked)
        /\ execute_cycles' \in EventTimes
        /\ \E dma_cycles \in IF sound \cup VideoTransfers(After(dma, sound)) = {} THEN {0} ELSE 1 .. DMA_LIMIT :
             remaining' = IF halt_state' = CPU_ACTIVE /\ ~FrameEnds
                          THEN execute_cycles' - (IF dma_cycles < execute_cycles' THEN dma_cycles ELSE execute_cycles')
                          ELSE 0
  BY DEF Update
<1>7. dma \in [Channels -> DmaStates] /\ After(dma, sound) \in [Channels -> DmaStates]
      /\ sound \in SUBSET Channels /\ VideoTransfers(After(dma, sound)) \in SUBSET Channels
  BY AfterType DEF TypeOK, SoundRequests, SoundChannels, VideoTransfers
<1>8. dma' \in [Channels -> DmaStates]
  BY <1>6, <1>7, AfterType
<1>9. flagged' \subseteq Irqs
  <2>1. DmaIrqs(dma, sound) \subseteq Irqs
          /\ DmaIrqs(After(dma, sound), VideoTransfers(After(dma, sound))) \subseteq Irqs
    BY <1>7, DmaIrqsType
  <2>2. TimerIrqs \subseteq Irqs
    <3>1. \A i \in Timers : IRQ_TIMER0 + i \in Irqs
      BY CountAssumption DEF Timers, IRQ_TIMER0, Irqs
    <3> QED
      BY <3>1 DEF TimerIrqs
  <2>3. VideoIrqs \subseteq Irqs /\ IRQ_SERIAL \in Irqs
    BY DEF VideoIrqs, IRQ_HBLANK, IRQ_VBLANK, IRQ_VCOUNT, IRQ_SERIAL, Irqs
  <2> QED
    BY <1>6, <2>1, <2>2, <2>3 DEF TypeOK
<1>10. masked' \in BOOLEAN
  BY <1>6, MaskedType DEF TypeOK
<1>11. Raised(halt_state, enabled, flagged', masked) \in {CPU_ACTIVE, CPU_HALT, CPU_STOP, CPU_DMA}
  BY RaisedType DEF TypeOK
<1>12. sleep_cycles \in Nat /\ Slept \in Int /\ Slept <= sleep_cycles /\ owed \in Int
  BY <1>2 DEF TypeOK, Slept, Covers
<1>13. sleep_cycles' \in Nat /\ owed' \in Int /\ halt_state' \in {CPU_ACTIVE, CPU_HALT, CPU_STOP, CPU_DMA}
  BY <1>2, <1>6, <1>11, <1>12 DEF SleepNow, sleep
<1>14. sleep_first' \in BOOLEAN
  BY <1>6, Zenon DEF TypeOK, SleepNow, sleep
<1>15. execute_cycles' \in Nat
  <2>1. \A c \in EventTimes : c \in Nat
    BY <1>1, <1>5, <1>13 DEF EventTimes, TimerStates
  <2> QED
    BY <1>6, <2>1
<1>16. remaining' \in Int
  BY <1>6, <1>15, LineAssumption
<1>17. pc' \in {"cpu", "update", "frame"} /\ (pc' = "cpu" => halt_state' = CPU_ACTIVE)
  BY DEF Update
<1>18. UNCHANGED <<display, enabled>> /\ display \in DisplaySettings /\ enabled \subseteq Irqs
  BY DEF Update, TypeOK
<1> QED
  BY <1>1, <1>3, <1>4, <1>5, <1>8, <1>9, <1>10, <1>13, <1>14, <1>15, <1>16, <1>17, <1>18 DEF TypeOK

LEMMA TypeStep ==
  ASSUME TypeOK, PrescalesKnown, OnTime, [Next]_vars
  PROVE  TypeOK'
<1>0. LONGEST_RUN \in Nat
  BY Assumptions
<1>1. CASE RunOut
  BY <1>0, <1>1 DEF TypeOK, RunOut, sleep, video, irqs, devices
<1>2. ASSUME NEW state \in {CPU_STOP, CPU_HALT}, Halt(state) PROVE TypeOK'
  BY <1>0, <1>2 DEF TypeOK, Halt, sleep, video, irqs, devices
<1>3. ASSUME NEW s \in DmaSettings, trigger_dma(s) PROVE TypeOK'
  <2>1. dma' \in [Channels -> DmaStates]
    BY <1>3, EnabledType DEF trigger_dma, TypeOK
  <2> QED
    BY <1>3, <2>1 DEF TypeOK, trigger_dma, cpu, sleep, video, irqs
<1>4. ASSUME NEW s \in DmaSettings, trigger_dma_now(s) PROVE TypeOK'
  <2>1. dma' \in [Channels -> DmaStates]
    BY <1>4, EnabledType DEF trigger_dma_now, TypeOK
  <2>2. s.cycles \in Nat /\ s.channel \in Channels
    BY DmaAssumption
  <2>3. IRQ_DMA0 + s.channel \in Irqs
    BY <2>2, CountAssumption DEF Channels, IRQ_DMA0, Irqs
  <2>4. flagged' \subseteq Irqs
    BY <1>4, <2>3 DEF TypeOK, trigger_dma_now
  <2>5. masked' \in BOOLEAN
    BY <1>4, MaskedType DEF TypeOK, trigger_dma_now
  <2>6. sleep_first' \in BOOLEAN
    BY <1>4, Zenon DEF trigger_dma_now
  <2> QED
    BY <1>0, <1>4, <2>1, <2>2, <2>4, <2>5, <2>6 DEF TypeOK, trigger_dma_now, video
<1>5. ASSUME NEW c \in Channels, stop_dma(c) PROVE TypeOK'
  <2>1. dma' \in [Channels -> DmaStates]
    BY <1>5 DEF TypeOK, stop_dma, Disabled, NoTransfer, DmaStates
  <2> QED
    BY <1>5, <2>1 DEF TypeOK, stop_dma, cpu, sleep, video, irqs
<1>6. ASSUME NEW i \in Timers, NEW r \in RELOADS, count_timer(i, r) PROVE TypeOK'
  <2>1. timer' \in [Timers -> TimerStates]
    BY <1>6 DEF TypeOK, count_timer, TimerStates
  <2> QED
    BY <1>6, <2>1 DEF TypeOK, count_timer, cpu, sleep, video, irqs
<1>7. ASSUME NEW s \in TimerSettings, trigger_timer(s) PROVE TypeOK'
  <2>1. timer' \in [Timers -> TimerStates] /\ execute_cycles' \in Nat
    BY <1>7, StartedTimer DEF TypeOK, trigger_timer
  <2> QED
    BY <1>7, <2>1 DEF TypeOK, trigger_timer, sleep, video, irqs
<1>8. ASSUME NEW i \in Timers, stop_timer(i) PROVE TypeOK'
  <2>1. timer' \in [Timers -> TimerStates]
    BY <1>8, StoppedTimer DEF TypeOK, stop_timer
  <2> QED
    BY <1>8, <2>1 DEF TypeOK, stop_timer, cpu, sleep, video, irqs
<1>9. ASSUME NEW s \in SerialSettings, write_siocnt(s) PROVE TypeOK'
  <2>1. serial' \in [cycles : Nat, irq : BOOLEAN]
    BY <1>9, SettingsAssumption DEF write_siocnt
  <2> QED
    BY <1>9, <2>1 DEF TypeOK, write_siocnt, cpu, sleep, video, irqs
<1>10. ASSUME NEW d \in DisplaySettings, write_dispstat(d) PROVE TypeOK'
  BY <1>10 DEF TypeOK, write_dispstat, cpu, sleep, video, irqs
<1>11. ASSUME NEW ie \in IESettings, write_ie(ie) PROVE TypeOK'
  <2>1. enabled' \subseteq Irqs
    BY <1>11, SettingsAssumption DEF write_ie
  <2>2. masked' \in BOOLEAN
    BY <1>11, MaskedType DEF TypeOK, write_ie, CheckedMask
  <2> QED
    BY <1>11, <2>1, <2>2 DEF TypeOK, write_ie, cpu, sleep, video, devices
<1>12. ASSUME NEW q \in Irqs, write_if({q}) PROVE TypeOK'
  BY <1>12 DEF TypeOK, write_if, cpu, sleep, video, devices
<1>13. ASSUME NEW mask \in BOOLEAN, store_cpsr(mask) PROVE TypeOK'
  <2>1. masked' \in BOOLEAN
    BY <1>13, MaskedType DEF store_cpsr
  <2> QED
    BY <1>13, <2>1 DEF TypeOK, store_cpsr, cpu, sleep, video, devices
<1>14. CASE Update
  BY <1>14, TypeUpdate
<1>15. CASE trigger_key
  <2>1. masked' \in BOOLEAN
    BY <1>15, MaskedType DEF TypeOK, trigger_key
  <2>2. halt_state' \in {CPU_ACTIVE, CPU_HALT, CPU_STOP, CPU_DMA}
    BY <1>15, RaisedType DEF TypeOK, trigger_key
  <2>3. flagged' \subseteq Irqs
    BY <1>15 DEF TypeOK, trigger_key, IRQ_KEYPAD, Irqs
  <2> QED
    BY <1>15, <2>1, <2>2, <2>3 DEF TypeOK, trigger_key, sleep, video, devices
<1>16. CASE run_frame
  BY <1>16 DEF TypeOK, run_frame, sleep, video, irqs, devices
<1>17. CASE UNCHANGED vars
  BY <1>17 DEF TypeOK, vars, cpu, sleep, video, irqs, devices
<1> QED
  BY <1>1, <1>2, <1>3, <1>4, <1>5, <1>6, <1>7, <1>8, <1>9, <1>10, <1>11, <1>12, <1>13, <1>14, <1>15,
     <1>16, <1>17 DEF Next

----------------------------------------------------------------------------
(* What every other action leaves alone. *)

TimerWritten ==
  \/ \E i \in Timers, r \in RELOADS : count_timer(i, r)
  \/ \E s \in TimerSettings : trigger_timer(s)
  \/ \E i \in Timers : stop_timer(i)

DmaWritten ==
  \/ \E s \in DmaSettings : trigger_dma(s) \/ trigger_dma_now(s)
  \/ \E c \in Channels : stop_dma(c)

Asleep ==
  \/ \E state \in {CPU_STOP, CPU_HALT} : Halt(state)
  \/ \E s \in DmaSettings : trigger_dma_now(s)
  \/ trigger_key \/ run_frame \/ RunOut \/ TimerWritten

LEMMA Untouched ==
  ASSUME [Next]_vars
  PROVE  /\ UNCHANGED <<timer, execute_cycles, video_count>> \/ TimerWritten \/ Update
         /\ UNCHANGED video \/ Update
         /\ UNCHANGED dma \/ DmaWritten \/ Update
         /\ UNCHANGED <<halt_state, owed, sleep_cycles, sleep_first, execute_cycles, remaining, pc>>
              \/ Asleep \/ Update
<1> USE DEF TimerWritten, DmaWritten, Asleep, vars, cpu, sleep, video, irqs, devices
<1>1. CASE RunOut
  BY <1>1 DEF RunOut
<1>2. CASE \E state \in {CPU_STOP, CPU_HALT} : Halt(state)
  BY <1>2 DEF Halt
<1>3. CASE \E s \in DmaSettings : trigger_dma(s)
  BY <1>3 DEF trigger_dma
<1>4. CASE \E s \in DmaSettings : trigger_dma_now(s)
  BY <1>4 DEF trigger_dma_now
<1>5. CASE \E c \in Channels : stop_dma(c)
  BY <1>5 DEF stop_dma
<1>6. CASE TimerWritten
  BY <1>6 DEF count_timer, trigger_timer, stop_timer
<1>7. CASE \E s \in SerialSettings : write_siocnt(s)
  BY <1>7 DEF write_siocnt
<1>8. CASE \E d \in DisplaySettings : write_dispstat(d)
  BY <1>8 DEF write_dispstat
<1>9. CASE \E ie \in IESettings : write_ie(ie)
  BY <1>9 DEF write_ie
<1>10. CASE \E q \in Irqs : write_if({q})
  BY <1>10 DEF write_if
<1>11. CASE \E mask \in BOOLEAN : store_cpsr(mask)
  BY <1>11 DEF store_cpsr
<1>12. CASE Update
  BY <1>12
<1>13. CASE trigger_key
  BY <1>13 DEF trigger_key
<1>14. CASE run_frame
  BY <1>14 DEF run_frame
<1>15. CASE UNCHANGED vars
  BY <1>15
<1> QED
  BY <1>1, <1>2, <1>3, <1>4, <1>5, <1>6, <1>7, <1>8, <1>9, <1>10, <1>11, <1>12, <1>13, <1>14, <1>15 DEF Next

----------------------------------------------------------------------------
(* Events are on time. *)

LEMMA PrescaleStep ==
  ASSUME TypeOK, PrescalesKnown, OnTime, [Next]_vars
  PROVE  PrescalesKnown'
<1>1. CASE UNCHANGED <<timer, execute_cycles, video_count>>
  BY <1>1 DEF PrescalesKnown
<1>2. ASSUME NEW i \in Timers, NEW r \in RELOADS, count_timer(i, r) PROVE PrescalesKnown'
  BY <1>2 DEF PrescalesKnown, count_timer, TypeOK, TimerStates
<1>3. ASSUME NEW s \in TimerSettings, trigger_timer(s) PROVE PrescalesKnown'
  BY <1>3, StartedTimer DEF PrescalesKnown, trigger_timer, TypeOK, TimerStates
<1>4. ASSUME NEW i \in Timers, stop_timer(i) PROVE PrescalesKnown'
  BY <1>4 DEF PrescalesKnown, stop_timer, TypeOK, Stopped, Prescales
<1>5. CASE Update
  BY <1>5, NextEvent DEF PrescalesKnown
<1> QED
  BY <1>1, <1>2, <1>3, <1>4, <1>5, Untouched DEF TimerWritten

LEMMA OnTimeStep ==
  ASSUME TypeOK, PrescalesKnown, OnTime, [Next]_vars
  PROVE  OnTime'
<1>1. CASE UNCHANGED <<timer, execute_cycles, video_count>>
  BY <1>1 DEF OnTime, Counts
<1>2. ASSUME NEW i \in Timers, NEW r \in RELOADS, count_timer(i, r) PROVE OnTime'
  BY <1>2 DEF OnTime, Counts, count_timer, cpu, video, TypeOK, TimerStates
<1>3. ASSUME NEW s \in TimerSettings, trigger_timer(s) PROVE OnTime'
  <2>1. execute_cycles' <= execute_cycles /\ execute_cycles' \in Nat /\ video_count' = video_count
    BY <1>3, StartedTimer DEF trigger_timer, video
  <2>2. video_count' > 0 /\ execute_cycles' <= video_count'
    BY <2>1 DEF OnTime, Counts, TypeOK
  <2>3. ASSUME NEW j \in Timers, timer'[j].status = "prescale"
        PROVE  timer'[j].count > 0 /\ execute_cycles' <= timer'[j].count
    <3>1. CASE j = s.timer
      BY <1>3, <3>1, StartedTimer DEF trigger_timer, TypeOK
    <3>2. CASE j # s.timer
      <4>1. timer'[j] = timer[j] /\ timer[j] \in TimerStates
        BY <1>3, <3>2 DEF trigger_timer, TypeOK
      <4>2. timer[j].count > 0 /\ execute_cycles <= timer[j].count /\ timer[j].count \in Int
        BY <2>3, <4>1 DEF OnTime, Counts, TimerStates
      <4> QED
        BY <2>1, <4>1, <4>2 DEF TypeOK
    <3> QED
      BY <3>1, <3>2
  <2> QED
    BY <2>2, <2>3 DEF OnTime, Counts
<1>4. ASSUME NEW i \in Timers, stop_timer(i) PROVE OnTime'
  BY <1>4 DEF OnTime, Counts, stop_timer, cpu, video, TypeOK, Stopped, TimerStates
<1>5. CASE Update
  BY <1>5, NextEvent DEF OnTime, Counts
<1> QED
  BY <1>1, <1>2, <1>3, <1>4, <1>5, Untouched DEF TimerWritten

----------------------------------------------------------------------------
(* The screen keeps time. *)

LEMMA LineLength ==
  ASSUME NEW n \in Nat, NEW l \in Nat
  PROVE  (n + 1) * l = n * l + l /\ n * l \in Nat /\ 0 * l = 0
OBVIOUS

LEMMA ScreenStep ==
  ASSUME TypeOK, ScreenKeepsTime, [Next]_vars
  PROVE  ScreenKeepsTime'
<1>1. CASE UNCHANGED video
  BY <1>1 DEF ScreenKeepsTime, video
<1>2. CASE Update
  <2> DEFINE line == HDRAW + HBLANK
  <2>1. /\ Elapsed \in Int /\ line \in Nat /\ HDRAW \in Nat /\ HBLANK \in Nat /\ TOTAL \in Nat
        /\ vcount \in Nat /\ cpu_ticks \in Int /\ video_count \in Int /\ hblank \in BOOLEAN
    BY ElapsedBound, Assumptions DEF TypeOK
  <2>2. cpu_ticks + video_count = vcount * line + HDRAW + (IF hblank THEN HBLANK ELSE 0)
    BY DEF ScreenKeepsTime
  <2>3. (vcount + 1) * line = vcount * line + line /\ vcount * line \in Nat /\ 0 * line = 0
    BY <2>1, LineLength
  <2>4. VideoNow
    BY <1>2 DEF Update
  <2> SUFFICES cpu_ticks' + video_count' = vcount' * line + HDRAW + (IF hblank' THEN HBLANK ELSE 0)
    BY DEF ScreenKeepsTime
  <2>5. CASE ~LineEnds
    <3>1. cpu_ticks' = cpu_ticks + Elapsed /\ video_count' = video_count - Elapsed
            /\ hblank' = hblank /\ vcount' = vcount
      BY <2>1, <2>4, <2>5 DEF VideoNow, FrameEnds
    <3> QED
      BY <2>1, <2>2, <2>3, <3>1
  <2>6. CASE LineEnds /\ ~hblank
    <3>1. cpu_ticks' = cpu_ticks + Elapsed /\ video_count' = video_count - Elapsed + HBLANK
            /\ hblank' = TRUE /\ vcount' = vcount
      BY <2>1, <2>4, <2>6 DEF VideoNow, FrameEnds
    <3> QED
      BY <2>1, <2>2, <2>3, <2>6, <3>1
  <2>7. CASE LineEnds /\ hblank /\ vcount + 1 # TOTAL
    <3>1. cpu_ticks' = cpu_ticks + Elapsed /\ video_count' = video_count - Elapsed + HDRAW
            /\ hblank' = FALSE /\ vcount' = vcount + 1
      BY <2>1, <2>4, <2>7 DEF VideoNow, FrameEnds, NextLine
    <3> QED
      BY <2>1, <2>2, <2>3, <2>7, <3>1
  <2>8. CASE LineEnds /\ hblank /\ vcount + 1 = TOTAL
    <3>1. cpu_ticks' = cpu_ticks + Elapsed - (vcount + 1) * line /\ video_count' = video_count - Elapsed + HDRAW
            /\ hblank' = FALSE /\ vcount' = 0
      BY <2>1, <2>4, <2>8 DEF VideoNow, FrameEnds, NextLine
    <3> QED
      BY <2>1, <2>2, <2>3, <2>8, <3>1
  <2> QED
    BY <2>1, <2>5, <2>6, <2>7, <2>8
<1> QED
  BY <1>1, <1>2, Untouched

----------------------------------------------------------------------------
(* Interrupts are raised. *)

(* Whoever changes what is flagged, enabled or masked goes by MaskedBy. *)
LEMMA MaskedIsRaised ==
  ASSUME NEW ie, NEW flags, NEW mask
  PROVE  ~cpu_has_interrupt(ie, flags, MaskedBy(ie, flags, mask))
BY Zenon DEF cpu_has_interrupt, MaskedBy

LEMMA InterruptStep ==
  ASSUME InterruptsAreRaised, [Next]_vars
  PROVE  InterruptsAreRaised'
<1>1. CASE UNCHANGED irqs
  BY <1>1, Zenon DEF InterruptsAreRaised, cpu_has_interrupt, irqs
<1>2. ASSUME UNCHANGED enabled, NEW mask, masked' = MaskedBy(enabled, flagged', mask)
      PROVE  InterruptsAreRaised'
  BY <1>2, MaskedIsRaised, Zenon DEF InterruptsAreRaised
<1>3. ASSUME NEW s \in DmaSettings, trigger_dma_now(s) PROVE InterruptsAreRaised'
  BY <1>2, <1>3 DEF trigger_dma_now
<1>4. ASSUME NEW ie \in IESettings, write_ie(ie) PROVE InterruptsAreRaised'
  <2>1. masked' = MaskedBy(enabled', flagged', masked)
    BY <1>4 DEF write_ie, CheckedMask
  <2> QED
    BY <2>1, MaskedIsRaised, Zenon DEF InterruptsAreRaised
<1>5. ASSUME NEW q \in Irqs, write_if({q}) PROVE InterruptsAreRaised'
  <2>1. enabled' = enabled /\ flagged' \subseteq flagged
    BY <1>5 DEF write_if
  <2>2. masked' = masked
    BY <1>5, Zenon DEF write_if
  <2> QED
    BY <2>1, <2>2, Zenon DEF InterruptsAreRaised, cpu_has_interrupt
<1>6. ASSUME NEW mask \in BOOLEAN, store_cpsr(mask) PROVE InterruptsAreRaised'
  BY <1>2, <1>6 DEF store_cpsr
<1>7. CASE Update
  <2>1. UNCHANGED enabled /\ masked' = MaskedBy(enabled, flagged', masked)
    BY <1>7 DEF Update
  <2> QED
    BY <1>2, <2>1
<1>8. CASE trigger_key
  BY <1>2, <1>8 DEF trigger_key
<1>9. \/ UNCHANGED irqs
      \/ \E s \in DmaSettings : trigger_dma_now(s)
      \/ \E ie \in IESettings : write_ie(ie)
      \/ \E q \in Irqs : write_if({q})
      \/ \E mask \in BOOLEAN : store_cpsr(mask)
      \/ Update \/ trigger_key
  BY DEF Next, vars, RunOut, Halt, trigger_dma, stop_dma, count_timer, trigger_timer, stop_timer,
         write_siocnt, write_dispstat, run_frame
<1> QED
  BY <1>1, <1>3, <1>4, <1>5, <1>6, <1>7, <1>8, <1>9

----------------------------------------------------------------------------
(* Stopped sound channels are not fed. *)

LEMMA TransferredSound ==
  ASSUME NEW d \in DmaStates, d.sound => d.start \in {"vblank", "hblank", "special"} /\ d.repeat
  PROVE  LET t == Transferred(d)
         IN  t.sound => t.start \in {"vblank", "hblank", "special"} /\ t.repeat
BY DEF Transferred, NoTransfer, DmaStates

LEMMA AfterSound ==
  ASSUME NEW channels \in [Channels -> DmaStates], NEW chosen,
         \A c \in Channels :
           channels[c].sound => channels[c].start \in {"vblank", "hblank", "special"} /\ channels[c].repeat
  PROVE  \A c \in Channels :
           LET t == After(channels, chosen)[c]
           IN  t.sound => t.start \in {"vblank", "hblank", "special"} /\ t.repeat
BY TransferredSound DEF After

LEMMA SoundStep ==
  ASSUME TypeOK, SoundRepeats, [Next]_vars
  PROVE  SoundRepeats'
<1>1. CASE UNCHANGED dma
  BY <1>1 DEF SoundRepeats
<1>2. ASSUME NEW s \in DmaSettings, trigger_dma(s) PROVE SoundRepeats'
  <2>1. s.start \in {"vblank", "hblank", "special"} /\ s.channel \in Channels
    BY <1>2, DmaAssumption DEF trigger_dma
  <2>2. ~dma[s.channel].sound
    BY <1>2, <2>1 DEF trigger_dma, SoundRepeats
  <2>3. Enabled(s).sound => Enabled(s).start \in {"vblank", "hblank", "special"} /\ Enabled(s).repeat
    BY <2>1, <2>2, SoundAssumption DEF Enabled
  <2> QED
    BY <1>2, <2>1, <2>3 DEF trigger_dma, SoundRepeats, TypeOK
<1>3. ASSUME NEW s \in DmaSettings, trigger_dma_now(s) PROVE SoundRepeats'
  <2>1. s.start = "now" /\ s.channel \in Channels
    BY <1>3, DmaAssumption DEF trigger_dma_now
  <2>2. ~dma[s.channel].sound
    BY <1>3, <2>1 DEF trigger_dma_now, SoundRepeats
  <2>3. ~Enabled(s).sound /\ Enabled(s).start = "now"
    BY <2>1, <2>2 DEF Enabled
  <2>4. ~Transferred(Enabled(s)).sound
    BY <2>3 DEF Transferred, NoTransfer
  <2> QED
    BY <1>3, <2>1, <2>4 DEF trigger_dma_now, SoundRepeats, TypeOK
<1>4. ASSUME NEW c \in Channels, stop_dma(c) PROVE SoundRepeats'
  BY <1>4 DEF stop_dma, SoundRepeats, Disabled, NoTransfer, TypeOK
<1>5. CASE Update
  <2>1. PICK sound \in SUBSET SoundRequests :
          dma' = After(After(dma, sound), VideoTransfers(After(dma, sound)))
    BY <1>5 DEF Update
  <2>2. dma \in [Channels -> DmaStates] /\ After(dma, sound) \in [Channels -> DmaStates]
    BY AfterType DEF TypeOK
  <2>3. \A c \in Channels :
          LET t == After(dma, sound)[c]
          IN  t.sound => t.start \in {"vblank", "hblank", "special"} /\ t.repeat
    BY <2>2, AfterSound DEF SoundRepeats
  <2> QED
    BY <2>1, <2>2, <2>3, AfterSound DEF SoundRepeats
<1> QED
  BY <1>1, <1>2, <1>3, <1>4, <1>5, Untouched DEF DmaWritten

----------------------------------------------------------------------------
(* A DMA's sleep is served. *)

SleepServed == halt_state = CPU_DMA /\ halt_state' = CPU_ACTIVE => owed' = 0

LEMMA SleepStep ==
  ASSUME TypeOK, PrescalesKnown, OnTime, SleepIsOwed, [Next]_vars
  PROVE  SleepIsOwed' /\ SleepServed
<1> USE DEF CPU_ACTIVE, CPU_DMA, CPU_HALT, CPU_STOP
<1>1. CASE UNCHANGED <<halt_state, owed, sleep_cycles, sleep_first, execute_cycles, remaining, pc>>
  BY <1>1 DEF SleepIsOwed, SleepServed
<1>2. ASSUME NEW state \in {CPU_STOP, CPU_HALT}, Halt(state) PROVE SleepIsOwed' /\ SleepServed
  BY <1>2 DEF SleepIsOwed, SleepServed, Halt, TypeOK
<1>3. ASSUME NEW s \in DmaSettings, trigger_dma_now(s) PROVE SleepIsOwed' /\ SleepServed
  <2>1. s.cycles \in Nat \ {0}
    BY DmaAssumption
  <2> QED
    BY <1>3, <2>1 DEF SleepIsOwed, SleepServed, trigger_dma_now
<1>4. CASE RunOut
  BY <1>4 DEF SleepIsOwed, SleepServed, RunOut, TypeOK
<1>5. CASE TimerWritten
  <2>1. pc = "cpu" /\ halt_state' = halt_state
    BY <1>5 DEF TimerWritten, count_timer, trigger_timer, stop_timer, cpu
  <2> QED
    BY <2>1 DEF SleepIsOwed, SleepServed, TypeOK
<1>6. CASE trigger_key
  <2>1. halt_state = CPU_DMA <=> halt_state' = CPU_DMA
    BY <1>6 DEF trigger_key, Raised, Woken, TypeOK
  <2>2. UNCHANGED <<owed, sleep_cycles, sleep_first, execute_cycles, remaining, pc>>
    BY <1>6 DEF trigger_key, sleep
  <2> QED
    BY <2>1, <2>2 DEF SleepIsOwed, SleepServed
<1>7. CASE run_frame
  <2>1. UNCHANGED <<halt_state, owed, sleep_cycles, sleep_first, execute_cycles>>
          /\ remaining' = execute_cycles /\ pc = "frame"
    BY <1>7 DEF run_frame, sleep
  <2> QED
    BY <2>1 DEF SleepIsOwed, SleepServed
<1>8. CASE Update
  <2>1. SleepNow(Raised(halt_state, enabled, flagged', masked)) /\ pc = "update"
    BY <1>8 DEF Update
  <2>2. CASE halt_state # CPU_DMA
    <3>1. Raised(halt_state, enabled, flagged', masked) # CPU_DMA
      BY <2>2 DEF Raised, Woken
    <3>2. halt_state' # CPU_DMA
      BY <2>1, <3>1 DEF SleepNow
    <3> QED
      BY <2>2, <3>2 DEF SleepIsOwed, SleepServed
  <2>3. CASE halt_state = CPU_DMA
    <3>1. Raised(halt_state, enabled, flagged', masked) = CPU_DMA
      BY <2>3 DEF Raised, Woken
    <3>2. /\ sleep_cycles' = sleep_cycles - Slept /\ sleep_first' = FALSE
          /\ owed' = IF sleep_first THEN owed ELSE owed - Elapsed
          /\ halt_state' = IF sleep_cycles = Slept THEN CPU_ACTIVE ELSE CPU_DMA
      BY <2>1, <3>1 DEF SleepNow
    <3>3. owed = sleep_cycles /\ sleep_cycles > 0 /\ sleep_cycles \in Nat
      BY <2>3 DEF SleepIsOwed, TypeOK
    <3>4. Slept \in Int /\ Slept <= sleep_cycles /\ owed' = owed - Slept
      <4>1. CASE sleep_first
        BY <3>2, <3>3, <4>1 DEF Slept
      <4>2. CASE ~sleep_first
        <5>1. remaining \in {0, execute_cycles} /\ execute_cycles <= sleep_cycles /\ execute_cycles \in Nat
          BY <2>1, <2>3, <4>2 DEF SleepIsOwed, TypeOK
        <5>2. Elapsed \in Nat /\ Elapsed <= sleep_cycles
          BY <3>3, <5>1, Assumptions DEF Elapsed, Clamped
        <5> QED
          BY <3>2, <3>3, <4>2, <5>2 DEF Slept, Covers
      <4> QED
        BY <4>1, <4>2
    <3>5. owed' = sleep_cycles' /\ (halt_state' = CPU_ACTIVE => owed' = 0) /\ (halt_state' = CPU_DMA => sleep_cycles' > 0)
      BY <3>2, <3>3, <3>4
    <3>6. ASSUME halt_state' = CPU_DMA
          PROVE  execute_cycles' <= sleep_cycles' /\ remaining' = 0
      <4>1. execute_cycles' \in EventTimes /\ \A c \in EventTimes : execute_cycles' <= c
        BY <1>8 DEF Update
      <4>2. sleep_cycles' \in EventTimes
        BY <3>6 DEF EventTimes
      <4>3. remaining' = 0
        BY <1>8, <3>6 DEF Update
      <4> QED
        BY <4>1, <4>2, <4>3
    <3> QED
      BY <3>2, <3>5, <3>6 DEF SleepIsOwed, SleepServed
  <2> QED
    BY <2>2, <2>3
<1> QED
  BY <1>1, <1>2, <1>3, <1>4, <1>5, <1>6, <1>7, <1>8, Untouched DEF Asleep

----------------------------------------------------------------------------
LEMMA Step == IInv /\ [Next]_vars => IInv'
BY TypeStep, PrescaleStep, OnTimeStep, SoundStep, SleepStep, InterruptStep, ScreenStep DEF IInv

LEMMA Invariant == Spec => []IInv
<1>1. Init => IInv
  BY InitCorrect
<1>2. IInv /\ [Next]_vars => IInv'
  BY Step
<1> QED
  BY <1>1, <1>2, PTL DEF Spec

(* Every variable keeps its type, and a CPU that runs is not asleep. *)
THEOREM TypeCorrect == Spec => []TypeOK
<1>1. IInv => TypeOK
  BY DEF IInv
<1> QED
  BY <1>1, Invariant, PTL

(* When the CPU runs nothing is overdue, and it stops for the next event:  *)
(* update_gba's minimum, whatever the program writes to the timers.        *)
THEOREM EventsOnTime == Spec => []EventsAreOnTime
<1>1. IInv => EventsAreOnTime
  BY DEF IInv, OnTime, EventsAreOnTime
<1> QED
  BY <1>1, Invariant, PTL

(* No interrupt is left pending that could be raised. *)
THEOREM InterruptsRaised == Spec => []InterruptsAreRaised
<1>1. IInv => InterruptsAreRaised
  BY DEF IInv
<1> QED
  BY <1>1, Invariant, PTL

(* The screen's lines follow the cycles accounted exactly. *)
THEOREM ScreenTime == Spec => []ScreenKeepsTime
<1>1. IInv => ScreenKeepsTime
  BY DEF IInv
<1> QED
  BY <1>1, Invariant, PTL

(* The timers feed no sound channel that is not in use. *)
THEOREM SoundStopped == Spec => []StoppedSoundIsNotFed
<1>1. IInv => StoppedSoundIsNotFed
  BY DEF IInv, SoundRepeats, StoppedSoundIsNotFed, SoundChannels
<1> QED
  BY <1>1, Invariant, PTL

(* The CPU sleeps for a DMA's cycles, no more and no less. *)
THEOREM SleepCorrect == Spec => SleepIsServed
<1>1. IInv /\ [Next]_vars => (halt_state = CPU_DMA /\ halt_state' = CPU_ACTIVE => owed' = 0)
  BY SleepStep DEF IInv, SleepServed
<1>2. Spec => [][halt_state = CPU_DMA /\ halt_state' = CPU_ACTIVE => owed' = 0]_vars
  BY <1>1, Invariant, PTL DEF Spec
<1> QED
  BY <1>2 DEF SleepIsServed
=============================================================================
