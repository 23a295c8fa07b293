---------------------------- MODULE MCEventLoop ----------------------------
(* A small screen: two lines of three and two cycles, one of them drawn.   *)
EXTENDS EventLoop

Timer(i, status, prescale, irq) ==
  [timer |-> i, status |-> status, prescale |-> prescale, irq |-> irq]
Transfer(c, start, repeat, irq, cycles) ==
  [channel |-> c, start |-> start, repeat |-> repeat, irq |-> irq, cycles |-> cycles]

MCTimers == {Timer(0, "prescale", 1, TRUE), Timer(1, "cascade", 1, FALSE)}
MCDmas == {Transfer(1, "now", FALSE, FALSE, 2), Transfer(1, "special", TRUE, TRUE, 1),
           Transfer(1, "hblank", TRUE, FALSE, 1)}
MCDisplays == {[vblank |-> TRUE, hblank |-> FALSE, vcount |-> FALSE, lyc |-> 0]}
MCSerials == {[cycles |-> 1, irq |-> FALSE]}
MCIEs == {{IRQ_VBLANK, IRQ_TIMER0, IRQ_DMA0 + 1}}
=============================================================================
