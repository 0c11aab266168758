----------------------------- MODULE GpuDriver -----------------------------
(***************************************************************************)
(* The scan of the GPU driver (userland/drivers/gpu_driver) for display    *)
(* controllers, down to the I/O ports: the wrappers of libstardust, the    *)
(* kernel's SYS_PORT_OUT, SYS_PORT_IN and SYS_BATCH_EXECUTE, and the PCI   *)
(* configuration registers 0xCF8 and 0xCFC (external).  The PS/2 driver    *)
(* writes to its own ports meanwhile.  A 32-bit word is a pair of 16-bit   *)
(* halves.  Each system call is one step.                                  *)
(***************************************************************************)
EXTENDS Naturals, Sequences, FiniteSets

CONSTANT Topologies      \* the sets of PCI functions considered

Function == [bus : 0..255, slot : 0..31, func : 0..7, vendor : Nat, device : Nat,
             class : 0..255, subclass : 0..255]

\* 0xFFFF is no vendor, and no two functions of a machine have one address.
ASSUME GpuDriverAssumption ==
  \A T \in Topologies :
    /\ T \subseteq Function /\ IsFiniteSet(T)
    /\ \A f \in T : f.vendor < 65535 /\ f.device <= 65535
    /\ \A f, g \in T : f.bus = g.bus /\ f.slot = g.slot /\ f.func = g.func => f = g

VARIABLES functions,     \* the PCI functions of this machine
          CONFIG_ADDRESS,
          scan, bus, slot, vendor_device, \* the driver
          log,           \* the commands the kernel has logged
          ps2            \* the port writes the PS/2 driver has still to do

scanVars == <<functions, CONFIG_ADDRESS, scan, bus, slot, vendor_device, log, ps2>>

Word(hi, lo) == [hi |-> hi, lo |-> lo]

\* The wrappers pack size and port into one argument.
PackedAsByte(port, size) == 65536 + port
Packed(port, size) == size * 65536 + port
sys_port_out32(port, data) == [arg1 |-> Packed(port, 4), arg2 |-> data]
sys_port_out(port, data) == [arg1 |-> Packed(port, 1), arg2 |-> Word(0, data)]

ScanInit ==
  /\ functions \in Topologies
  /\ CONFIG_ADDRESS = Word(0, 0)
  /\ scan = "start" /\ bus = 0 /\ slot = 0 /\ vendor_device = Word(0, 0)
  /\ log = <<>>
  /\ ps2 = <<sys_port_out(100, 168), sys_port_out(100, 212), sys_port_out(96, 244)>>

\* SYS_PORT_OUT unpacks them.  CONFIG_ADDRESS takes whole words only.
PortOut(call) ==
  LET port == call.arg1 % 65536
      size == (call.arg1 \div 65536) % 65536
  IN  CONFIG_ADDRESS' = IF port = 3320 /\ size = 4 THEN call.arg2 ELSE CONFIG_ADDRESS

\* SYS_PORT_IN of port 0xCFC, 4 bytes: the register of the function that
\* CONFIG_ADDRESS names, all ones if there is no such function.
Addressed(f) ==
  /\ f.bus = CONFIG_ADDRESS.hi - 32768
  /\ f.slot = CONFIG_ADDRESS.lo \div 2048
  /\ f.func = (CONFIG_ADDRESS.lo \div 256) % 8

PortIn ==
  LET found == {f \in functions : Addressed(f)} IN
  IF found = {} THEN Word(65535, 65535)
  ELSE LET f == CHOOSE g \in found : TRUE IN
       IF CONFIG_ADDRESS.lo % 256 = 0 THEN Word(f.device, f.vendor)
                                      ELSE Word(f.class * 256 + f.subclass, 0)

\* SYS_BATCH_EXECUTE logs each command of a batch, the 32 bits of the action and
\* the 32 bits of the payload apart; trace_event calls it with one command, on its
\* stack, an address the kernel's pointer check passes.
BatchExecute(batch) == log' = log \o batch
Trace(data) == [action |-> 56160, payload |-> data]     \* 0xDB60
trace_event(data) == BatchExecute(<<Trace(data)>>)

\* The PS/2 driver's writes, on another core.
Ps2Write ==
  /\ ps2 # <<>>
  /\ PortOut(Head(ps2))
  /\ ps2' = Tail(ps2)
  /\ UNCHANGED <<functions, scan, bus, slot, vendor_device, log>>
-----------------------------------------------------------------------------
Start ==
  /\ scan = "start"
  /\ trace_event(Word(0, 28672))         \* 0x7000
  /\ scan' = "address"
  /\ UNCHANGED <<functions, CONFIG_ADDRESS, bus, slot, vendor_device, ps2>>

\* pci_read_32 is two system calls: the address, then the data.
address(func, offset) == Word(32768 + bus, slot * 2048 + func * 256 + offset)

WriteAddress(here, next, offset) ==
  /\ scan = here
  /\ PortOut(sys_port_out32(3320, address(0, offset)))
  /\ scan' = next
  /\ UNCHANGED <<functions, bus, slot, vendor_device, log, ps2>>

\* The end of the inner loop's body: slots 0 to 31 of the busses 0 to 255.
SameBus(b) == b
NextBus(b) == b + 1

NextSlot ==
  IF slot < 31 THEN slot' = slot + 1 /\ bus' = bus /\ scan' = "address"
  ELSE IF bus < 255 THEN slot' = 0 /\ bus' = NextBus(bus) /\ scan' = "address"
  ELSE scan' = "end" /\ UNCHANGED <<bus, slot>>

ReadVendor ==
  /\ scan = "vendor"
  /\ vendor_device' = PortIn
  /\ IF vendor_device'.lo = 65535 THEN NextSlot
     ELSE scan' = "class_address" /\ UNCHANGED <<bus, slot>>
  /\ UNCHANGED <<functions, CONFIG_ADDRESS, log, ps2>>

ReadClass ==
  /\ scan = "class"
  /\ IF PortIn.hi \div 256 = 3 THEN scan' = "found" /\ UNCHANGED <<bus, slot>>
                               ELSE NextSlot
  /\ UNCHANGED <<functions, CONFIG_ADDRESS, vendor_device, log, ps2>>

Found ==
  /\ scan = "found"
  /\ trace_event(Word(0, 28673))         \* 0x7001
  /\ scan' = "report"
  /\ UNCHANGED <<functions, CONFIG_ADDRESS, bus, slot, vendor_device, ps2>>

\* 0x9000_0000 and the vendor share bits: those of 0x9000 are always set.
WithBit(n, b) == IF (n \div b) % 2 = 1 THEN n ELSE n + b
Payload(vendor, device) == Word(WithBit(WithBit(vendor, 4096), 32768), device)

Report ==
  /\ scan = "report"
  /\ trace_event(Payload(vendor_device.lo, vendor_device.hi))
  /\ NextSlot
  /\ UNCHANGED <<functions, CONFIG_ADDRESS, vendor_device, ps2>>

End ==
  /\ scan = "end"
  /\ trace_event(Word(0, 28687))         \* 0x700F
  /\ scan' = "done"
  /\ UNCHANGED <<functions, CONFIG_ADDRESS, bus, slot, vendor_device, ps2>>

Driver ==
  \/ Start \/ ReadVendor \/ ReadClass \/ Found \/ Report \/ End
  \/ WriteAddress("address", "vendor", 0)
  \/ WriteAddress("class_address", "class", 8)

ScanNext == Driver \/ Ps2Write

ScanSpec == ScanInit /\ [][ScanNext]_scanVars

\* The driver's core keeps executing it.
FairScanSpec == ScanSpec /\ WF_scanVars(Driver)
-----------------------------------------------------------------------------
\* The display controllers a scan should report, those that are function 0 of their
\* slot, and the ones that come up to one of them in the order of bus and slot.
Displays == {f \in functions : f.func = 0 /\ f.class = 3}
UpTo(f) == {g \in Displays : g.bus < f.bus \/ (g.bus = f.bus /\ g.slot <= f.slot)}

\* A command tells a function's device, and its vendor but for bits 12 and 15.
Tells(command, f) ==
  /\ command.action = 56160 /\ command.payload.lo = f.device
  /\ command.payload.hi % 4096 = f.vendor % 4096
  /\ (command.payload.hi \div 8192) % 4 = (f.vendor \div 8192) % 4

\* The log holds the mark of the start, a mark and a report for each display
\* controller that is function 0 of its slot, and the mark of the end, in the order
\* of the scan and nothing else, although address and data go through two system
\* calls and the same two registers for every function.  This is less than the
\* driver's comments say: its "exhaustive scan of the PCI topology" passes over the
\* functions 1 to 7, and the tag 0x9000 of "Report Vendor/Device ID" hides two bits
\* of the vendor.
LogIsRight ==
  LET n == 2 * Cardinality(Displays) + 2 IN
  /\ Len(log) <= n /\ (scan = "done" => Len(log) = n)
  /\ Len(log) >= 1 => log[1] = Trace(Word(0, 28672))
  /\ Len(log) = n => log[n] = Trace(Word(0, 28687))
  /\ \A f \in Displays :
       LET i == 2 * Cardinality(UpTo(f)) IN
       /\ i <= Len(log) => log[i] = Trace(Word(0, 28673))
       /\ i < Len(log) => Tells(log[i + 1], f)

\* The scan, whose last bus is the last value of a byte, comes to an end.
ScanEnds == <>(scan = "done")
=============================================================================
