---------------------------- MODULE MCGpuDriver ----------------------------
EXTENDS GpuDriver

Fn(b, s, f, vendor, device, class) ==
  [bus |-> b, slot |-> s, func |-> f, vendor |-> vendor, device |-> device,
   class |-> class, subclass |-> 0]

\* The machine of the emulator: a host bridge, a bridge with two functions, the
\* display.  One with displays in the first and in the last place of the scan, and
\* one the scan does not look for: a display that is function 1.  And an empty one.
MCTopologies ==
  { {},
    { Fn(0, 0, 0, 32902, 10688, 6), Fn(0, 1, 0, 4660, 4369, 3),
      Fn(0, 31, 0, 32902, 10520, 6), Fn(0, 31, 3, 32902, 10544, 12) },
    { Fn(0, 0, 0, 4318, 7040, 3), Fn(1, 0, 0, 4318, 4026, 4), Fn(1, 0, 1, 4098, 29663, 3),
      Fn(255, 31, 0, 6880, 4176, 3) } }
=============================================================================
