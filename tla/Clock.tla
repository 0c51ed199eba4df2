-------------------------------- MODULE Clock --------------------------------
(***************************************************************************)
(* The clock interrupt: handle_clock of arch/mips/clock.c with the Count   *)
(* and Compare registers of the processor, of CountBits bits (32 in the    *)
(* code).  Count goes on while the handler runs and while the interrupt    *)
(* waits; the processor raises the interrupt whenever Count is Compare,    *)
(* and writing Compare takes it back.                                      *)
(***************************************************************************)
EXTENDS Integers

CONSTANT CountBits

CountSize == 2^CountBits

(* At least 4 bits, so that a sixteenth of a round of Count is not zero *)
ASSUME ClockAssumption == CountBits \in Nat /\ CountSize \in Nat /\ CountSize >= 16

Period == CountSize \div 16     \* 0x10000000

VARIABLES counter, compare,
          ti,         \* Cause.TI
          handling    \* "no", "write" or "check": the loop of handle_clock

clockVars == <<counter, compare, ti, handling>>

ClockInit == counter = 0 /\ compare = Period /\ ti = FALSE /\ handling = "no"

CountUp ==
  /\ counter' = (counter + 1) % CountSize
  /\ ti' = (ti \/ counter' = compare)
  /\ UNCHANGED <<compare, handling>>

(* The interrupt is taken, at once or late *)
Interrupted == handling = "no" /\ ti /\ handling' = "write" /\ UNCHANGED <<counter, compare, ti>>

write_c0_compare ==
  /\ handling = "write" /\ handling' = "check"
  /\ compare' = (compare + Period) % CountSize
  /\ ti' = (counter = compare')
  /\ UNCHANGED counter

(* Mutant: one step ahead is taken to be enough *)
Behind_never == FALSE

(* The condition of the loop: an unsigned difference *)
Behind == (compare - counter) % CountSize > Period

read_c0_count ==
  /\ handling = "check"
  /\ handling' = IF Behind THEN "write" ELSE "no"
  /\ UNCHANGED <<counter, compare, ti>>

ClockNext == CountUp \/ Interrupted \/ write_c0_compare \/ read_c0_count

ClockSpec == ClockInit /\ [][ClockNext]_clockVars

(* "until it is ahead, but not too far from CP0_COUNT": however late the   *)
(* interrupt was taken, and however long the handler runs, the next one is *)
(* pending or at most a period away, and not a whole round of Count.       *)
ClockAlive == handling = "no" => ti \/ (compare - counter) % CountSize \in 1..Period
=============================================================================
