------------------------------- MODULE Mailbox -------------------------------
(***************************************************************************)
(* A sweep of the FPGA oracle: the host (fpga/host/measure.py) and the     *)
(* firmware on the measured core (fpga/firmware/measure_stub.c) share six  *)
(* memory-mapped registers (mailbox.h) and nothing else.  Every access is  *)
(* a step; the two sides run at their own speed.                           *)
(*                                                                         *)
(* Neither is held to any speed.  `early` remembers that the host raised   *)
(* GO before the core had cleared the DONE of the run before.  The         *)
(* opposite hazard is there too: DONE is up only until the core is back at *)
(* the top of its loop, and a host that polls slower misses it.  `answer`  *)
(* keeps how far the core got with the GO the host polls for: read it, and *)
(* then set DONE.  No guard reads the history.                             *)
(* Cycles[x] is what the bracket of mcycle reads counts for input x; what  *)
(* minstret and the result hold is known by the input they are for.        *)
(***************************************************************************)
EXTENDS Integers, Sequences, SequencesExt

CONSTANTS
  Inputs,   \* the sweep
  Cycles,   \* input -> cycles, below the width of the counter
  Word      \* 2^32: the counters and registers wrap

ASSUME MailboxConstants ==
  /\ Word \in Nat \ {0}
  /\ Inputs \in Seq(Nat)
  /\ Cycles \in [ToSet(Inputs) \cup {0} -> 0..Word - 1]

VARIABLES
  mbx,             \* the registers
  hpc, next, got,  \* host: where it is, index in the sweep, the Measurement being read
  meas,            \* host: the measurements returned
  cpc, x, c0, c1,  \* core: where it is, its locals
  pulses, runs,    \* history: GO raised, target runs
  early,           \* history: a GO was raised while DONE was still up
  answer           \* history: what the core did about the GO the host polls for

host == <<hpc, next, got, meas>>
core == <<cpc, x, c0, c1>>
vars == <<mbx, hpc, next, got, meas, cpc, x, c0, c1, pulses, runs, early, answer>>

Words == 0..Word - 1
Blank == 0   \* what a register resets to
Values == ToSet(Inputs) \cup {Blank}
Registers == [input : Values, go : {0, 1}, done : {0, 1},
              mcycle : Words, minstret : Values, result : Values]
Measurement == [input : Values, mcycle : Words, minstret : Values, result : Values]

\* A fresh overlay: registers are zero, the firmware starts.
Init ==
  /\ mbx = [input |-> Blank, go |-> 0, done |-> 0, mcycle |-> 0,
            minstret |-> Blank, result |-> Blank]
  /\ hpc = "input" /\ next = 1 /\ meas = <<>>
  /\ got = [input |-> Blank, mcycle |-> 0, minstret |-> Blank, result |-> Blank]
  /\ cpc = "clear" /\ x = Blank /\ c0 = 0 /\ c1 = 0
  /\ pulses = 0 /\ runs = 0 /\ early = FALSE /\ answer = "none"

-----------------------------------------------------------------------------
(* run_once, called by sweep for each input.                               *)

WriteInput ==
  /\ hpc = "input" /\ next <= Len(Inputs)
  /\ mbx' = [mbx EXCEPT !.input = Inputs[next]]
  /\ hpc' = "go"
  /\ UNCHANGED <<next, got, meas, core, pulses, runs, early, answer>>

RaiseGo ==
  /\ hpc = "go"
  /\ mbx' = [mbx EXCEPT !.go = 1]
  /\ hpc' = "poll" /\ pulses' = pulses + 1
  /\ early' = (early \/ mbx.done = 1) /\ answer' = "none"
  /\ UNCHANGED <<next, got, meas, core, runs>>

\* while DONE == 0
SeeDone ==
  /\ hpc = "poll" /\ mbx.done = 1
  /\ hpc' = "mcycle"
  /\ UNCHANGED <<mbx, next, got, meas, core, pulses, runs, early, answer>>

\* The TimeoutError ends the sweep.
Timeout ==
  /\ hpc = "poll" /\ mbx.done = 0
  /\ hpc' = "timeout"
  /\ UNCHANGED <<mbx, next, got, meas, core, pulses, runs, early, answer>>

ReadMcycle ==
  /\ hpc = "mcycle"
  /\ got' = [got EXCEPT !.input = Inputs[next], !.mcycle = mbx.mcycle]
  /\ hpc' = "minstret"
  /\ UNCHANGED <<mbx, next, meas, core, pulses, runs, early, answer>>

MinstretReadOneOff == mbx.mcycle     \* slip: the offset of the register before
MinstretRead == mbx.minstret

ReadMinstret ==
  /\ hpc = "minstret"
  /\ got' = [got EXCEPT !.minstret = MinstretRead]
  /\ hpc' = "result"
  /\ UNCHANGED <<mbx, next, meas, core, pulses, runs, early, answer>>

ReadResult ==
  /\ hpc = "result"
  /\ got' = [got EXCEPT !.result = mbx.result]
  /\ meas' = Append(meas, got')
  /\ hpc' = "input" /\ next' = next + 1
  /\ UNCHANGED <<mbx, core, pulses, runs, early, answer>>

-----------------------------------------------------------------------------
(* The firmware's loop.                                                    *)

Clear ==
  /\ cpc = "clear"
  /\ mbx' = [mbx EXCEPT !.done = 0]
  /\ cpc' = "spin"
  /\ UNCHANGED <<host, x, c0, c1, pulses, runs, early, answer>>

GoSeenAlways == TRUE                 \* slip: the spin loop is empty
GoSeen == mbx.go = 1

SeeGo ==
  /\ cpc = "spin" /\ GoSeen
  /\ cpc' = "ack"
  /\ answer' = IF hpc = "poll" THEN "seen" ELSE answer
  /\ UNCHANGED <<mbx, host, x, c0, c1, pulses, runs, early>>

KeepGo == UNCHANGED mbx              \* slip: GO is not acknowledged
ClearGo == mbx' = [mbx EXCEPT !.go = 0]

Acknowledge ==
  /\ cpc = "ack"
  /\ ClearGo
  /\ cpc' = "load"
  /\ UNCHANGED <<host, x, c0, c1, pulses, runs, early, answer>>

LoadInput ==
  /\ cpc = "load"
  /\ x' = mbx.input
  /\ cpc' = "run"
  /\ UNCHANGED <<mbx, host, c0, c1, pulses, runs, early, answer>>

\* The free-running counter is read, the target runs, it is read again.
RunTarget ==
  /\ cpc = "run"
  /\ c0' \in Words
  /\ c1' = (c0' + Cycles[x]) % Word
  /\ runs' = runs + 1
  /\ cpc' = "mcycle"
  /\ UNCHANGED <<mbx, host, x, pulses, early, answer>>

Elapsed == (c1 - c0) % Word

StoreMcycle ==
  /\ cpc = "mcycle"
  /\ mbx' = [mbx EXCEPT !.mcycle = Elapsed]
  /\ cpc' = "minstret"
  /\ UNCHANGED <<host, x, c0, c1, pulses, runs, early, answer>>

StoreMinstret ==
  /\ cpc = "minstret"
  /\ mbx' = [mbx EXCEPT !.minstret = x]
  /\ cpc' = "result"
  /\ UNCHANGED <<host, x, c0, c1, pulses, runs, early, answer>>

StoreResult ==
  /\ cpc = "result"
  /\ mbx' = [mbx EXCEPT !.result = x]
  /\ cpc' = "done"
  /\ UNCHANGED <<host, x, c0, c1, pulses, runs, early, answer>>

SetDone ==
  /\ cpc = "done"
  /\ mbx' = [mbx EXCEPT !.done = 1]
  /\ cpc' = "clear"
  /\ answer' = IF hpc = "poll" /\ answer = "seen" THEN "signalled" ELSE answer
  /\ UNCHANGED <<host, x, c0, c1, pulses, runs, early>>

HostStep ==
  WriteInput \/ RaiseGo \/ SeeDone \/ ReadMcycle \/ ReadMinstret \/ ReadResult

CoreStep ==
  \/ Clear \/ SeeGo \/ Acknowledge \/ LoadInput \/ RunTarget
  \/ StoreMcycle \/ StoreMinstret \/ StoreResult \/ SetDone

Next == HostStep \/ Timeout \/ CoreStep

Spec == Init /\ [][Next]_vars

-----------------------------------------------------------------------------
(* Properties.                                                             *)

\* Registers, locals and counters stay within their ranges.
TypeOK ==
  /\ mbx \in Registers
  /\ hpc \in {"input", "go", "poll", "mcycle", "minstret", "result", "timeout"}
  /\ next \in 1..Len(Inputs) + 1
  /\ got \in Measurement /\ meas \in Seq(Measurement)
  /\ cpc \in {"clear", "spin", "ack", "load", "run", "mcycle", "minstret", "result", "done"}
  /\ x \in Values /\ c0 \in Words /\ c1 \in Words
  /\ pulses \in Nat /\ runs \in Nat /\ early \in BOOLEAN
  /\ answer \in {"none", "seen", "signalled"}

\* What run_once is for: as long as the core has cleared DONE each time the host
\* raises GO, each measurement is the count, instructions and result of its own
\* input, whatever the counter was when the run began.
Right(m) == m.mcycle = Cycles[m.input] /\ m.minstret = m.input /\ m.result = m.input
MeasurementsRight ==
  ~early => \A i \in DOMAIN meas : meas[i].input = Inputs[i] /\ Right(meas[i])

\* mailbox.h: "One run per GO pulse", at most: the core never measures unasked.
NoRunUnasked == runs <= pulses

\* measure.py: the TimeoutError says "NEORV32 did not signal DONE": at the deadline the
\* core has not both read the GO the host waits for and set DONE for it.  (answer stands
\* still once the host has stopped polling, so what the core does later does not count.)
TimeoutMeansNoDone == hpc = "timeout" => answer # "signalled"
=============================================================================
