---------------------------- MODULE MailboxProofs ----------------------------
(***************************************************************************)
(* Proofs about Mailbox, for every sweep, target and counter width.        *)
(***************************************************************************)
EXTENDS Mailbox, TLAPS

-----------------------------------------------------------------------------
(* The counter.                                                            *)

\* A value below the width is its own remainder; one turn forward or back is undone.
LEMMA WrapSmall == ASSUME NEW a \in Nat, NEW w \in Nat \ {0}, a < w PROVE a % w = a
  OBVIOUS

LEMMA WrapOnce == ASSUME NEW a \in Nat, NEW w \in Nat \ {0}, a < w PROVE (a + w) % w = a
  OBVIOUS

LEMMA WrapBack == ASSUME NEW a \in Nat, NEW w \in Nat \ {0}, a < w PROVE (a - w) % w = a
  OBVIOUS

\* The wrapping difference of two wrapping readings is the count between them.
LEMMA Difference ==
  ASSUME NEW s \in Words, NEW d \in Words
  PROVE  (s + d) % Word \in Words /\ (((s + d) % Word) - s) % Word = d
  <1>1. Word \in Nat \ {0} /\ s \in Nat /\ d \in Nat /\ s < Word /\ d < Word
    BY MailboxConstants DEF Words
  <1>2. CASE s + d < Word
    <2>1. (s + d) % Word = s + d
      BY <1>1, <1>2, WrapSmall
    <2>2. d % Word = d
      BY <1>1, WrapSmall
    <2>3. (s + d) - s = d
      BY <1>1
    <2>4. QED
      BY <1>1, <1>2, <2>1, <2>2, <2>3 DEF Words
  <1>3. CASE s + d >= Word
    <2>1. s + d - Word \in Nat /\ s + d - Word < Word /\ s + d = (s + d - Word) + Word
      BY <1>1, <1>3
    <2>2. (s + d) % Word = s + d - Word
      BY <1>1, <2>1, WrapOnce
    <2>3. (s + d - Word) - s = d - Word
      BY <1>1
    <2>4. (d - Word) % Word = d
      BY <1>1, WrapBack
    <2>5. QED
      BY <1>1, <2>1, <2>2, <2>3, <2>4 DEF Words
  <1>4. QED
    BY <1>1, <1>2, <1>3

-----------------------------------------------------------------------------
(* Types.                                                                  *)

\* The index of the sweep stays on its inputs, and the model's domains fit together.
LEMMA SweptInput == ASSUME NEW i \in 1..Len(Inputs) PROVE Inputs[i] \in ToSet(Inputs)
  BY MailboxConstants DEF ToSet

LEMMA WordsPositive == 0 \in Words /\ Blank \in Values /\ Cycles \in [Values -> Words]
  BY MailboxConstants DEF Words, Values, Blank

\* next stays on an input of the sweep while run_once is under way.
OnInput == hpc \notin {"input", "timeout"} => next \in 1..Len(Inputs)

Typed == TypeOK /\ OnInput

\* A sweep starts well typed.
LEMMA TypedInit == Init => Typed
  <1> SUFFICES ASSUME Init PROVE Typed
    OBVIOUS
  <1>1. next \in 1..Len(Inputs) + 1
    BY MailboxConstants DEF Init
  <1>2. <<>> \in Seq(Measurement)
    OBVIOUS
  <1>3. QED
    BY <1>1, <1>2, WordsPositive DEF Init, Typed, TypeOK, OnInput, Registers, Measurement

\* Every step keeps the variables typed.
LEMMA TypedStep ==
  ASSUME Typed, [Next]_vars
  PROVE  Typed'
  <1> USE DEF Typed, TypeOK, OnInput
  <1>1. CASE WriteInput
    <2>1. next \in 1..Len(Inputs)
      BY <1>1, MailboxConstants DEF WriteInput
    <2>2. Inputs[next] \in Values
      BY <2>1, SweptInput DEF Values
    <2>3. mbx' \in Registers
      BY <1>1, <2>2 DEF WriteInput, Registers
    <2>4. QED
      BY <1>1, <2>1, <2>3 DEF WriteInput, core
  <1>2. CASE RaiseGo
    <2>1. mbx' \in Registers
      BY <1>2 DEF RaiseGo, Registers
    <2>2. QED
      BY <1>2, <2>1 DEF RaiseGo, core
  <1>3. CASE SeeDone \/ Timeout
    BY <1>3 DEF SeeDone, Timeout, core
  <1>4. CASE ReadMcycle
    <2>1. Inputs[next] \in Values
      BY <1>4, SweptInput DEF ReadMcycle, Values
    <2>2. got' \in Measurement
      BY <1>4, <2>1 DEF ReadMcycle, Registers, Measurement
    <2>3. QED
      BY <1>4, <2>2 DEF ReadMcycle, core
  <1>5. CASE ReadMinstret
    <2>1. got' \in Measurement
      BY <1>5 DEF ReadMinstret, MinstretRead, Registers, Measurement
    <2>2. QED
      BY <1>5, <2>1 DEF ReadMinstret, core
  <1>6. CASE ReadResult
    <2>1. got' \in Measurement
      BY <1>6 DEF ReadResult, Registers, Measurement
    <2>2. meas' \in Seq(Measurement)
      BY <1>6, <2>1 DEF ReadResult
    <2>3. next' \in 1..Len(Inputs) + 1
      BY <1>6, MailboxConstants DEF ReadResult
    <2>4. QED
      BY <1>6, <2>1, <2>2, <2>3 DEF ReadResult, core
  <1>7. CASE Clear
    <2>1. mbx' \in Registers
      BY <1>7 DEF Clear, Registers
    <2>2. QED
      BY <1>7, <2>1 DEF Clear, host
  <1>8. CASE SeeGo
    BY <1>8 DEF SeeGo, host
  <1>9. CASE Acknowledge
    <2>1. mbx' \in Registers
      BY <1>9 DEF Acknowledge, ClearGo, Registers
    <2>2. QED
      BY <1>9, <2>1 DEF Acknowledge, host
  <1>10. CASE LoadInput
    BY <1>10 DEF LoadInput, host, Registers
  <1>11. CASE RunTarget
    <2>1. Cycles[x] \in Words
      BY WordsPositive
    <2>2. c0' \in Words /\ c1' \in Words
      BY <1>11, <2>1, Difference DEF RunTarget
    <2>3. QED
      BY <1>11, <2>2 DEF RunTarget, host
  <1>12. CASE StoreMcycle
    <2>1. Elapsed \in Words
      BY MailboxConstants DEF Elapsed, Words
    <2>2. mbx' \in Registers
      BY <1>12, <2>1 DEF StoreMcycle, Registers
    <2>3. QED
      BY <1>12, <2>2 DEF StoreMcycle, host
  <1>13. CASE StoreMinstret \/ StoreResult \/ SetDone
    <2>1. mbx' \in Registers
      BY <1>13 DEF StoreMinstret, StoreResult, SetDone, Registers
    <2>2. QED
      BY <1>13, <2>1 DEF StoreMinstret, StoreResult, SetDone, host
  <1>14. CASE UNCHANGED vars
    BY <1>14 DEF vars
  <1>15. QED
    BY <1>1, <1>2, <1>3, <1>4, <1>5, <1>6, <1>7, <1>8, <1>9, <1>10, <1>11, <1>12, <1>13, <1>14
    DEF Next, HostStep, CoreStep

\* Every reachable state of a sweep is well typed, at any speeds.
THEOREM TypeCorrect == Spec => []TypeOK
  <1>1. Typed => TypeOK
    BY DEF Typed
  <1>2. Typed /\ [Next]_vars => Typed'
    BY TypedStep
  <1>3. QED
    BY <1>1, <1>2, TypedInit, PTL DEF Spec

-----------------------------------------------------------------------------
(* A run follows a pulse.                                                  *)

\* A run that has been let through and not yet happened, or a GO not yet seen, is a
\* pulse without its run; the two may be the same one.
Owed ==
  /\ cpc \in {"ack", "load", "run"} => runs < pulses
  /\ mbx.go = 1 => runs < pulses
  /\ mbx.go = 1 /\ cpc \in {"load", "run"} => runs + 1 < pulses

\* Every step keeps the debt of runs.
LEMMA OwedStep ==
  ASSUME Typed, NoRunUnasked, Owed, [Next]_vars
  PROVE  NoRunUnasked' /\ Owed'
  <1> USE DEF Typed, TypeOK, NoRunUnasked, Owed
  <1>1. CASE RaiseGo
    BY <1>1 DEF RaiseGo, core, Registers
  <1>2. CASE RunTarget
    BY <1>2 DEF RunTarget, host, Registers
  <1>3. CASE Acknowledge
    BY <1>3 DEF Acknowledge, ClearGo, host, Registers
  <1>4. CASE SeeGo
    BY <1>4 DEF SeeGo, GoSeen, host
  <1>5. CASE (HostStep /\ ~RaiseGo) \/ Timeout
    <2>1. mbx'.go = mbx.go /\ UNCHANGED <<cpc, runs, pulses>>
      BY <1>5 DEF HostStep, WriteInput, SeeDone, Timeout, ReadMcycle, ReadMinstret, ReadResult,
                  core, Registers
    <2>2. QED
      BY <2>1
  <1>6. CASE Clear \/ LoadInput \/ StoreMcycle \/ StoreMinstret \/ StoreResult \/ SetDone
    <2>1. mbx'.go = mbx.go /\ UNCHANGED <<runs, pulses>>
      BY <1>6 DEF Clear, LoadInput, StoreMcycle, StoreMinstret, StoreResult, SetDone,
                  host, Registers
    <2>2. cpc' \in {"ack", "load", "run"} => cpc \in {"load"} /\ cpc' = "run"
      BY <1>6 DEF Clear, LoadInput, StoreMcycle, StoreMinstret, StoreResult, SetDone
    <2>3. QED
      BY <2>1, <2>2
  <1>7. CASE UNCHANGED vars
    BY <1>7 DEF vars
  <1>8. QED
    BY <1>1, <1>2, <1>3, <1>4, <1>5, <1>6, <1>7 DEF Next, CoreStep

\* The core never runs the target without a GO of its own: at any speeds, whatever
\* the host overwrites.
THEOREM NoRunUnaskedCorrect == Spec => []NoRunUnasked
  <1>1. Init => NoRunUnasked /\ Owed
    BY DEF Init, NoRunUnasked, Owed
  <1>2. Typed /\ NoRunUnasked /\ Owed /\ [Next]_vars => NoRunUnasked' /\ Owed'
    BY OwedStep
  <1>3. Typed /\ [Next]_vars => Typed'
    BY TypedStep
  <1>4. QED
    BY <1>1, <1>2, <1>3, TypedInit, PTL DEF Spec

-----------------------------------------------------------------------------
(* As long as the core clears DONE before the next GO.                     *)

This == Inputs[next]

\* The registers hold the run of the input the host waits for.
Valid == mbx.mcycle = Cycles[This] /\ mbx.minstret = This /\ mbx.result = This

\* What the core has done of the run the host waits for.
Serving ==
  \/ mbx.go = 1 /\ mbx.done = 0 /\ cpc \in {"clear", "spin", "ack"}
  \/ mbx.go = 0 /\ mbx.done = 0 /\ cpc = "load"
  \/ mbx.go = 0 /\ mbx.done = 0 /\ cpc = "run" /\ x = This
  \/ mbx.go = 0 /\ mbx.done = 0 /\ cpc = "mcycle" /\ x = This /\ Elapsed = Cycles[This]
  \/ mbx.go = 0 /\ mbx.done = 0 /\ cpc = "minstret" /\ x = This /\ mbx.mcycle = Cycles[This]
  \/ /\ mbx.go = 0 /\ mbx.done = 0 /\ cpc = "result" /\ x = This
     /\ mbx.mcycle = Cycles[This] /\ mbx.minstret = This
  \/ mbx.go = 0 /\ mbx.done = 0 /\ cpc = "done" /\ Valid
  \/ mbx.go = 0 /\ cpc \in {"clear", "spin"} /\ Valid

\* A core with nothing to do: at rest it has cleared DONE.
Idle == mbx.go = 0 /\ cpc \in {"clear", "spin"}

Handshake ==
  /\ hpc \in {"input", "go"} => Idle
  /\ hpc \in {"go", "poll"} => mbx.input = This
  /\ hpc = "poll" => Serving
  /\ hpc \in {"mcycle", "minstret", "result"} => Idle /\ Valid
  /\ hpc \in {"minstret", "result"} => got.input = This /\ got.mcycle = Cycles[This]
  /\ hpc = "result" => got.minstret = This
  /\ hpc # "timeout" => next = Len(meas) + 1

\* A step of the host keeps the handshake.
LEMMA HostKeeps ==
  ASSUME Typed, Handshake, HostStep \/ Timeout, ~early'
  PROVE  Handshake'
  <1> USE DEF Typed, TypeOK
  <1>1. CASE WriteInput
    <2>1. mbx'.input = Inputs[next] /\ mbx'.go = mbx.go
      BY <1>1 DEF WriteInput, Registers
    <2>2. QED
      BY <1>1, <2>1 DEF WriteInput, Handshake, Idle, This, core
  <1>2. CASE RaiseGo
    <2>1. mbx'.input = mbx.input /\ mbx'.go = 1 /\ mbx'.done = 0
      BY <1>2 DEF RaiseGo, Registers
    <2>2. QED
      BY <1>2, <2>1 DEF RaiseGo, Handshake, Idle, Serving, This, core
  <1>3. CASE SeeDone
    <2>1. mbx.go = 0 /\ cpc \in {"clear", "spin"} /\ Valid
      BY <1>3 DEF SeeDone, Handshake, Serving
    <2>2. QED
      BY <1>3, <2>1 DEF SeeDone, Handshake, Idle, Valid, This, core
  <1>4. CASE Timeout
    BY <1>4 DEF Timeout, Handshake
  <1>5. CASE ReadMcycle
    <2>1. got'.input = This /\ got'.mcycle = Cycles[This]
      BY <1>5 DEF ReadMcycle, Handshake, Valid, Measurement, This
    <2>2. QED
      BY <1>5, <2>1 DEF ReadMcycle, Handshake, Idle, Valid, This, core
  <1>6. CASE ReadMinstret
    <2>1. got'.input = got.input /\ got'.mcycle = got.mcycle /\ got'.minstret = This
      BY <1>6 DEF ReadMinstret, MinstretRead, Handshake, Valid, Measurement, This
    <2>2. QED
      BY <1>6, <2>1 DEF ReadMinstret, Handshake, Idle, Valid, This, core
  <1>7. CASE ReadResult
    <2>1. Len(meas') = Len(meas) + 1 /\ Len(meas) \in Nat
      BY <1>7 DEF ReadResult
    <2>2. QED
      BY <1>7, <2>1 DEF ReadResult, Handshake, Idle, core
  <1>8. QED
    BY <1>1, <1>2, <1>3, <1>4, <1>5, <1>6, <1>7 DEF HostStep

\* A step of the core keeps the handshake.
LEMMA CoreKeeps ==
  ASSUME Typed, Handshake, CoreStep
  PROVE  Handshake'
  <1> USE DEF Typed, TypeOK
  <1>1. UNCHANGED host /\ This' = This
    BY DEF CoreStep, Clear, SeeGo, Acknowledge, LoadInput, RunTarget, StoreMcycle,
           StoreMinstret, StoreResult, SetDone, This, host
  <1>2. mbx'.input = mbx.input
    BY DEF CoreStep, Clear, SeeGo, Acknowledge, ClearGo, LoadInput, RunTarget, StoreMcycle,
           StoreMinstret, StoreResult, SetDone, Registers
  <1>3. ASSUME Idle PROVE Idle' /\ (Valid => Valid')
    <2>1. Clear
      BY <1>3 DEF Idle, CoreStep, Clear, SeeGo, GoSeen, Acknowledge, LoadInput, RunTarget,
                  StoreMcycle, StoreMinstret, StoreResult, SetDone
    <2>2. QED
      BY <1>1, <1>3, <2>1 DEF Clear, Idle, Valid, Registers
  <1>4. ASSUME Serving, hpc = "poll" PROVE Serving'
    <2>0. This \in Values /\ Cycles[This] \in Words
      BY <1>4, SweptInput, WordsPositive DEF This, Values, OnInput
    <2>1. CASE Clear
      BY <1>1, <1>4, <2>1 DEF Clear, Serving, Valid, Registers
    <2>2. CASE SeeGo
      BY <1>1, <1>4, <2>2 DEF SeeGo, GoSeen, Serving, Valid
    <2>3. CASE Acknowledge
      BY <1>1, <1>4, <2>3 DEF Acknowledge, ClearGo, Serving, Registers
    <2>4. CASE LoadInput
      BY <1>1, <1>4, <2>4 DEF LoadInput, Serving, Handshake
    <2>5. CASE RunTarget
      <3>1. x = This
        BY <1>4, <2>5 DEF RunTarget, Serving
      <3>2. Elapsed' = Cycles[This]
        BY <2>0, <2>5, <3>1, Difference DEF RunTarget, Elapsed
      <3>3. QED
        BY <1>1, <1>4, <2>5, <3>1, <3>2 DEF RunTarget, Serving
    <2>6. CASE StoreMcycle
      BY <1>1, <1>4, <2>6 DEF StoreMcycle, Serving, Registers
    <2>7. CASE StoreMinstret
      BY <1>1, <1>4, <2>7 DEF StoreMinstret, Serving, Registers
    <2>8. CASE StoreResult
      BY <1>1, <1>4, <2>8 DEF StoreResult, Serving, Valid, Registers
    <2>9. CASE SetDone
      BY <1>1, <1>4, <2>9 DEF SetDone, Serving, Valid, Registers
    <2>10. QED
      BY <2>1, <2>2, <2>3, <2>4, <2>5, <2>6, <2>7, <2>8, <2>9 DEF CoreStep
  <1>5. QED
    BY <1>1, <1>2, <1>3, <1>4 DEF Handshake, host

\* Once a GO was early it stays so; until then host and core keep the handshake.
LEMMA HandshakeStep ==
  ASSUME Typed, ~early => Handshake, [Next]_vars
  PROVE  ~early' => Handshake'
  <1>1. ~early' => ~early
    BY DEF Typed, TypeOK, Next, HostStep, CoreStep, WriteInput, RaiseGo, SeeDone, Timeout, ReadMcycle,
           ReadMinstret, ReadResult, Clear, SeeGo, Acknowledge, LoadInput, RunTarget,
           StoreMcycle, StoreMinstret, StoreResult, SetDone, vars
  <1>2. CASE UNCHANGED vars
    BY <1>1, <1>2 DEF vars, Handshake, Idle, Serving, Valid, This, Elapsed
  <1>3. CASE Next
    BY <1>1, <1>3, HostKeeps, CoreKeeps DEF Next
  <1>4. QED
    BY <1>2, <1>3

\* Each returned measurement is right when it is returned, and stays so.
LEMMA MeasurementStep ==
  ASSUME Typed, ~early => Handshake, MeasurementsRight, [Next]_vars
  PROVE  MeasurementsRight'
  <1>1. CASE ReadResult
    <2>0. SUFFICES ASSUME ~early PROVE MeasurementsRight'
      BY <1>1 DEF ReadResult, MeasurementsRight
    <2>1. got' = [got EXCEPT !.result = mbx.result] /\ meas' = Append(meas, got')
      BY <1>1 DEF ReadResult
    <2>2. got'.input = This /\ Right(got')
      BY <1>1, <2>0, <2>1 DEF ReadResult, Handshake, Valid, Right, Typed, TypeOK, Measurement
    <2>3. meas \in Seq(Measurement) /\ This = Inputs[Len(meas) + 1]
      BY <1>1, <2>0 DEF ReadResult, Handshake, This, Typed, TypeOK
    <2>4. QED
      BY <2>0, <2>1, <2>2, <2>3 DEF MeasurementsRight
  <1>2. CASE ~ReadResult
    <2>1. meas' = meas /\ (~early' => ~early)
      BY <1>2 DEF Typed, TypeOK, Next, HostStep, CoreStep, WriteInput, RaiseGo, SeeDone, Timeout,
                  ReadMcycle, ReadMinstret, Clear, SeeGo, Acknowledge, LoadInput, RunTarget,
                  StoreMcycle, StoreMinstret, StoreResult, SetDone, host, vars
    <2>2. QED
      BY <2>1 DEF MeasurementsRight, Right
  <1>3. QED
    BY <1>1, <1>2

\* As long as the core has cleared DONE each time the host raises GO, every measurement
\* a sweep returns is that of its own input, across a wrap of the counter too.
THEOREM MeasurementsRightCorrect == Spec => []MeasurementsRight
  <1>1. Init => (~early => Handshake) /\ MeasurementsRight
    BY DEF Init, Handshake, Idle, MeasurementsRight
  <1>2. Typed /\ (~early => Handshake) /\ [Next]_vars => (~early => Handshake)'
    BY HandshakeStep
  <1>3. Typed /\ (~early => Handshake) /\ MeasurementsRight /\ [Next]_vars => MeasurementsRight'
    BY MeasurementStep
  <1>4. Typed /\ [Next]_vars => Typed'
    BY TypedStep
  <1>5. QED
    BY <1>1, <1>2, <1>3, <1>4, TypedInit, PTL DEF Spec
=============================================================================
