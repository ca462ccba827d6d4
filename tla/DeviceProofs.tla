----------------------------- MODULE DeviceProofs -----------------------------
(***************************************************************************)
(* Proofs about KeyboardController, AudioOutput, SerialPort and            *)
(* SerialTransfer.  Whatever the bus does, no answer of another register   *)
(* is taken for a key event                                                *)
(* (AnswersMatch).  Whatever is played, the card is leased exactly while a *)
(* file is (LeaseFollowsFile), and every word of sound is played once and  *)
(* in order (PlayedInOrder), for rings, buffers and sounds of any size.    *)
(* However a transfer ends, the console comes back (ConsoleRestored), and, *)
(* unless DMA completes a lap between the two loads of dma_produced(), the *)
(* bytes are delivered in the order in which they came (DeliveredInOrder), *)
(* for a ring of any size, any number of bytes and any sizes of reads.     *)
(* On a line that delays nothing XMODEM is a file copy (XmodemCopies).     *)
(***************************************************************************)
EXTENDS KeyboardController, AudioOutput, SerialPort, SerialTransfer, FiniteSetTheorems, TLAPS

-----------------------------------------------------------------------------
(* The keyboard controller.                                                *)

Phases == {"BootQuiet", "WaitBusIdle", "InitController", "ProbeSelect", "ProbeWait",
           "ProbeRead", "PassiveBackoff", "Ready"}
Healths == {"Initializing", "Waiting", "Ok", "Degraded", "Lost", "Recovering"}
Registers == Lights \cup {"nothing", "key", "bios", "battery"}

Controllers ==
  [phase : Phases, health : Healths, everReady : BOOLEAN, errors : 0..FailureThreshold,
   deferred : BOOLEAN, idleTracking : BOOLEAN,
   keyPending : BOOLEAN, probePending : BOOLEAN, probeReadPending : BOOLEAN,
   biosPending : BOOLEAN, biosKnown : BOOLEAN,
   known : SUBSET Lights, pending : SUBSET Lights, desired : [Lights -> Levels],
   held : SUBSET Modifiers, selected : Registers]

(* An answer is waited for by one of the two halves only, and only when    *)
(* startup is over: that keeps every other request off the register.       *)
Matched(k) ==
  /\ k.keyPending =>
       k.selected = "key" /\ k.phase = "Ready" /\ ~k.probePending /\ ~k.probeReadPending
  /\ k.probePending \/ k.probeReadPending => k.phase = "Ready"
  /\ k.probeReadPending \/ k.phase \in {"ProbeWait", "ProbeRead"} => k.selected = "backlight"

Sound(k) == k \in Controllers /\ Matched(k)

KbInv == Sound(kb) /\ shown \in [Lights -> Levels]

-----------------------------------------------------------------------------
(* A failure and what follows from it leave the register alone and wait for *)
(* no answer that was not waited for before.                               *)
LEMMA CountedIsSound ==
  ASSUME NEW k, Sound(k)
  PROVE  Sound(Counted(k))
<1> DEFINE e == IF k.errors < FailureThreshold THEN k.errors + 1 ELSE k.errors
<1>1. e \in 0..FailureThreshold
  BY DEF Sound, Controllers, FailureThreshold
<1>2. Counted(k) = [k EXCEPT !.errors = e]
  BY DEF Counted
<1> HIDE DEF e
<1>3. QED
  BY <1>1, <1>2 DEF Sound, Controllers, Matched

LEMMA FailureIsSound ==
  ASSUME NEW k, Sound(k)
  PROVE  Sound(RuntimeFailure(k))
<1> DEFINE counted == Counted(k)
<1>1. Sound(counted)
  BY CountedIsSound
<1> HIDE DEF counted
<1>2. Sound([counted EXCEPT !.health = "Degraded"])
  BY <1>1 DEF Sound, Controllers, Matched, Healths
<1>3. Sound(KeysReleased(counted))
  BY <1>1 DEF Sound, Controllers, Matched, KeysReleased
<1>4. Sound([KeysReleased(counted) EXCEPT !.health = "Lost",
               !.biosKnown = FALSE, !.biosPending = FALSE])
  BY <1>3 DEF Sound, Controllers, Matched, Healths
<1>5. QED
  BY <1>2, <1>4 DEF RuntimeFailure, counted

LEMMA RecoveryFailureIsSound ==
  ASSUME NEW k, Sound(k)
  PROVE  Sound(RecoveryFailed(k))
<1>1. Sound(Counted(k))
  BY CountedIsSound
<1>2. QED
  BY <1>1 DEF Sound, Controllers, Matched, RecoveryFailed, Healths

(* A probe that succeeds makes the driver ready.                           *)
LEMMA WelcomeIsSound ==
  ASSUME NEW k, Sound(k), ~k.keyPending, k.selected = "backlight"
  PROVE  Sound(Welcomed(k))
<1> DEFINE released == KeysReleased(k)
<1>1. Sound(released) /\ ~released.keyPending /\ released.selected = "backlight"
  BY DEF Sound, Controllers, Matched, KeysReleased
<1>2. released.pending \cup k.known \in SUBSET Lights /\ 0 \in 0..FailureThreshold
  BY <1>1 DEF Sound, Controllers, FailureThreshold
<1> HIDE DEF released
<1>3. Sound([released EXCEPT !.phase = "Ready", !.everReady = TRUE,
     !.health = "Ok", !.errors = 0, !.biosKnown = FALSE, !.biosPending = FALSE,
     !.pending = @ \cup k.known])
  BY <1>1, <1>2 DEF Sound, Controllers, Matched, Healths, Phases
<1>4. QED
  BY <1>3 DEF Welcomed, released

LEMMA StartupIsSound ==
  ASSUME NEW k, Sound(k), k.phase # "Ready", NEW due \in BOOLEAN, NEW ok \in BOOLEAN
  PROVE  Sound(StartupPolled(k, due, ok))
<1>1. ~k.keyPending /\ ~k.probePending /\ ~k.probeReadPending
  BY DEF Sound, Matched
<1>2. Sound(Waiting(k)) /\ Waiting(k).phase = k.phase
  BY DEF Waiting, Sound, Controllers, Matched, Healths
<1>3. Sound([Waiting(k) EXCEPT !.idleTracking = FALSE, !.phase = "WaitBusIdle"])
  BY <1>2, <1>1 DEF Waiting, Sound, Controllers, Matched, Phases
<1>4. ASSUME NEW j, Sound(j), ~j.keyPending, ~j.probePending, ~j.probeReadPending
      PROVE  Sound(StartupFailed(j))
  <2>1. Sound(Counted(j)) /\ ~Counted(j).keyPending /\ ~Counted(j).probePending
                          /\ ~Counted(j).probeReadPending
    BY <1>4, CountedIsSound DEF Counted, Sound, Controllers
  <2>2. QED
    BY <2>1 DEF StartupFailed, Sound, Controllers, Matched, Healths, Phases
<1>5. CASE k.phase \in {"BootQuiet", "PassiveBackoff"}
  BY <1>3, <1>5 DEF StartupPolled
<1>6. CASE k.phase \in {"WaitBusIdle", "InitController", "ProbeWait"}
  BY ZenonT(40), <1>1, <1>6 DEF StartupPolled, Sound, Controllers, Matched, Phases
<1>7. CASE k.phase = "ProbeSelect"
  <2> DEFINE asked == [k EXCEPT !.selected = "backlight"]
  <2>1. /\ Sound(asked) /\ asked.selected = "backlight"
        /\ ~asked.keyPending /\ ~asked.probePending /\ ~asked.probeReadPending
    BY <1>1, <1>7 DEF Sound, Controllers, Matched, Registers, Lights
  <2>2. Sound(StartupFailed(asked)) /\ Sound([asked EXCEPT !.phase = "ProbeWait"])
    BY <2>1, <1>4 DEF Sound, Controllers, Matched, Phases
  <2>3. QED
    BY <1>7, <2>2 DEF StartupPolled
<1>8. CASE k.phase = "ProbeRead"
  <2>1. Sound(Welcomed(k)) /\ Sound(StartupFailed(k))
    BY <1>1, <1>4, <1>8, WelcomeIsSound DEF Sound, Matched
  <2>2. QED
    BY <1>8, <2>1 DEF StartupPolled
<1>9. QED
  BY <1>5, <1>6, <1>7, <1>8 DEF Sound, Controllers, Phases

LEMMA RecoveryIsSound ==
  ASSUME NEW k, Sound(k), k.phase = "Ready", NEW due \in BOOLEAN, NEW ok \in BOOLEAN,
         RecoveryWanted(k, due)
  PROVE  Sound(RecoveryPolled(k, due, ok))
<1>1. CASE k.probeReadPending
  <2> DEFINE read == [k EXCEPT !.probeReadPending = FALSE]
  <2>1. Sound(read) /\ ~read.keyPending /\ read.selected = "backlight"
    BY <1>1 DEF Sound, Controllers, Matched
  <2>2. Sound(Welcomed(read)) /\ Sound(RecoveryFailed(read))
    BY <2>1, WelcomeIsSound, RecoveryFailureIsSound
  <2>3. Sound([Welcomed(read) EXCEPT !.deferred = FALSE])
    BY <2>2 DEF Sound, Controllers, Matched
  <2>4. QED
    BY <1>1, <2>2, <2>3 DEF RecoveryPolled
<1>2. CASE ~k.probeReadPending /\ k.probePending
  <2> DEFINE asked == [k EXCEPT !.probePending = FALSE, !.selected = "backlight"]
  <2>1. Sound(asked) /\ ~asked.keyPending /\ asked.selected = "backlight"
                     /\ asked.phase = "Ready"
    BY <1>2 DEF Sound, Controllers, Matched, Registers, Lights
  <2>2. Sound([asked EXCEPT !.probeReadPending = TRUE]) /\ Sound(RecoveryFailed(asked))
    BY <2>1, RecoveryFailureIsSound DEF Sound, Controllers, Matched
  <2>3. QED
    BY <1>2, <2>2 DEF RecoveryPolled
<1>3. CASE ~k.probeReadPending /\ ~k.probePending
  <2> DEFINE begun == [k EXCEPT !.health = "Recovering", !.keyPending = FALSE,
                                !.biosPending = FALSE]
  <2>1. Sound(begun) /\ ~begun.keyPending /\ begun.phase = "Ready"
    BY <1>3 DEF Sound, Controllers, Matched, Healths
  <2>2. Sound([begun EXCEPT !.probePending = TRUE]) /\ Sound(RecoveryFailed(begun))
    BY <2>1, RecoveryFailureIsSound DEF Sound, Controllers, Matched
  <2>3. QED
    BY <1>3, <2>2 DEF RecoveryPolled
<1>4. QED
  BY <1>1, <1>2, <1>3 DEF Sound, Controllers

(* Another register is addressed when no answer is waited for.             *)
LEMMA AddressedIsSound ==
  ASSUME NEW k, Sound(k), k.phase = "Ready", ~k.keyPending, ~k.probeReadPending,
         NEW register \in Registers
  PROVE  /\ Sound([k EXCEPT !.selected = register])
         /\ Sound(RuntimeFailure([k EXCEPT !.selected = register]))
  BY FailureIsSound DEF Sound, Controllers, Matched

LEMMA LightIsSound ==
  ASSUME NEW k, Sound(k), k.phase = "Ready", ~k.keyPending, ~k.probeReadPending,
         NEW light \in Lights, NEW ok \in BOOLEAN
  PROVE  Sound(LightWritten(k, light, ok))
<1>1. light \in Registers
  BY DEF Registers
<1> DEFINE asked == [k EXCEPT !.selected = light]
<1>2. Sound(asked) /\ Sound(RuntimeFailure(asked))
  BY <1>1, AddressedIsSound
<1>3. Sound([asked EXCEPT !.pending = @ \ {light}])
  BY <1>2 DEF Sound, Controllers, Matched
<1>4. QED
  BY <1>2, <1>3 DEF LightWritten

LEMMA BiosIsSound ==
  ASSUME NEW k, Sound(k), NEW ok \in BOOLEAN, NEW reply \in BOOLEAN
  PROVE  Sound(BiosRead(k, ok, reply))
<1> DEFINE asked == [k EXCEPT !.selected = "bios"]
<1>1. Sound([k EXCEPT !.biosPending = TRUE])
  BY DEF Sound, Controllers, Matched
<1>2. ASSUME MayTransact(k)
      PROVE  Sound([asked EXCEPT !.biosKnown = reply]) /\ Sound(RuntimeFailure(asked))
  <2>1. Sound(asked) /\ Sound(RuntimeFailure(asked))
    BY <1>2, AddressedIsSound DEF MayTransact, Registers
  <2>2. QED
    BY <2>1 DEF Sound, Controllers, Matched
<1>3. QED
  BY <1>1, <1>2 DEF BiosRead

LEMMA KeyIsSound ==
  ASSUME NEW k, Sound(k), k.phase = "Ready", ~k.probePending, ~k.probeReadPending,
         NEW due \in BOOLEAN, NEW ok \in BOOLEAN, NEW answer \in Answers
  PROVE  Sound(KeyPolled(k, due, ok, answer))
<1>1. CASE ~k.keyPending
  <2> DEFINE asked == [k EXCEPT !.selected = "key"]
  <2>1. Sound(asked) /\ Sound(RuntimeFailure(asked))
    BY <1>1, AddressedIsSound DEF Registers
  <2>2. Sound([asked EXCEPT !.keyPending = TRUE])
    BY <2>1 DEF Sound, Controllers, Matched
  <2>3. QED
    BY <1>1, <2>1, <2>2 DEF KeyPolled
<1>2. CASE k.keyPending
  <2> DEFINE read == [k EXCEPT !.keyPending = FALSE]
  <2>1. Sound(read)
    BY DEF Sound, Controllers, Matched
  <2>2. Sound(KeyWorks(read))
    <3>1. 0 \in 0..FailureThreshold
      BY DEF FailureThreshold
    <3>2. QED
      BY <2>1, <3>1 DEF KeyWorks, Sound, Controllers, Matched, Healths
  <2>3. Sound(Pressed(KeyWorks(read), answer))
    BY ZenonT(40), <2>2 DEF Pressed, Answers, Empty, Sound, Controllers, Matched
  <2>4. QED
    BY <1>2, <2>1, <2>3, FailureIsSound DEF KeyPolled
<1>3. QED
  BY <1>1, <1>2

LEMMA PollIsSound ==
  ASSUME NEW k, Sound(k), NEW due \in BOOLEAN, NEW ok \in BOOLEAN, NEW answer \in Answers
  PROVE  Sound(PollOnce(k, due, ok, answer))
<1>1. CASE k.phase # "Ready"
  BY <1>1, StartupIsSound DEF PollOnce
<1>2. CASE k.phase = "Ready" /\ RecoveryWanted(k, due)
  BY <1>2, RecoveryIsSound DEF PollOnce
<1>3. CASE k.phase = "Ready" /\ ~RecoveryWanted(k, due)
  <2>1. ~k.probePending /\ ~k.probeReadPending
    BY <1>3 DEF RecoveryWanted
  <2>2. LightWanted(k) => Sound(LightWritten(k, NextLight(k), ok))
    BY <1>3, LightIsSound DEF LightWanted, NextLight, Lights
  <2>3. Sound(BiosRead([k EXCEPT !.biosPending = FALSE], ok, answer # Empty))
    <3>1. Sound([k EXCEPT !.biosPending = FALSE])
      BY DEF Sound, Controllers, Matched
    <3>2. QED
      BY <3>1, BiosIsSound
  <2>4. Sound(KeyPolled(k, due, ok, answer))
    BY <1>3, <2>1, KeyIsSound
  <2>5. QED
    BY <1>3, <2>2, <2>3, <2>4 DEF PollOnce
<1>4. QED
  BY <1>1, <1>2, <1>3

-----------------------------------------------------------------------------
LEMMA ResetIsSound == Sound(KbAtReset)
<1>1. [l \in Lights |-> CHOOSE v \in Levels : TRUE] \in [Lights -> Levels]
  BY LevelsAssumption
<1>2. QED
  BY <1>1 DEF KbAtReset, Sound, Controllers, Matched, Phases, Healths, Registers, FailureThreshold

LEMMA KbInitSound == KbInit => KbInv
  BY ResetIsSound DEF KbInit, KbInv

LEMMA KbStepSound == KbInv /\ [KbNext]_kbVars => KbInv'
<1> SUFFICES ASSUME KbInv, [KbNext]_kbVars
             PROVE  KbInv'
  OBVIOUS
<1>1. Sound(kb) /\ shown \in [Lights -> Levels]
  BY DEF KbInv
<1>2. Outcomes \subseteq BOOLEAN
  BY DEF Outcomes
<1>3. ASSUME NEW due \in BOOLEAN, Poll(due)
      PROVE  KbInv'
  <2>1. PICK ok \in Outcomes, answer \in Answers : kb' = PollOnce(kb, due, ok, answer)
    BY <1>3 DEF Poll
  <2>2. Sound(kb')
    BY <1>1, <1>2, <2>1, PollIsSound
  <2>3. shown' \in [Lights -> Levels]
    BY <1>1, <1>3 DEF Poll, ShownAfter, Sound, Controllers
  <2>4. QED
    BY <2>2, <2>3 DEF KbInv
<1>4. ASSUME NEW light \in Lights, NEW wanted \in Levels, SetLight(light, wanted)
      PROVE  KbInv'
  <2> DEFINE noted == [kb EXCEPT !.desired[light] = wanted, !.known = @ \cup {light},
                                 !.pending = @ \cup {light}]
  <2>1. Sound(noted)
    BY <1>1 DEF Sound, Controllers, Matched
  <2>2. \A ok \in BOOLEAN : MayTransact(noted) => Sound(LightWritten(noted, light, ok))
    BY <2>1, LightIsSound DEF MayTransact
  <2>3. Sound(kb')
    BY <1>2, <1>4, <2>1, <2>2 DEF SetLight
  <2>4. shown' \in [Lights -> Levels]
    BY <1>1, <1>4 DEF SetLight
  <2>5. QED
    BY <2>3, <2>4 DEF KbInv
<1>5. ASSUME NEW light \in Lights, GetLight(light)
      PROVE  KbInv'
  <2> DEFINE asked == [kb EXCEPT !.selected = light]
  <2>1. Sound(asked) /\ Sound(RuntimeFailure(asked))
    BY <1>1, <1>5, AddressedIsSound DEF GetLight, MayTransact, Registers
  <2>2. Sound([kb EXCEPT !.selected = light, !.desired[light] = shown[light],
                         !.known = @ \cup {light}])
    BY <1>1, <2>1 DEF Sound, Controllers, Matched
  <2>3. QED
    BY <1>1, <1>5, <2>1, <2>2 DEF GetLight, KbInv
<1>6. ASSUME ReadBios
      PROVE  KbInv'
  BY <1>1, <1>2, <1>6, BiosIsSound DEF ReadBios, KbInv
<1>7. ASSUME ReadBattery
      PROVE  KbInv'
  <2> DEFINE asked == [kb EXCEPT !.selected = "battery"]
  <2>1. Sound(asked) /\ Sound(RuntimeFailure(asked))
    BY <1>1, <1>7, AddressedIsSound DEF ReadBattery, MayTransact, Registers
  <2>2. QED
    BY <1>1, <1>7, <2>1 DEF ReadBattery, KbInv
<1>8. ASSUME Restart
      PROVE  KbInv'
  BY <1>1, <1>8, ResetIsSound DEF Restart, KbInv
<1>9. ASSUME CalmDown \/ UNCHANGED kbVars
      PROVE  KbInv'
  BY <1>1, <1>9 DEF CalmDown, kbVars, KbInv
<1>10. QED
  BY <1>3, <1>4, <1>5, <1>6, <1>7, <1>8, <1>9 DEF KbNext, PollEarly, PollDue

(* What is taken for a key event, or for the answer to a probe, is the     *)
(* answer of the register that the poll addressed (perform_keyboard_        *)
(* transaction and poll_key_event in keyboard.cpp), for any levels and     *)
(* keys, whatever fails and whenever the firmware restarts.                *)
THEOREM AnswersAreMatched == KbSpec => []AnswersMatch
<1>1. KbInv => AnswersMatch
  BY DEF KbInv, Sound, Matched, AnswersMatch
<1>2. QED
  BY <1>1, KbInitSound, KbStepSound, PTL DEF KbSpec

-----------------------------------------------------------------------------
(* The lease of a file that is played.                                     *)

(* Every way to begin, refuse, fail, end or stop playback in audio.cpp     *)
(* leaves the lease held exactly if a file is the source.                  *)
THEOREM LeaseIsExact == AudioSpec => []LeaseFollowsFile
<1>1. AudioInit => LeaseFollowsFile
  BY DEF AudioInit, LeaseFollowsFile, FileSources
<1>2. LeaseFollowsFile /\ [AudioNext]_avars => LeaseFollowsFile'
  <2> SUFFICES ASSUME LeaseFollowsFile, [AudioNext]_avars
               PROVE  LeaseFollowsFile'
    OBVIOUS
  <2> USE DEF LeaseFollowsFile, FileSources
  <2>1. CASE PwmWrap \/ TimePasses
    BY <2>1 DEF PwmWrap, TimePasses, sound
  <2>2. CASE Service \/ Idle \/ MarkReady \/ AdvanceProducer \/ Start
    BY <2>2 DEF Service, Idle, MarkReady, AdvanceProducer, Start, Ended, sound
  <2>3. CASE Fill
    <3>1. CASE file' = file /\ source' = source
      BY <3>1
    <3>2. CASE source' = "None" /\ file' = FALSE
      BY <3>2
    <3>3. QED
      BY <2>3, <3>1, <3>2 DEF Fill, sound
  <2>4. CASE Stop \/ FileRefused \/ PlayWav \/ PlayMp3
    BY <2>4 DEF Stop, FileRefused, PlayWav, PlayMp3, Ended
  <2>5. CASE KeyClick \/ CardMoves
    BY <2>5 DEF KeyClick, CardMoves, sound
  <2>6. CASE \E kind \in {"Synth", "Diagnostic"} : PlayTone(kind)
    BY <2>6 DEF PlayTone
  <2>7. CASE \E on \in BOOLEAN : Pause(on) \/ Radio(on)
    BY <2>7 DEF Pause, Radio, sound
  <2>8. CASE \E m \in Clocks \union {200} : SelectClock(m)
    BY <2>8 DEF SelectClock, Ended
  <2>9. CASE UNCHANGED avars
    BY <2>9 DEF avars, sound
  <2>10. QED
    BY <2>1, <2>2, <2>3, <2>4, <2>5, <2>6, <2>7, <2>8, <2>9 DEF AudioNext, Serving, Request
<1>3. QED
  BY <1>1, <1>2, PTL DEF AudioSpec

-----------------------------------------------------------------------------
(* The ring between the renderer and the interrupt.                        *)

Blocks == 0..(BlockNumbers - 1)

(* The slot i places after slot s, the block rendered i blocks after b.    *)
At(s, i) == IF s + i < Buffers THEN s + i ELSE s + i - Buffers
Later(b, i) == IF b + i < BlockNumbers THEN b + i ELSE b + i - BlockNumbers

RingTypes ==
  /\ buf \in [Slots -> {"Free", "Ready", "Playing"}] /\ pwm \in [Slots -> Blocks]
  /\ producer \in Slots /\ consumer \in Slots /\ playing \in Slots \cup {NoSlot}
  /\ word \in 0..(Words - 1) /\ made \in Blocks
  /\ heard \in [block : Blocks, word : 0..(Words - 1)]

(* The n slots from c on wait, filled with the blocks that follow base.    *)
Waits(n, b, p, c, base) ==
  /\ \A i \in 0..(Buffers - 1) : b[At(c, i)] = "Ready" <=> i < n
  /\ \A i \in 0..(n - 1) : p[At(c, i)] = Later(base, i + 1)

(* The block before the first one that waits.                              *)
Base == IF playing = NoSlot THEN heard.block ELSE pwm[playing]

(* The renderer is behind the slots that wait, at each of its steps.       *)
Renders(n) ==
  /\ At(consumer, n) = IF fore = "advance" THEN At(producer, 1) ELSE producer
  /\ made = Later(Base, IF fore = "mark" THEN n + 1 ELSE n)
  /\ fore = "mark" => pwm[producer] = made /\ buf[producer] = "Free"

(* The interrupt is in front of them, and has played every word before.    *)
Plays(n) ==
  IF playing = NoSlot
  THEN word = 0 /\ heard.word = Words - 1 /\ \A s \in Slots : buf[s] # "Playing"
  ELSE /\ n < Buffers /\ consumer = At(playing, 1)
       /\ \A s \in Slots : buf[s] = "Playing" <=> s = playing
       /\ IF word = 0 THEN heard.word = Words - 1 /\ pwm[playing] = Later(heard.block, 1)
          ELSE heard.block = pwm[playing] /\ heard.word = word - 1

Holds(n) == Waits(n, buf, pwm, consumer, Base) /\ Renders(n) /\ Plays(n)

RingInv == RingTypes /\ \E n \in 0..Buffers : Holds(n)

LEMMA RemainderIsPlace ==
  ASSUME NEW R \in Nat \ {0}, NEW a \in Nat, a < R + R
  PROVE  a % R = IF a < R THEN a ELSE a - R
<1>1. a = R * (a \div R) + (a % R) /\ a \div R \in Nat /\ a % R \in 0..(R - 1)
  BY SMT
<1> DEFINE q == a \div R
<1>2. q \in Nat /\ a = R * q + (a % R)
  BY <1>1
<1> HIDE DEF q
<1>3. q < 2
  <2>1. SUFFICES ASSUME q >= 2 PROVE R * q >= 2 * R
    BY <1>1, <1>2, SMT
  <2>2. R * (q - 2) >= 0
    BY <1>2, <2>1, SMT
  <2>3. QED
    BY <1>2, <2>2, SMT
<1>4. CASE q = 0
  BY <1>1, <1>2, <1>4, SMT
<1>5. CASE q = 1
  BY <1>1, <1>2, <1>5, SMT
<1>6. QED
  BY <1>2, <1>3, <1>4, <1>5, SMT

LEMMA NextSlot ==
  ASSUME NEW s \in Slots
  PROVE  (s + 1) % Buffers = At(s, 1)
<1>1. Buffers \in Nat \ {0} /\ s + 1 \in Nat /\ s + 1 < Buffers + Buffers
  BY AudioAssumption DEF Slots
<1>2. (s + 1) % Buffers = IF s + 1 < Buffers THEN s + 1 ELSE (s + 1) - Buffers
  BY <1>1, RemainderIsPlace DEF Slots
<1>3. QED
  BY <1>1, <1>2 DEF At, Slots

LEMMA NextIsLater ==
  ASSUME NEW b \in Blocks
  PROVE  NextBlock(b) = Later(b, 1)
<1>1. BlockNumbers \in Nat \ {0} /\ b + 1 \in Nat /\ b + 1 < BlockNumbers + BlockNumbers
  BY AudioAssumption DEF Blocks, BlockNumbers
<1>2. (b + 1) % BlockNumbers = IF b + 1 < BlockNumbers THEN b + 1 ELSE (b + 1) - BlockNumbers
  BY <1>1, RemainderIsPlace DEF Blocks
<1>3. QED
  BY <1>1, <1>2 DEF NextBlock, Later, Blocks

LEMMA AtIsSlot ==
  ASSUME NEW s \in Slots, NEW i \in 0..Buffers
  PROVE  At(s, i) \in Slots
  BY AudioAssumption DEF At, Slots

LEMMA AtNext ==
  ASSUME NEW s \in Slots, NEW i \in 0..(Buffers - 1)
  PROVE  At(At(s, 1), i) = At(s, i + 1)
  BY AudioAssumption DEF At, Slots

LEMMA AtDiffers ==
  ASSUME NEW s \in Slots, NEW i \in 0..(Buffers - 1), NEW j \in 0..(Buffers - 1), i # j
  PROVE  At(s, i) # At(s, j)
  BY AudioAssumption DEF At, Slots

LEMMA AtReaches ==
  ASSUME NEW s \in Slots, NEW t \in Slots
  PROVE  \E i \in 0..(Buffers - 1) : At(s, i) = t
<1>1. CASE t >= s
  <2>1. t - s \in 0..(Buffers - 1) /\ At(s, t - s) = t
    BY <1>1, AudioAssumption DEF At, Slots
  <2>2. QED
    BY <2>1
<1>2. CASE t < s
  <2>1. t + Buffers - s \in 0..(Buffers - 1) /\ At(s, t + Buffers - s) = t
    BY <1>2, AudioAssumption DEF At, Slots
  <2>2. QED
    BY <2>1
<1>3. QED
  BY <1>1, <1>2, AudioAssumption DEF Slots

LEMMA LaterIsBlock ==
  ASSUME NEW b \in Blocks, NEW i \in 0..(Buffers + 1)
  PROVE  Later(b, i) \in Blocks
  BY AudioAssumption DEF Later, Blocks, BlockNumbers

LEMMA LaterNext ==
  ASSUME NEW b \in Blocks, NEW i \in 0..Buffers
  PROVE  /\ Later(Later(b, 1), i) = Later(b, i + 1)
         /\ Later(Later(b, i), 1) = Later(b, i + 1)
  BY AudioAssumption DEF Later, Blocks, BlockNumbers

(* Taking the first slot that waits leaves the others waiting.             *)
LEMMA TakenWaits ==
  ASSUME NEW n \in 1..Buffers, NEW b \in [Slots -> {"Free", "Ready", "Playing"}],
         NEW p \in [Slots -> Blocks], NEW c \in Slots, NEW base \in Blocks,
         NEW to \in {"Free", "Playing"}, Waits(n, b, p, c, base)
  PROVE  /\ p[c] = Later(base, 1)
         /\ Waits(n - 1, [b EXCEPT ![c] = to], p, At(c, 1), p[c])
<1>1. At(c, 0) = c /\ At(c, 1) \in Slots
  BY AudioAssumption, AtIsSlot DEF At, Slots
<1>2. p[c] = Later(base, 1)
  BY <1>1 DEF Waits
<1>3. ASSUME NEW i \in 0..(Buffers - 1)
      PROVE  [b EXCEPT ![c] = to][At(At(c, 1), i)] = "Ready" <=> i < n - 1
  <2>1. At(At(c, 1), i) = At(c, i + 1)
    BY AtNext
  <2>2. CASE i = Buffers - 1
    <3>1. At(c, i + 1) = c
      BY <2>2, AudioAssumption DEF At, Slots
    <3>2. ~(i < n - 1)
      BY <2>2, AudioAssumption
    <3>3. QED
      BY <2>1, <3>1, <3>2
  <2>3. CASE i # Buffers - 1
    <3>1. i + 1 \in 0..(Buffers - 1) /\ 0 \in 0..(Buffers - 1) /\ i + 1 # 0
      BY <2>3, AudioAssumption
    <3>2. At(c, i + 1) # c /\ At(c, i + 1) \in Slots
      BY <1>1, <3>1, AtDiffers, AtIsSlot, AudioAssumption
    <3>3. [b EXCEPT ![c] = to][At(c, i + 1)] = b[At(c, i + 1)]
      BY <3>2
    <3>4. b[At(c, i + 1)] = "Ready" <=> i + 1 < n
      BY <3>1 DEF Waits
    <3>5. QED
      BY <2>1, <3>3, <3>4
  <2>4. QED
    BY <2>2, <2>3
<1>4. ASSUME NEW i \in 0..(n - 2)
      PROVE  p[At(At(c, 1), i)] = Later(p[c], i + 1)
  <2>1. i \in 0..(Buffers - 1) /\ i + 1 \in 0..(n - 1) /\ i + 1 \in 0..Buffers
    BY AudioAssumption
  <2>2. At(At(c, 1), i) = At(c, i + 1)
    BY <2>1, AtNext
  <2>3. p[At(c, i + 1)] = Later(base, (i + 1) + 1)
    BY <2>1 DEF Waits
  <2>4. Later(base, (i + 1) + 1) = Later(p[c], i + 1)
    BY <1>2, <2>1, LaterNext
  <2>5. QED
    BY <2>2, <2>3, <2>4
<1>5. QED
  BY <1>2, <1>3, <1>4 DEF Waits

(* Steps that leave the ring alone, outside the two steps of the renderer  *)
(* in which a buffer is filled and not yet counted.                        *)
Counting == {"mark", "advance"}
SamePlace == fore' = fore \/ (fore \notin Counting /\ fore' \notin Counting)

LEMMA RingRests ==
  ASSUME RingInv, UNCHANGED <<pwmRing, heard, made>>, SamePlace
  PROVE  RingInv'
<1>1. PICK n \in 0..Buffers : Holds(n)
  BY DEF RingInv
<1>2. Base' = Base
  BY DEF Base, pwmRing
<1>3. Renders(n)'
  BY <1>1, <1>2 DEF Holds, Renders, SamePlace, Counting, pwmRing
<1>4. Waits(n, buf, pwm, consumer, Base)'
  BY <1>1, <1>2 DEF Holds, Waits, pwmRing
<1>5. Plays(n)'
  BY <1>1 DEF Holds, Plays, pwmRing
<1>6. RingTypes'
  BY DEF RingInv, RingTypes, pwmRing
<1>7. QED
  BY <1>3, <1>4, <1>5, <1>6 DEF RingInv, Holds

(* A stop empties the ring and forgets the words that were not played.     *)
LEMMA RingResets ==
  ASSUME RingInv, ResetOutput, made' = made, fore' \notin Counting
  PROVE  RingInv'
<1>1. 0 \in Slots /\ 0 \in 0..Buffers /\ Words - 1 \in 0..(Words - 1) /\ 0 \in 0..(Words - 1)
      /\ NoSlot \notin Slots
  BY AudioAssumption DEF Slots, NoSlot
<1>2. RingTypes'
  BY <1>1 DEF RingInv, RingTypes, ResetOutput
<1>3. Base' = made /\ made \in Blocks
  BY DEF ResetOutput, Base, RingInv, RingTypes
<1>4. Later(made, 0) = made
  BY <1>3, AudioAssumption DEF Later, Blocks, BlockNumbers
<1>5. At(0, 0) = 0
  BY AudioAssumption DEF At
<1>6. Renders(0)'
  BY <1>3, <1>4, <1>5 DEF Renders, Counting, ResetOutput
<1>7. Waits(0, buf, pwm, consumer, Base)'
  <2>1. ASSUME NEW i \in 0..(Buffers - 1)
        PROVE  buf'[At(consumer', i)] # "Ready" /\ ~(i < 0)
    <3>1. consumer' \in Slots /\ i \in 0..Buffers
      BY <1>1, AudioAssumption DEF ResetOutput
    <3>2. At(consumer', i) \in Slots
      BY <3>1, AtIsSlot
    <3>3. QED
      BY <3>2 DEF ResetOutput
  <2>2. QED
    BY <2>1 DEF Waits
<1>8. Plays(0)'
  BY DEF Plays, ResetOutput
<1>9. QED
  BY <1>1, <1>2, <1>6, <1>7, <1>8 DEF RingInv, Holds

(* The first slot that waits becomes the one that is played, or is free at *)
(* once; the renderer may be anywhere.                                     *)
LEMMA SlotTaken ==
  ASSUME RingInv, playing = NoSlot, CanActivate, NEW to \in {"Free", "Playing"},
         buf' = [buf EXCEPT ![consumer] = to], consumer' = (consumer + 1) % Buffers,
         UNCHANGED <<pwm, producer, made>>, SamePlace, Base' = pwm[consumer]
  PROVE  /\ pwm[consumer] = Later(heard.block, 1)
         /\ heard.word = Words - 1
         /\ consumer' = At(consumer, 1)
         /\ \A s \in Slots : buf'[s] = "Playing" <=> s = consumer /\ to = "Playing"
         /\ \E n \in 0..(Buffers - 1) : Waits(n, buf, pwm, consumer, Base)' /\ Renders(n)'
<1> USE DEF RingInv, RingTypes
<1>1. PICK n \in 0..Buffers : Holds(n)
  OBVIOUS
<1>2. buf[consumer] = "Ready"
  BY DEF CanActivate
<1>3. Base = heard.block /\ Base \in Blocks
  BY DEF Base
<1>4. At(consumer, 0) = consumer /\ 0 \in 0..(Buffers - 1)
  BY AudioAssumption DEF At, Slots
<1>5. n \in 1..Buffers
  BY <1>1, <1>2, <1>4, AudioAssumption DEF Holds, Waits
<1>6. Waits(n, buf, pwm, consumer, Base)
  BY <1>1 DEF Holds
<1>7. pwm[consumer] = Later(Base, 1) /\ Waits(n - 1, buf', pwm, At(consumer, 1), pwm[consumer])
  <2>1. /\ buf \in [Slots -> {"Free", "Ready", "Playing"}] /\ pwm \in [Slots -> Blocks]
        /\ consumer \in Slots /\ Base \in Blocks
    BY <1>3
  <2> HIDE DEF RingInv, RingTypes
  <2>2. /\ pwm[consumer] = Later(Base, 1)
        /\ Waits(n - 1, [buf EXCEPT ![consumer] = to], pwm, At(consumer, 1), pwm[consumer])
    BY <1>5, <1>6, <2>1, TakenWaits
  <2>3. QED
    BY <2>2
<1>8. consumer' = At(consumer, 1) /\ n - 1 \in 0..(Buffers - 1) /\ (n - 1) + 1 = n
  BY <1>5, NextSlot, AudioAssumption
<1>9. Waits(n - 1, buf, pwm, consumer, Base)'
  BY <1>7, <1>8 DEF Waits
<1>10. Renders(n - 1)'
  <2>1. At(consumer', n - 1) = At(consumer, n)
    BY <1>8, AtNext
  <2>2. /\ At(consumer, n) = IF fore = "advance" THEN At(producer, 1) ELSE producer
        /\ made = Later(Base, IF fore = "mark" THEN n + 1 ELSE n)
        /\ fore = "mark" => pwm[producer] = made /\ buf[producer] = "Free"
    BY <1>1 DEF Holds, Renders
  <2>3. n - 1 \in 0..Buffers /\ n \in 0..Buffers
    BY <1>5, AudioAssumption
  <2>4. Later(Base', n - 1) = Later(Base, n) /\ Later(Base', n) = Later(Base, n + 1)
    BY <1>3, <1>7, <1>8, <2>3, LaterNext
  <2>5. fore = "mark" => buf'[producer] = "Free"
    BY <1>2, <2>2
  <2>6. QED
    BY <1>8, <2>1, <2>2, <2>4, <2>5 DEF Renders, SamePlace, Counting
<1>11. heard.word = Words - 1 /\ \A s \in Slots : buf[s] # "Playing"
  BY <1>1 DEF Holds, Plays
<1>12. \A s \in Slots : buf'[s] = "Playing" <=> s = consumer /\ to = "Playing"
  BY <1>11
<1>13. QED
  BY <1>3, <1>7, <1>8, <1>9, <1>10, <1>11, <1>12

LEMMA Constants ==
  /\ Buffers \in Nat \ {0} /\ Words \in Nat \ {0} /\ NoSlot \notin Slots
  /\ 0 \in 0..(Words - 1) /\ Words - 1 \in 0..(Words - 1)
  BY AudioAssumption DEF NoSlot, Slots

(* The interrupt plays the word after the one it played last.              *)
LEMMA WordPlayed ==
  ASSUME RingInv, PlayWord, UNCHANGED <<made, fore>>
  PROVE  RingInv' /\ heard' = NextWord
<1>1. PICK n \in 0..Buffers : Holds(n)
  BY DEF RingInv
<1>2. RingTypes
  BY DEF RingInv
<1>3. CanActivate /\ pwm' = pwm /\ producer' = producer /\ SamePlace
  BY DEF PlayWord, SamePlace
<1>4. CASE playing = NoSlot
  <2> DEFINE to == IF 1 = Words THEN "Free" ELSE "Playing"
  <2>1. /\ heard' = [block |-> pwm[consumer], word |-> 0]
        /\ consumer' = (consumer + 1) % Buffers
        /\ buf' = [buf EXCEPT ![consumer] = to]
        /\ IF 1 = Words THEN playing' = NoSlot /\ word' = 0 ELSE playing' = consumer /\ word' = 1
    BY <1>4 DEF PlayWord, Activated
  <2>2. to \in {"Free", "Playing"} /\ Base' = pwm[consumer]
    BY <1>2, <1>3, <2>1, Constants DEF Base, RingTypes
  <2> HIDE DEF to
  <2>3. /\ pwm[consumer] = Later(heard.block, 1)
        /\ heard.word = Words - 1
        /\ consumer' = At(consumer, 1)
        /\ \A s \in Slots : buf'[s] = "Playing" <=> s = consumer /\ to = "Playing"
        /\ \E m \in 0..(Buffers - 1) : Waits(m, buf, pwm, consumer, Base)' /\ Renders(m)'
    BY <1>3, <1>4, <2>1, <2>2, SlotTaken
  <2>4. PICK m \in 0..(Buffers - 1) : Waits(m, buf, pwm, consumer, Base)' /\ Renders(m)'
    BY <2>3
  <2>5. m \in 0..Buffers /\ m < Buffers
    BY <2>4, Constants
  <2>6. Plays(m)'
    <3>1. CASE Words = 1
      BY <2>1, <2>3, <3>1 DEF Plays, to
    <3>2. CASE Words # 1
      <4>1. playing' = consumer /\ playing' # NoSlot /\ word' = 1 /\ to = "Playing"
        BY <1>2, <2>1, <3>2, Constants DEF RingTypes, to
      <4>2. heard'.block = pwm'[playing'] /\ heard'.word = word' - 1
        BY <1>3, <2>1, <4>1
      <4>3. QED
        BY <2>3, <2>5, <4>1, <4>2 DEF Plays
    <3>3. QED
      BY <3>1, <3>2
  <2>7. RingTypes'
    <3>1. buf' \in [Slots -> {"Free", "Ready", "Playing"}] /\ pwm' \in [Slots -> Blocks]
      BY <1>2, <1>3, <2>1, <2>2 DEF RingTypes
    <3>2. consumer' \in Slots
      BY <1>2, <2>3, AtIsSlot, Constants DEF RingTypes
    <3>3. playing' \in Slots \cup {NoSlot} /\ word' \in 0..(Words - 1)
      BY <1>2, <2>1, Constants DEF RingTypes
    <3>4. heard' \in [block : Blocks, word : 0..(Words - 1)]
      BY <1>2, <2>1, Constants DEF RingTypes
    <3>5. QED
      BY <1>2, <1>3, <3>1, <3>2, <3>3, <3>4 DEF RingTypes
  <2>8. heard' = NextWord
    <3>1. NextBlock(heard.block) = pwm[consumer] /\ ~(heard.word + 1 < Words)
      BY <1>2, <2>3, NextIsLater, Constants DEF RingTypes
    <3>2. QED
      BY <2>1, <3>1 DEF NextWord
  <2>9. QED
    BY <2>4, <2>5, <2>6, <2>7, <2>8 DEF RingInv, Holds
<1>5. CASE playing # NoSlot
  <2> DEFINE to == IF word + 1 = Words THEN "Free" ELSE "Playing"
  <2>1. /\ heard' = [block |-> pwm[playing], word |-> word]
        /\ consumer' = consumer
        /\ buf' = [buf EXCEPT ![playing] = to]
        /\ IF word + 1 = Words THEN playing' = NoSlot /\ word' = 0
           ELSE playing' = playing /\ word' = word + 1
    BY <1>5 DEF PlayWord, Activated
  <2>2. playing \in Slots /\ word \in 0..(Words - 1)
    BY <1>2, <1>5 DEF RingTypes
  <2>3. /\ n < Buffers /\ consumer = At(playing, 1)
        /\ \A s \in Slots : buf[s] = "Playing" <=> s = playing
        /\ IF word = 0 THEN heard.word = Words - 1 /\ pwm[playing] = Later(heard.block, 1)
           ELSE heard.block = pwm[playing] /\ heard.word = word - 1
    BY <1>1, <1>5 DEF Holds, Plays
  <2>4. Base' = Base /\ to \in {"Free", "Playing"}
    BY <1>3, <1>5, <2>1 DEF Base
  <2>5. \A s \in Slots : /\ buf'[s] = "Ready" <=> buf[s] = "Ready"
                         /\ buf[s] = "Free" => buf'[s] = "Free"
                         /\ buf'[s] = "Playing" <=> s = playing /\ to = "Playing"
    BY <1>2, <2>1, <2>2, <2>3, <2>4 DEF RingTypes
  <2>6. Waits(n, buf, pwm, consumer, Base)'
    <3>1. \A i \in 0..(Buffers - 1) : At(consumer, i) \in Slots
      BY <1>2, AtIsSlot, Constants DEF RingTypes
    <3>2. QED
      BY <1>1, <1>3, <2>1, <2>4, <2>5, <3>1 DEF Holds, Waits
  <2>7. Renders(n)'
    BY <1>1, <1>2, <1>3, <2>1, <2>4, <2>5 DEF Holds, Renders, RingTypes
  <2>8. Plays(n)'
    <3>1. CASE word + 1 = Words
      <4>1. heard'.word = Words - 1 /\ to = "Free"
        BY <2>1, <2>2, <3>1, Constants
      <4>2. QED
        BY <2>1, <2>5, <3>1, <4>1 DEF Plays
    <3>2. CASE word + 1 # Words
      <4>1. /\ playing' = playing /\ word' = word + 1 /\ word' # 0 /\ to = "Playing"
            /\ heard'.block = pwm'[playing'] /\ heard'.word = word' - 1
        BY <1>3, <2>1, <2>2, <3>2, Constants
      <4>2. QED
        BY <1>5, <2>1, <2>3, <2>5, <4>1 DEF Plays
    <3>3. QED
      BY <3>1, <3>2
  <2>9. RingTypes'
    <3>1. word' \in 0..(Words - 1)
      BY <2>1, <2>2, Constants
    <3>2. heard' \in [block : Blocks, word : 0..(Words - 1)]
      BY <1>2, <2>1, <2>2 DEF RingTypes
    <3>3. QED
      BY <1>2, <1>3, <2>1, <2>2, <2>4, <3>1, <3>2 DEF RingTypes
  <2>10. heard' = NextWord
    <3>1. CASE word = 0
      <4>1. NextBlock(heard.block) = pwm[playing] /\ ~(heard.word + 1 < Words)
        BY <1>2, <2>3, <3>1, NextIsLater, Constants DEF RingTypes
      <4>2. QED
        BY <2>1, <3>1, <4>1 DEF NextWord
    <3>2. CASE word # 0
      <4>1. heard.word + 1 = word /\ heard.word + 1 < Words
        BY <2>2, <2>3, <3>2, Constants
      <4>2. heard' = [heard EXCEPT !.word = @ + 1]
        BY <1>2, <2>1, <2>3, <3>2, <4>1 DEF RingTypes
      <4>3. QED
        BY <4>1, <4>2 DEF NextWord
    <3>3. QED
      BY <3>1, <3>2
  <2>11. QED
    BY <1>1, <2>6, <2>7, <2>8, <2>9, <2>10 DEF RingInv, Holds
<1>6. QED
  BY <1>4, <1>5

(* start_ready_pwm() takes the first slot that waits, and plays nothing.   *)
LEMMA OutputStarted ==
  ASSUME RingInv, StartReady, UNCHANGED <<pwm, producer, heard, made>>, SamePlace
  PROVE  RingInv'
<1>1. PICK n \in 0..Buffers : Holds(n)
  BY DEF RingInv
<1>2. RingTypes
  BY DEF RingInv
<1>3. CASE ~CanActivate
  BY <1>3, RingRests DEF StartReady, pwmRing
<1>4. CASE CanActivate /\ playing # NoSlot
  <2>1. buf[playing] = "Playing" /\ playing \in Slots
    BY <1>1, <1>2, <1>4 DEF Holds, Plays, RingTypes
  <2>2. buf' = buf /\ consumer' = consumer /\ playing' = playing /\ word' = word
    BY <1>2, <1>4, <2>1 DEF StartReady, Activated, RingTypes
  <2>3. QED
    BY <2>2, RingRests DEF pwmRing
<1>5. CASE CanActivate /\ playing = NoSlot
  <2>1. /\ consumer' = (consumer + 1) % Buffers /\ playing' = consumer /\ word' = 0
        /\ buf' = [buf EXCEPT ![consumer] = "Playing"]
    BY <1>5 DEF StartReady, Activated
  <2>2. playing' # NoSlot /\ Base' = pwm[consumer]
    BY <1>2, <2>1, Constants DEF Base, RingTypes
  <2>3. /\ pwm[consumer] = Later(heard.block, 1)
        /\ heard.word = Words - 1
        /\ consumer' = At(consumer, 1)
        /\ \A s \in Slots : buf'[s] = "Playing" <=> s = consumer
        /\ \E m \in 0..(Buffers - 1) : Waits(m, buf, pwm, consumer, Base)' /\ Renders(m)'
    BY <1>5, <2>1, <2>2, SlotTaken
  <2>4. PICK m \in 0..(Buffers - 1) : Waits(m, buf, pwm, consumer, Base)' /\ Renders(m)'
    BY <2>3
  <2>5. m \in 0..Buffers /\ m < Buffers
    BY <2>4, Constants
  <2>6. Plays(m)'
    BY <2>1, <2>2, <2>3, <2>5 DEF Plays
  <2>7. RingTypes'
    BY <1>2, <2>1, <2>3, AtIsSlot, Constants DEF RingTypes
  <2>8. QED
    BY <2>4, <2>5, <2>6, <2>7 DEF RingInv, Holds
<1>6. QED
  BY <1>3, <1>4, <1>5

(* The renderer fills the slot behind those that wait, ...                 *)
LEMMA SlotFilled ==
  ASSUME RingInv, Fill
  PROVE  RingInv'
<1>1. PICK n \in 0..Buffers : Holds(n)
  BY DEF RingInv
<1>2. RingTypes /\ fore = "fill"
  BY DEF RingInv, Fill
<1>3. CASE fore' = "start"
  <2>1. UNCHANGED <<pwmRing, heard, made>>
    BY <1>3 DEF Fill, pwmRing
  <2>2. QED
    BY <1>2, <1>3, <2>1, RingRests DEF SamePlace, Counting
<1>4. CASE fore' # "start"
  <2>1. /\ buf[producer] = "Free" /\ fore' = "mark"
        /\ made' = NextBlock(made) /\ pwm' = [pwm EXCEPT ![producer] = made']
        /\ UNCHANGED <<buf, producer, consumer, playing, word, heard>>
    BY <1>2, <1>4 DEF Fill
  <2>2. made' = Later(made, 1) /\ made' \in Blocks /\ pwm' \in [Slots -> Blocks]
    <3>1. made' = Later(made, 1)
      BY <1>2, <2>1, NextIsLater DEF RingTypes
    <3>2. made' \in Blocks
      BY <1>2, <3>1, LaterIsBlock, Constants DEF RingTypes
    <3>3. QED
      BY <1>2, <2>1, <3>1, <3>2 DEF RingTypes
  <2>3. \A s \in Slots : buf[s] # "Free" => pwm'[s] = pwm[s]
    BY <1>2, <2>1 DEF RingTypes
  <2>4. playing # NoSlot => playing \in Slots /\ buf[playing] = "Playing"
    BY <1>1, <1>2 DEF Holds, Plays, RingTypes
  <2>5. Base' = Base /\ Base \in Blocks
    BY <1>2, <2>1, <2>3, <2>4 DEF Base, RingTypes
  <2>6. Waits(n, buf, pwm, consumer, Base)'
    <3>1. ASSUME NEW i \in 0..(n - 1)
          PROVE  pwm'[At(consumer, i)] = Later(Base, i + 1)
      <4>1. i \in 0..(Buffers - 1) /\ i \in 0..Buffers /\ i < n
        BY <3>1, Constants
      <4>2. At(consumer, i) \in Slots /\ buf[At(consumer, i)] = "Ready"
        BY <1>1, <1>2, <4>1, AtIsSlot DEF Holds, Waits, RingTypes
      <4>3. QED
        BY <1>1, <2>3, <4>2 DEF Holds, Waits
    <3>2. QED
      BY <1>1, <2>1, <2>5, <3>1 DEF Holds, Waits
  <2>7. Renders(n)'
    <3>1. At(consumer, n) = producer /\ made = Later(Base, n)
      BY <1>1, <1>2 DEF Holds, Renders
    <3>2. made' = Later(Base, n + 1)
      BY <2>2, <2>5, <3>1, LaterNext
    <3>3. QED
      BY <1>2, <2>1, <2>5, <3>1, <3>2 DEF Renders, RingTypes
  <2>8. Plays(n)'
    BY <1>1, <2>1, <2>3, <2>4 DEF Holds, Plays
  <2>9. QED
    BY <1>2, <2>1, <2>2, <2>6, <2>7, <2>8 DEF RingInv, RingTypes, Holds
<1>5. QED
  BY <1>3, <1>4

(* ... lets it wait with the others, ...                                   *)
LEMMA SlotMarked ==
  ASSUME RingInv, MarkReady
  PROVE  RingInv'
<1>1. PICK n \in 0..Buffers : Holds(n)
  BY DEF RingInv
<1>2. /\ RingTypes /\ fore = "mark" /\ fore' = "advance"
      /\ buf' = [buf EXCEPT ![producer] = "Ready"]
      /\ UNCHANGED <<pwm, producer, consumer, playing, word, made, heard>>
  BY DEF RingInv, MarkReady
<1>3. /\ At(consumer, n) = producer /\ made = Later(Base, n + 1)
      /\ pwm[producer] = made /\ buf[producer] = "Free"
  BY <1>1, <1>2 DEF Holds, Renders
<1>4. \A i \in 0..(Buffers - 1) : buf[At(consumer, i)] = "Ready" <=> i < n
  BY <1>1 DEF Holds, Waits
<1>5. n < Buffers
  <2>1. SUFFICES ASSUME n = Buffers PROVE FALSE
    BY Constants
  <2>2. At(consumer, n) = At(consumer, 0) /\ 0 \in 0..(Buffers - 1) /\ 0 < n
    BY <1>2, <2>1, Constants DEF At, Slots, RingTypes
  <2>3. QED
    BY <1>3, <1>4, <2>2
<1>6. n + 1 \in 0..Buffers /\ n \in 0..(Buffers - 1)
  BY <1>5, Constants
<1>7. Base' = Base
  BY <1>2 DEF Base
<1>8. Waits(n + 1, buf, pwm, consumer, Base)'
  <2>1. ASSUME NEW i \in 0..(Buffers - 1)
        PROVE  buf'[At(consumer, i)] = "Ready" <=> i < n + 1
    <3>1. At(consumer, i) \in Slots
      BY <1>2, AtIsSlot, Constants DEF RingTypes
    <3>2. CASE i = n
      BY <1>2, <1>3, <3>1, <3>2 DEF RingTypes
    <3>3. CASE i # n
      <4>1. At(consumer, i) # producer
        BY <1>2, <1>3, <1>6, <3>3, AtDiffers DEF RingTypes
      <4>2. buf'[At(consumer, i)] = buf[At(consumer, i)]
        BY <1>2, <3>1, <4>1 DEF RingTypes
      <4>3. QED
        BY <1>4, <3>3, <4>2
    <3>4. QED
      BY <3>2, <3>3
  <2>2. ASSUME NEW i \in 0..n
        PROVE  pwm[At(consumer, i)] = Later(Base, i + 1)
    BY <1>1, <1>3 DEF Holds, Waits
  <2>3. (n + 1) - 1 = n
    OBVIOUS
  <2>4. QED
    BY <1>2, <1>7, <2>1, <2>2, <2>3 DEF Waits
<1>9. Renders(n + 1)'
  <2>1. At(producer, 1) = At(consumer, n + 1)
    BY <1>2, <1>3, <1>6, Constants DEF At, Slots, RingTypes
  <2>2. QED
    BY <1>2, <1>3, <1>7, <2>1 DEF Renders
<1>10. Plays(n + 1)'
  <2>1. \A s \in Slots : buf'[s] = "Playing" <=> buf[s] = "Playing"
    BY <1>2, <1>3 DEF RingTypes
  <2>2. CASE playing = NoSlot
    BY <1>1, <1>2, <2>1, <2>2 DEF Holds, Plays
  <2>3. CASE playing # NoSlot
    <3>1. /\ playing \in Slots /\ consumer = At(playing, 1) /\ buf[playing] = "Playing"
      BY <1>1, <1>2, <2>3 DEF Holds, Plays, RingTypes
    <3>2. n + 1 # Buffers
      <4>1. SUFFICES ASSUME n = Buffers - 1 PROVE FALSE
        BY <1>6, Constants
      <4>2. At(At(playing, 1), n) = playing
        BY <3>1, <4>1, Constants DEF At, Slots
      <4>3. QED
        BY <1>3, <3>1, <4>2
    <3>3. n + 1 < Buffers
      BY <1>5, <3>2, Constants
    <3>4. QED
      BY <1>1, <1>2, <2>1, <2>3, <3>3 DEF Holds, Plays
  <2>4. QED
    BY <2>2, <2>3
<1>11. RingTypes'
  BY <1>2 DEF RingTypes
<1>12. QED
  BY <1>6, <1>8, <1>9, <1>10, <1>11 DEF RingInv, Holds

(* ... and goes on behind it.                                              *)
LEMMA ProducerAdvanced ==
  ASSUME RingInv, AdvanceProducer
  PROVE  RingInv'
<1>1. PICK n \in 0..Buffers : Holds(n)
  BY DEF RingInv
<1>2. /\ RingTypes /\ fore = "advance" /\ fore' = "fill"
      /\ producer' = (producer + 1) % Buffers
      /\ UNCHANGED <<buf, pwm, consumer, playing, word, made, heard>>
  BY DEF RingInv, AdvanceProducer
<1>3. producer' = At(producer, 1) /\ producer' \in Slots
  BY <1>2, NextSlot, AtIsSlot, Constants DEF RingTypes
<1>4. Base' = Base
  BY <1>2 DEF Base
<1>5. Renders(n)'
  BY <1>1, <1>2, <1>3, <1>4 DEF Holds, Renders
<1>6. Waits(n, buf, pwm, consumer, Base)' /\ Plays(n)'
  BY <1>1, <1>2, <1>4 DEF Holds, Waits, Plays
<1>7. RingTypes'
  BY <1>2, <1>3 DEF RingTypes
<1>8. QED
  BY <1>5, <1>6, <1>7 DEF RingInv, Holds

LEMMA RingInitHolds == AudioInit => RingInv
<1> SUFFICES ASSUME AudioInit PROVE RingInv
  OBVIOUS
<1> USE DEF AudioInit
<1>1. 0 \in Slots /\ 0 \in 0..Buffers /\ 0 \in Blocks /\ NoSlot = NoSlot
  BY AudioAssumption DEF Slots, Blocks, BlockNumbers
<1>2. RingTypes
  BY <1>1, Constants DEF RingTypes
<1>3. Base = 0 /\ Later(0, 0) = 0 /\ At(0, 0) = 0
  BY AudioAssumption DEF Base, Later, At, BlockNumbers
<1>4. Renders(0) /\ Plays(0)
  BY <1>3 DEF Renders, Plays
<1>5. Waits(0, buf, pwm, consumer, Base)
  <2>1. \A i \in 0..(Buffers - 1) : At(consumer, i) \in Slots /\ ~(i < 0)
    BY <1>1, AtIsSlot, Constants
  <2>2. QED
    BY <2>1 DEF Waits
<1>6. QED
  BY <1>1, <1>2, <1>4, <1>5 DEF RingInv, Holds

(* What a step may do to the word heard last.                              *)
Heard == heard' # heard => heard' = NextWord \/ (playing' = NoSlot /\ ~out')

LEMMA AudioStepPlays == RingInv /\ [AudioNext]_avars => RingInv' /\ Heard
<1> SUFFICES ASSUME RingInv, [AudioNext]_avars
             PROVE  RingInv' /\ Heard
  OBVIOUS
<1>1. ASSUME ResetOutput, made' = made, fore' \notin Counting
      PROVE  RingInv' /\ Heard
  BY <1>1, RingResets DEF ResetOutput, Heard
<1>2. ASSUME UNCHANGED <<pwmRing, heard, made>>, SamePlace
      PROVE  RingInv' /\ Heard
  BY <1>2, RingRests DEF Heard
<1>3. CASE PwmWrap
  <2>1. CASE PlayWord
    BY <1>3, <2>1, WordPlayed DEF PwmWrap, Heard
  <2>2. CASE Ramp \/ Settle \/ Underrun
    BY <1>2, <1>3, <2>2 DEF PwmWrap, Ramp, Settle, Underrun, SamePlace
  <2>3. QED
    BY <1>3, <2>1, <2>2 DEF PwmWrap
<1>4. CASE Service
  <2>1. CASE Silenced /\ fore' = fore
    BY <1>1, <1>4, <2>1 DEF Service, Silenced, Counting
  <2>2. CASE StartReady /\ fore' = "idle" /\ UNCHANGED <<pwm, producer, made, heard>>
    BY <1>4, <2>2, OutputStarted DEF Service, SamePlace, Counting, Heard
  <2>3. CASE fore' = "fill" /\ UNCHANGED <<pwmRing, made, heard>>
    BY <1>2, <1>4, <2>3 DEF Service, SamePlace, Counting
  <2>4. QED
    BY <1>4, <2>1, <2>2, <2>3 DEF Service
<1>5. CASE Idle
  <2>1. CASE ResetOutput
    BY <1>1, <1>5, <2>1 DEF Idle, Counting
  <2>2. CASE ~ResetOutput
    BY <1>2, <1>5, <2>2 DEF Idle, SamePlace, Counting, output
  <2>3. QED
    BY <2>1, <2>2
<1>6. CASE TimePasses
  BY <1>2, <1>6 DEF TimePasses, SamePlace
<1>7. CASE Fill
  BY <1>7, SlotFilled DEF Fill, Heard
<1>8. CASE MarkReady \/ AdvanceProducer
  BY <1>8, SlotMarked, ProducerAdvanced DEF MarkReady, AdvanceProducer, Heard
<1>9. CASE Start
  BY <1>9, OutputStarted DEF Start, SamePlace, Counting, Heard
<1>10. CASE Stop \/ FileRefused \/ PlayWav \/ PlayMp3
  BY <1>1, <1>10 DEF Stop, FileRefused, PlayWav, PlayMp3, Silenced, Asked, Counting
<1>11. CASE \E kind \in {"Synth", "Diagnostic"} : PlayTone(kind)
  BY <1>1, <1>11 DEF PlayTone, Silenced, Asked, Counting
<1>12. CASE KeyClick \/ CardMoves
  BY <1>2, <1>12 DEF KeyClick, CardMoves, Asked, SamePlace, Counting
<1>13. CASE \E on \in BOOLEAN : Pause(on) \/ Radio(on)
  BY <1>2, <1>13 DEF Pause, Radio, SamePlace
<1>14. CASE \E m \in Clocks \union {200} : SelectClock(m)
  BY <1>1, <1>14 DEF SelectClock, Silenced, Asked, Counting
<1>15. CASE UNCHANGED avars
  BY <1>2, <1>15 DEF avars, SamePlace
<1>16. QED
  BY <1>3, <1>4, <1>5, <1>6, <1>7, <1>8, <1>9, <1>10, <1>11, <1>12, <1>13, <1>14, <1>15
     DEF AudioNext, Serving, Request

(* Between the renderer and the interrupt, which may come between any two  *)
(* steps of audio_service(), no word is lost, repeated or played ahead of  *)
(* its turn; only a stop drops what still waits.                           *)
THEOREM WordsInOrder == AudioSpec => PlayedInOrder
<1>1. RingInv /\ [AudioNext]_avars =>
        [heard' # heard => heard' = NextWord \/ (playing' = NoSlot /\ ~out')]_avars
  BY AudioStepPlays DEF Heard
<1>2. QED
  BY <1>1, RingInitHolds, AudioStepPlays, PTL DEF AudioSpec, PlayedInOrder

-----------------------------------------------------------------------------
(* Places in the ring.                                                     *)

(* Each number has a quotient and a remainder by the size of the ring.     *)
LEMMA DivMod ==
    ASSUME NEW R \in Nat \ {0}, NEW a \in Nat
    PROVE  \E q \in Nat, r \in 0..(R - 1) : a = R * q + r /\ a % R = r
<1>1. a = R * (a \div R) + (a % R) /\ a \div R \in Nat /\ a % R \in 0..(R - 1)
    BY SMT
<1> QED BY <1>1

LEMMA NextMultiple ==
    ASSUME NEW R \in Nat \ {0}, NEW x \in Int, NEW y \in Int, x < y
    PROVE  R * x + R <= R * y
<1>1. R * (y - x) >= R
    BY SMT
<1> QED BY <1>1, SMT

LEMMA OneDivision ==
    ASSUME NEW R \in Nat \ {0}, NEW p \in Int, NEW q \in Int,
           NEW r \in 0..(R - 1), NEW s \in 0..(R - 1), R * q + r = R * p + s
    PROVE  q = p /\ r = s
<1>1. ~(q < p)
    BY NextMultiple, SMT
<1>2. ~(p < q)
    BY NextMultiple, SMT
<1> QED BY <1>1, <1>2, SMT

(* Two bytes less than a lap apart have different places.                  *)
LEMMA PlacesDiffer ==
    ASSUME NEW R \in Nat \ {0}, NEW a \in Nat, NEW b \in Nat, a < b, b < a + R
    PROVE  a % R # b % R
<1>1. PICK q \in Nat, r \in 0..(R - 1) : a = R * q + r /\ a % R = r
    BY DivMod
<1>2. PICK p \in Nat, s \in 0..(R - 1) : b = R * p + s /\ b % R = s
    BY DivMod
<1>3. SUFFICES ASSUME r = s PROVE FALSE
    BY <1>1, <1>2
<1>4. q < p
    BY ONLY <1>1, <1>2, <1>3, a < b, NextMultiple, R \in Nat \ {0}, SMT
<1>5. R * q + R <= R * p
    BY <1>4, NextMultiple
<1> QED BY <1>1, <1>2, <1>3, <1>5, SMT

(* The place after the last one is the first one again.                    *)
LEMMA NextPlace ==
    ASSUME NEW R \in Nat \ {0}, NEW a \in Nat
    PROVE  (a + 1) % R = IF a % R = R - 1 THEN 0 ELSE (a % R) + 1
<1>1. PICK q \in Nat, r \in 0..(R - 1) : a = R * q + r /\ a % R = r
    BY DivMod
<1>2. a + 1 \in Nat
    BY SMT
<1>3. PICK p \in Nat, s \in 0..(R - 1) : a + 1 = R * p + s /\ (a + 1) % R = s
    BY <1>2, DivMod
<1>4. CASE r = R - 1
    <2>1. R * p + s = R * (q + 1) + 0
        BY <1>1, <1>3, <1>4, SMT
    <2>2. s = 0
        BY <2>1, OneDivision, q + 1 \in Int, 0 \in 0..(R - 1), SMT
    <2> QED BY <2>2, <1>4, <1>1, <1>3
<1>5. CASE r # R - 1
    <2>1. R * p + s = R * q + (r + 1) /\ r + 1 \in 0..(R - 1)
        BY <1>1, <1>3, <1>5, SMT
    <2>2. s = r + 1
        BY <2>1, OneDivision, SMT
    <2> QED BY <2>2, <1>5, <1>1, <1>3
<1> QED BY <1>4, <1>5

LEMMA PlaceIsSlot == ASSUME NEW a \in Nat PROVE a % RingSize \in Slot
    BY PortAssumption, DivMod DEF Slot

-----------------------------------------------------------------------------
(* The inductive invariant.                                                *)

Readers == [pc : {"none", "sample", "copy", "sample again"}, base : Nat, seen : Nat,
            want : Nat, got : Seq(Int)]
ChunkSet == [from : Nat, bytes : Seq(Int)]

Types ==
    /\ active \in BOOLEAN /\ callback \in BOOLEAN /\ claimed \in BOOLEAN
    /\ command \in Route /\ route \in Route
    /\ mode \in {"irq", "dma"} /\ baud \in {"console", "transfer"}
    /\ written \in Nat /\ consumed \in Nat /\ completed \in Nat
    /\ pending \in BOOLEAN /\ overflow \in BOOLEAN
    /\ ring \in [Slot -> Int]
    /\ reader \in Readers
    /\ chunk \in ChunkSet

(* What of the console a transfer has taken: its own driver, and of UART0  *)
(* what its receiver needs.                                                *)
Taken ==
    /\ console = IF active THEN Drivers \ {route} ELSE Drivers
    /\ active => route \in Drivers
    /\ callback \/ claimed \/ baud = "transfer" => active /\ route = "uart"

(* The last lap of bytes is in the ring, each at its place.                *)
LastLap ==
    \A b \in Nat : b < written /\ written <= b + RingSize => ring[b % RingSize] = b

(* The interrupt handler drops what does not fit.                          *)
IrqFits == Irq => consumed <= written /\ written <= consumed + RingSize

(* The finished laps, the one whose interrupt waits, and the position in   *)
(* the present lap make up the count of what DMA wrote.                    *)
LapsCounted ==
    Dma => /\ consumed <= written
           /\ completed + (IF pending THEN RingSize ELSE 0) + (written % RingSize) = written

(* A read that stops between its steps is one of the DMA ring.             *)
ReadsDma == reader.pc # "none" => Dma

(* A read that DMA has not lapped holds its bytes.                         *)
Reading ==
    /\ reader.pc = "sample" => reader.got = <<>>
    /\ reader.pc \in {"sample", "sample again"} =>
         reader.base + (written % RingSize) = written
    /\ reader.pc \in {"copy", "sample again"} =>
         /\ consumed + reader.want <= written
         /\ Len(reader.got) <= reader.want
         /\ \A k \in 1..Len(reader.got) :
              written <= consumed + k - 1 + RingSize => reader.got[k] = consumed + k - 1

ConsoleInv == Types /\ Taken /\ IrqFits /\ ReadsDma
IInv == ConsoleInv /\ LastLap /\ LapsCounted /\ Reading /\ DeliveredInOrder

-----------------------------------------------------------------------------
(* Types and the console: no assumption about DMA is needed.               *)

LEMMA Blank == NoRead \in Readers /\ Nothing \in ChunkSet
    BY DEF NoRead, Readers, Nothing, ChunkSet

LEMMA RingEmptied ==
    ASSUME EmptyRing
    PROVE  /\ ring' \in [Slot -> Int] /\ written' = 0 /\ consumed' = 0
           /\ completed' = 0 /\ pending' \in BOOLEAN /\ ~pending' /\ overflow' \in BOOLEAN
<1>1. [s \in Slot |-> -1] \in [Slot -> Int]
    OBVIOUS
<1> QED BY <1>1 DEF EmptyRing

LEMMA LapFolded ==
    ASSUME completed \in Nat, FoldLap
    PROVE  completed' \in Nat /\ pending' \in BOOLEAN /\ ~pending'
<1>1. pending' = FALSE
    BY DEF FoldLap
<1>2. pending' \in BOOLEAN
    BY <1>1, Zenon
<1>3. completed' \in Nat
    BY PortAssumption DEF FoldLap
<1> QED BY <1>1, <1>2, <1>3

LEMMA ConsoleInit == PortInit => ConsoleInv
<1> SUFFICES ASSUME PortInit PROVE ConsoleInv
    OBVIOUS
<1>1. Types
    <2>1. ring \in [Slot -> Int]
        BY DEF PortInit
    <2>2. reader \in Readers /\ chunk \in ChunkSet
        BY Blank DEF PortInit
    <2> QED BY <2>1, <2>2 DEF Types, PortInit, Route
<1>2. Taken
    BY DEF PortInit, Taken
<1>3. IrqFits
    BY DEF PortInit, IrqFits, Irq
<1>4. ReadsDma
    BY DEF PortInit, ReadsDma, NoRead
<1> QED BY <1>1, <1>2, <1>3, <1>4 DEF ConsoleInv

(* A step leaves Taken alone, but for begin and end.                       *)
LEMMA TakenStep ==
    ASSUME ConsoleInv, [PortNext]_pvars
    PROVE  Taken'
<1>t. Types /\ Taken
    BY DEF ConsoleInv
<1> USE <1>t DEF Types, Taken
<1>1. ASSUME NEW r \in Route, BeginRefused(r) PROVE Taken'
    BY <1>1 DEF BeginRefused, Busy
<1>2. ASSUME NEW r \in Route, BeginUndone(r) PROVE Taken'
    BY <1>2 DEF BeginUndone, Busy
<1>3. ASSUME NEW r \in Route, Begins(r) PROVE Taken'
    <2>1. Selected(r) \in Drivers
        BY DEF Selected, Route, Drivers
    <2>2. /\ ~active /\ active' = TRUE
          /\ route' = Selected(r) /\ console' = Drivers \ {Selected(r)}
          /\ baud' = IF Selected(r) = "uart" THEN "transfer" ELSE baud
          /\ callback' = (Selected(r) = "uart" /\ mode = "irq")
          /\ claimed' = (Selected(r) = "uart" /\ mode = "dma")
        BY <1>3 DEF Begins, Busy
    <2>3. baud # "transfer"
        BY <2>2
    <2> QED BY <2>1, <2>2, <2>3
<1>4. CASE Ends
    <2>1. CASE route = "uart"
        BY <1>4, <2>1 DEF Ends, Drivers
    <2>2. CASE route # "uart"
        BY <1>4, <2>2 DEF Ends, Drivers
    <2> QED BY <2>1, <2>2
<1>5. CASE LocalInput
    BY <1>5 DEF LocalInput
<1>13. CASE UsbPlug
    BY <1>13 DEF UsbPlug
<1>6. ASSUME NEW from \in Drivers, NEW same \in BOOLEAN, ConsoleByte(from, same) PROVE Taken'
    BY <1>6 DEF ConsoleByte
<1>7. ASSUME NEW on \in BOOLEAN, Diagnostic(on) PROVE Taken'
    BY <1>7 DEF Diagnostic
<1>8. ASSUME NEW m \in {"irq", "dma"}, SetMode(m) PROVE Taken'
    BY <1>8 DEF SetMode
<1>9. CASE UNCHANGED session
    BY <1>9 DEF session
<1>10. ASSUME NEW n \in Chunks, UartReceived(n) \/ IrqRead(n) \/ DmaRead(n) PROVE Taken'
    BY <1>9, <1>10 DEF UartReceived, IrqRead, DmaRead
<1>11. CASE DmaWrites \/ DmaIrq \/ DmaSample \/ DmaCopy \/ DmaCheck \/ DmaDeliver
    BY <1>9, <1>11 DEF DmaWrites, DmaIrq, DmaSample, DmaCopy, DmaCheck, DmaDeliver
<1>12. CASE UNCHANGED pvars
    BY <1>9, <1>12 DEF pvars
<1> QED
    BY <1>1, <1>2, <1>3, <1>4, <1>5, <1>6, <1>7, <1>8, <1>10, <1>11, <1>12, <1>13
       DEF PortNext

(* Every action keeps the types.                                           *)
LEMMA TypesStep ==
    ASSUME ConsoleInv, [PortNext]_pvars
    PROVE  Types'
<1>t. Types /\ IrqFits
    BY DEF ConsoleInv
<1> USE <1>t DEF Types
<1>r. RingSize \in Nat \ {0}
    BY PortAssumption
<1>a. Available \in Int
    <2>1. reader.base \in Nat
        BY DEF Readers
    <2> QED BY <2>1, PlaceIsSlot, <1>r DEF Available, Position, Slot
<1>1. ASSUME NEW r \in Route, BeginRefused(r) PROVE Types'
    BY <1>1 DEF BeginRefused, Route, ringvars
<1>2. ASSUME NEW r \in Route, BeginUndone(r) PROVE Types'
    <2>1. /\ active' = active /\ command' = command /\ mode' = mode
          /\ reader' = reader /\ chunk' = chunk
          /\ route' = "uart" /\ baud' = "console"
          /\ callback' \in BOOLEAN /\ claimed' \in BOOLEAN
        BY <1>2 DEF BeginUndone
    <2>2. EmptyRing
        BY <1>2 DEF BeginUndone
    <2> QED BY <2>1, <2>2, RingEmptied DEF Route
<1>3. ASSUME NEW r \in Route, Begins(r) PROVE Types'
    <2>1. Selected(r) \in Route
        BY DEF Selected, Route
    <2>2. /\ active' = TRUE /\ route' = Selected(r) /\ baud' \in {"console", "transfer"}
          /\ callback' \in BOOLEAN /\ claimed' \in BOOLEAN
        BY <1>3 DEF Begins
    <2> QED BY <1>3, RingEmptied, <2>1, <2>2 DEF Begins
<1>4. CASE Ends
    <2>1. callback' \in BOOLEAN /\ claimed' \in BOOLEAN /\ baud' \in {"console", "transfer"}
        BY <1>4 DEF Ends
    <2>2. /\ active' \in BOOLEAN /\ command' = command /\ mode' = mode /\ route' = route
          /\ reader' = reader /\ chunk' = Nothing
        BY <1>4 DEF Ends
    <2>3. EmptyRing
        BY <1>4 DEF Ends
    <2> QED BY <2>1, <2>2, <2>3, RingEmptied, Blank
<1>5. CASE LocalInput
    BY <1>5 DEF LocalInput, Route, ringvars
<1>6. CASE UsbPlug
    BY <1>6 DEF UsbPlug, ringvars
<1>7. ASSUME NEW from \in Drivers, NEW same \in BOOLEAN, ConsoleByte(from, same) PROVE Types'
    BY <1>7 DEF ConsoleByte, Route, Drivers, ringvars
<1>8. ASSUME NEW on \in BOOLEAN, Diagnostic(on) PROVE Types'
    BY <1>8 DEF Diagnostic, ringvars
<1>9. ASSUME NEW m \in {"irq", "dma"}, SetMode(m) PROVE Types'
    BY <1>9 DEF SetMode, ringvars
<1>10. ASSUME NEW n \in Chunks, UartReceived(n) PROVE Types'
    <2> DEFINE free == RingSize - (written - consumed)
               stored == IF n < free THEN n ELSE free
    <2>1. free \in Nat /\ stored \in Nat
        BY <1>10, <1>r, PortAssumption DEF UartReceived, IrqFits
    <2>2. \A s \in Slot : (\E i \in 0..(stored - 1) : (written + i) % RingSize = s) =>
            (CHOOSE b \in written..(written + stored - 1) : b % RingSize = s) \in Int
        <3>1. SUFFICES ASSUME NEW s \in Slot, NEW i \in 0..(stored - 1),
                              (written + i) % RingSize = s
                       PROVE  (CHOOSE b \in written..(written + stored - 1) :
                                 b % RingSize = s) \in Int
            OBVIOUS
        <3>2. written + i \in written..(written + stored - 1)
            BY <2>1
        <3> HIDE DEF stored
        <3>3. \E b \in written..(written + stored - 1) : b % RingSize = s
            BY <3>1, <3>2
        <3> QED BY <3>3
    <2>3. ring' = [s \in Slot |->
                     IF \E i \in 0..(stored - 1) : (written + i) % RingSize = s
                     THEN CHOOSE b \in written..(written + stored - 1) : b % RingSize = s
                     ELSE ring[s]]
        BY <1>10 DEF UartReceived
    <2>4. written' = written + stored /\ overflow' = (n > free)
        BY <1>10 DEF UartReceived
    <2> HIDE DEF stored
    <2>5. ring' \in [Slot -> Int]
        BY <2>2, <2>3
    <2>6. UNCHANGED <<session, completed, pending, consumed, reader, chunk>>
        BY <1>10 DEF UartReceived
    <2> QED BY <2>1, <2>4, <2>5, <2>6 DEF session
<1>11. ASSUME NEW n \in Chunks, IrqRead(n) PROVE Types'
    <2> DEFINE count == IF n < written - consumed THEN n ELSE written - consumed
    <2>1. count \in Nat
        BY <1>11, PortAssumption DEF IrqRead
    <2>2. \A i \in 1..count : ring[(consumed + i - 1) % RingSize] \in Int
        <3>1. \A i \in 1..count : consumed + i - 1 \in Nat
            BY <2>1
        <3> QED BY <3>1, PlaceIsSlot
    <2>3. chunk' = [from |-> consumed,
                    bytes |-> [i \in 1..count |-> ring[(consumed + i - 1) % RingSize]]]
        BY <1>11 DEF IrqRead
    <2> HIDE DEF count
    <2>4. [i \in 1..count |-> ring[(consumed + i - 1) % RingSize]] \in Seq(Int)
        BY ONLY <2>1, <2>2
    <2>5. chunk' \in ChunkSet
        BY <2>3, <2>4 DEF ChunkSet
    <2>6. consumed' \in Nat
        BY <1>11, <2>1 DEF IrqRead, count
    <2> QED BY <1>11, <2>5, <2>6 DEF IrqRead, session
<1>12. ASSUME NEW n \in Chunks, DmaRead(n) PROVE Types'
    <2>1. completed' \in Nat /\ pending' \in BOOLEAN
        BY <1>12, LapFolded DEF DmaRead
    <2>2. n \in Nat
        BY PortAssumption
    <2>3. reader' = [NoRead EXCEPT !.pc = "sample", !.base = completed', !.want = n]
        BY <1>12 DEF DmaRead
    <2>4. reader' \in Readers
        BY ONLY Blank, <2>1, <2>2, <2>3 DEF Readers
    <2> QED BY <1>12, <2>1, <2>4 DEF DmaRead, session
<1>13. CASE DmaWrites
    BY <1>13, PlaceIsSlot DEF DmaWrites, session
<1>14. CASE DmaIrq
    BY <1>14, LapFolded DEF DmaIrq, session
<1>15. CASE DmaSample
    <2>1. CASE Overrun(Available)
        BY <1>15, <2>1, Blank DEF DmaSample, ReadFails, session
    <2>2. CASE ~Overrun(Available)
        <3>1. Available \in Nat
            BY <2>2, <1>a, <1>r DEF Overrun
        <3>2. reader' = [reader EXCEPT !.pc = IF Available = 0 THEN "none" ELSE "copy",
                                       !.want = IF reader.want < Available THEN reader.want
                                                ELSE Available]
            BY <1>15, <2>2 DEF DmaSample
        <3>3. reader \in Readers
            OBVIOUS
        <3>4. reader' \in Readers
            BY ONLY <3>1, <3>2, <3>3 DEF Readers
        <3> QED BY <1>15, <2>2, <3>4 DEF DmaSample, session
    <2> QED BY <2>1, <2>2
<1>16. CASE DmaCopy
    <2>r. reader.got \in Seq(Int)
        BY DEF Readers
    <2>l. Len(reader.got) \in Nat
        BY ONLY <2>r
    <2>1. Len(reader.got) \in Nat /\ reader.got \in Seq(Int)
        BY <2>r, <2>l
    <2>2. ring[(consumed + Len(reader.got)) % RingSize] \in Int
        BY <2>1, PlaceIsSlot, consumed + Len(reader.got) \in Nat
    <2>3. reader' = [reader EXCEPT !.got = Append(@, ring[(consumed + Len(@)) % RingSize])]
        BY <1>16 DEF DmaCopy
    <2>4. reader \in Readers
        OBVIOUS
    <2> DEFINE got == Append(reader.got, ring[(consumed + Len(reader.got)) % RingSize])
    <2>5. got \in Seq(Int)
        BY ONLY <2>1, <2>2
    <2>6. reader' = [reader EXCEPT !.got = got]
        BY <2>3
    <2> HIDE DEF got
    <2>7. reader' \in Readers
        BY ONLY <2>4, <2>5, <2>6 DEF Readers
    <2> QED BY <1>16, <2>7 DEF DmaCopy, session, ringvars
<1>17. CASE DmaCheck
    <2>1. completed' \in Nat /\ pending' \in BOOLEAN
        BY <1>17, LapFolded DEF DmaCheck
    <2>2. reader' = [reader EXCEPT !.pc = "sample again", !.base = completed']
        BY <1>17 DEF DmaCheck
    <2>3. reader \in Readers
        OBVIOUS
    <2>4. reader' \in Readers
        BY ONLY <2>1, <2>2, <2>3 DEF Readers
    <2> QED BY <1>17, <2>1, <2>4 DEF DmaCheck, session
<1>18. CASE DmaDeliver
    <2>1. CASE Overrun(Available)
        BY <1>18, <2>1, Blank DEF DmaDeliver, ReadFails, session
    <2>2. CASE ~Overrun(Available)
        <3>1. reader.want \in Nat /\ reader.got \in Seq(Int)
            BY DEF Readers
        <3>2. [from |-> consumed, bytes |-> reader.got] \in ChunkSet
            BY <3>1 DEF ChunkSet
        <3>3. /\ consumed' = consumed + reader.want
              /\ chunk' = [from |-> consumed, bytes |-> reader.got]
              /\ reader' = NoRead
              /\ UNCHANGED <<session, ring, written, completed, pending, overflow>>
            BY <1>18, <2>2 DEF DmaDeliver
        <3> QED BY <3>1, <3>2, <3>3, Blank DEF session
    <2> QED BY <2>1, <2>2
<1>19. CASE UNCHANGED pvars
    BY <1>19 DEF pvars, session, ringvars
<1> QED
    BY <1>1, <1>2, <1>3, <1>4, <1>5, <1>6, <1>7, <1>8, <1>9, <1>10, <1>11, <1>12, <1>13, <1>14,
       <1>15, <1>16, <1>17, <1>18, <1>19 DEF PortNext

(* The ring is never over-filled by the interrupt handler, and a read that *)
(* goes on keeps its receiver.                                             *)
LEMMA ReceiverStep ==
    ASSUME ConsoleInv, [PortNext]_pvars
    PROVE  IrqFits' /\ ReadsDma'
<1>t. Types /\ IrqFits /\ ReadsDma
    BY DEF ConsoleInv
<1>r. RingSize \in Nat \ {0}
    BY PortAssumption
<1> USE <1>t, <1>r DEF Types, IrqFits, ReadsDma
<1>1. CASE ~active /\ ~active' /\ reader' = reader
    BY <1>1 DEF Irq, Dma
<1>2. ASSUME NEW r \in Route, BeginRefused(r) \/ BeginUndone(r) PROVE IrqFits' /\ ReadsDma'
    BY <1>1, <1>2 DEF BeginRefused, BeginUndone, Busy
<1>3. ASSUME NEW r \in Route, Begins(r) PROVE IrqFits' /\ ReadsDma'
    <2>1. EmptyRing /\ ~active /\ reader' = reader
        BY <1>3 DEF Begins, Busy
    <2> QED BY <2>1, RingEmptied DEF Dma
<1>4. CASE Ends
    BY <1>4 DEF Ends, Irq, Dma
<1>5. ASSUME NEW m \in {"irq", "dma"}, SetMode(m) PROVE IrqFits' /\ ReadsDma'
    BY <1>1, <1>5 DEF SetMode
<1>6. CASE UNCHANGED <<active, route, mode, written, consumed, reader>>
    BY <1>6 DEF Irq, Dma
<1>7. CASE LocalInput
    BY <1>6, <1>7 DEF LocalInput, ringvars
<1>8. CASE UsbPlug \/ UNCHANGED pvars
    BY <1>6, <1>8 DEF UsbPlug, pvars, session, ringvars
<1>9. ASSUME NEW from \in Drivers, NEW same \in BOOLEAN, ConsoleByte(from, same)
      PROVE  IrqFits' /\ ReadsDma'
    BY <1>6, <1>9 DEF ConsoleByte, ringvars
<1>10. ASSUME NEW on \in BOOLEAN, Diagnostic(on) PROVE IrqFits' /\ ReadsDma'
    BY <1>6, <1>10 DEF Diagnostic, ringvars
<1>11. ASSUME NEW n \in Chunks, UartReceived(n) PROVE IrqFits' /\ ReadsDma'
    BY <1>11, PortAssumption DEF UartReceived, session, Irq, Dma
<1>12. ASSUME NEW n \in Chunks, IrqRead(n) PROVE IrqFits' /\ ReadsDma'
    BY <1>12, PortAssumption DEF IrqRead, session, Irq, Dma
<1>13. CASE Dma /\ UNCHANGED session
    BY <1>13 DEF session, Irq, Dma
<1>14. ASSUME NEW n \in Chunks, DmaRead(n) PROVE IrqFits' /\ ReadsDma'
    BY <1>13, <1>14 DEF DmaRead
<1>15. CASE DmaWrites \/ DmaIrq
    BY <1>13, <1>15 DEF DmaWrites, DmaIrq
<1>16. CASE DmaSample \/ DmaCopy \/ DmaCheck \/ DmaDeliver
    BY <1>13, <1>16 DEF DmaSample, DmaCopy, DmaCheck, DmaDeliver
<1> QED
    BY <1>2, <1>3, <1>4, <1>5, <1>7, <1>8, <1>9, <1>10, <1>11, <1>12, <1>14, <1>15, <1>16
       DEF PortNext

THEOREM ConsoleInvariant == PortSpec => []ConsoleInv
<1>1. PortInit => ConsoleInv
    BY ConsoleInit
<1>2. ConsoleInv /\ [PortNext]_pvars => ConsoleInv'
    BY TypesStep, TakenStep, ReceiverStep DEF ConsoleInv
<1> QED BY <1>1, <1>2, PTL DEF PortSpec

(* However a transfer ended or was refused, the console has both drivers   *)
(* and UART0 its rate, no callback and no DMA.                             *)
THEOREM ConsoleIsRestored == PortSpec => []ConsoleRestored
<1>1. ConsoleInv => ConsoleRestored
    BY DEF ConsoleInv, Types, Taken, ConsoleRestored
<1> QED BY <1>1, ConsoleInvariant, PTL

-----------------------------------------------------------------------------
(* The bytes of the ring.                                                  *)

(* What an action of the console, a begin or an end leaves alone.          *)
LEMMA OutsideTransfer ==
    ASSUME \/ \E from \in Drivers, same \in BOOLEAN : ConsoleByte(from, same)
           \/ LocalInput \/ UsbPlug \/ UNCHANGED pvars
           \/ \E on \in BOOLEAN : Diagnostic(on)
           \/ \E r \in Route : BeginRefused(r)
           \/ \E m \in {"irq", "dma"} : SetMode(m)
    PROVE  UNCHANGED <<ringvars, reader, chunk>> /\ (Dma' => Dma)
<1>1. ASSUME NEW from \in Drivers, NEW same \in BOOLEAN, ConsoleByte(from, same)
      PROVE  UNCHANGED <<ringvars, reader, chunk, active, route, mode>>
    BY <1>1 DEF ConsoleByte
<1>2. CASE LocalInput
    BY <1>2 DEF LocalInput, Dma
<1>3. CASE UsbPlug \/ UNCHANGED pvars
    BY <1>3 DEF UsbPlug, Dma, pvars, session
<1>4. ASSUME NEW on \in BOOLEAN, Diagnostic(on)
      PROVE  UNCHANGED <<ringvars, reader, chunk, active, route, mode>>
    BY <1>4 DEF Diagnostic
<1>5. ASSUME NEW r \in Route, BeginRefused(r)
      PROVE  UNCHANGED <<ringvars, reader, chunk>> /\ ~active'
    BY <1>5 DEF BeginRefused, Busy
<1>6. ASSUME NEW m \in {"irq", "dma"}, SetMode(m)
      PROVE  UNCHANGED <<ringvars, reader, chunk>> /\ ~active'
    BY <1>6 DEF SetMode
<1> QED BY <1>1, <1>2, <1>3, <1>4, <1>5, <1>6 DEF Dma

(* A byte that comes in is put where nothing of the last lap is any more.  *)
LEMMA LastLapStep ==
    ASSUME ConsoleInv, LastLap, [PortNext]_pvars
    PROVE  LastLap'
<1>t. Types /\ IrqFits
    BY DEF ConsoleInv
<1>r. RingSize \in Nat \ {0}
    BY PortAssumption
<1>1. CASE UNCHANGED <<ring, written>>
    BY <1>1 DEF LastLap
<1>2. CASE EmptyRing
    BY <1>2, RingEmptied DEF LastLap
<1>3. ASSUME NEW n \in Chunks, UartReceived(n) PROVE LastLap'
    <2> DEFINE free == RingSize - (written - consumed)
               stored == IF n < free THEN n ELSE free
    <2>1. free \in Nat /\ stored \in Nat /\ stored <= RingSize
        BY <1>3, <1>r, <1>t, PortAssumption DEF UartReceived, IrqFits, Types
    <2>2. ring' = [s \in Slot |->
                     IF \E i \in 0..(stored - 1) : (written + i) % RingSize = s
                     THEN CHOOSE b \in written..(written + stored - 1) : b % RingSize = s
                     ELSE ring[s]]
        BY <1>3 DEF UartReceived
    <2>3. written' = written + stored
        BY <1>3 DEF UartReceived
    <2> HIDE DEF stored, free
    <2>4. SUFFICES ASSUME NEW b \in Nat, b < written + stored,
                          written + stored <= b + RingSize
                   PROVE  ring'[b % RingSize] = b
        BY <2>3 DEF LastLap
    <2>5. b % RingSize \in Slot
        BY PlaceIsSlot
    <2>6. CASE b >= written
        <3>1. b - written \in 0..(stored - 1) /\ written + (b - written) = b
            BY <2>1, <2>4, <2>6, <1>t DEF Types
        <3>2. ring'[b % RingSize]
                = CHOOSE c \in written..(written + stored - 1) : c % RingSize = b % RingSize
            BY <2>2, <2>5, <3>1
        <3>3. \A c \in written..(written + stored - 1) :
                c % RingSize = b % RingSize => c = b
            <4>1. SUFFICES ASSUME NEW c \in written..(written + stored - 1),
                                  c % RingSize = b % RingSize
                           PROVE  ~(c < b) /\ ~(b < c)
                BY <2>4, <1>t, <2>1 DEF Types
            <4>2. c \in Nat /\ c < b + RingSize /\ b < c + RingSize
                BY <2>1, <2>4, <2>6, <1>t, <1>r DEF Types
            <4> QED BY <4>1, <4>2, <1>r, PlacesDiffer
        <3>4. b \in written..(written + stored - 1)
            BY <2>1, <2>4, <2>6, <1>t DEF Types
        <3> QED BY <3>2, <3>3, <3>4
    <2>7. CASE b < written
        <3>1. ASSUME NEW i \in 0..(stored - 1)
              PROVE  (written + i) % RingSize # b % RingSize
            <4>1. written + i \in Nat /\ b < written + i /\ written + i < b + RingSize
                BY <3>1, <2>1, <2>4, <2>7, <1>t, <1>r DEF Types
            <4> QED BY <4>1, <1>r, PlacesDiffer
        <3>2. ring'[b % RingSize] = ring[b % RingSize]
            BY <2>2, <2>5, <3>1
        <3>3. written <= b + RingSize
            BY <2>1, <2>4, <1>t, <1>r DEF Types
        <3> QED BY <3>2, <3>3, <2>7 DEF LastLap
    <2> QED BY <2>6, <2>7, <1>t DEF Types
<1>4. CASE DmaWrites
    <2>1. ring' = [ring EXCEPT ![written % RingSize] = written] /\ written' = written + 1
        BY <1>4 DEF DmaWrites
    <2>2. SUFFICES ASSUME NEW b \in Nat, b < written + 1, written + 1 <= b + RingSize
                   PROVE  ring'[b % RingSize] = b
        BY <2>1 DEF LastLap
    <2>3. b % RingSize \in Slot /\ written % RingSize \in Slot /\ ring \in [Slot -> Int]
        BY PlaceIsSlot, <1>t DEF Types
    <2>4. CASE b = written
        BY <2>1, <2>3, <2>4
    <2>5. CASE b < written
        <3>1. written < b + RingSize
            BY <2>2, <1>t, <1>r DEF Types
        <3>2. written % RingSize # b % RingSize
            BY <2>5, <3>1, <1>r, <1>t, PlacesDiffer DEF Types
        <3>3. ring[b % RingSize] = b
            BY <2>5, <3>1, <1>t, <1>r DEF LastLap, Types
        <3> QED BY <2>1, <2>3, <3>2, <3>3
    <2> QED BY <2>2, <2>4, <2>5, <1>t DEF Types
<1>5. ASSUME NEW r \in Route, BeginUndone(r) \/ Begins(r) PROVE LastLap'
    BY <1>2, <1>5 DEF BeginUndone, Begins
<1>6. CASE Ends
    BY <1>2, <1>6 DEF Ends
<1>7. ASSUME NEW n \in Chunks, IrqRead(n) \/ DmaRead(n) PROVE LastLap'
    BY <1>1, <1>7 DEF IrqRead, DmaRead
<1>8. CASE DmaIrq \/ DmaSample \/ DmaCopy \/ DmaCheck \/ DmaDeliver
    BY <1>1, <1>8 DEF DmaIrq, DmaSample, DmaCopy, DmaCheck, DmaDeliver, ringvars
<1> QED
    BY <1>1, <1>3, <1>4, <1>5, <1>6, <1>7, <1>8, OutsideTransfer DEF PortNext, ringvars

(* The first byte has the first place.                                     *)
LEMMA FirstPlace == 0 % RingSize = 0
<1>1. RingSize \in Nat \ {0}
    BY PortAssumption
<1>2. PICK q \in Nat, r \in 0..(RingSize - 1) : 0 = RingSize * q + r /\ 0 % RingSize = r
    BY <1>1, DivMod
<1>3. RingSize * q + r = RingSize * 0 + 0
    BY <1>1, <1>2, SMT
<1>4. r = 0
    BY <1>1, <1>3, OneDivision, 0 \in 0..(RingSize - 1), SMT
<1> QED BY <1>2, <1>4

(* A finished lap is counted once, by the interrupt or by the reader.      *)
LEMMA LapsStep ==
    ASSUME ConsoleInv, LapsCounted, Reading, [PortNext]_pvars
    PROVE  LapsCounted'
<1>t. Types /\ ReadsDma
    BY DEF ConsoleInv
<1>r. RingSize \in Nat \ {0}
    BY PortAssumption
<1>p. written % RingSize \in Nat
    BY PlaceIsSlot, <1>r, <1>t DEF Slot, Types
<1>1. CASE UNCHANGED ringvars /\ (Dma' => Dma)
    BY <1>1 DEF LapsCounted, ringvars
<1>2. CASE EmptyRing
    BY <1>2, RingEmptied, FirstPlace DEF LapsCounted
<1>3. CASE ~Dma'
    BY <1>3 DEF LapsCounted
<1>4. CASE FoldLap /\ Dma /\ UNCHANGED <<written, consumed>>
    <2>1. completed' = (IF pending THEN completed + RingSize ELSE completed) /\ ~pending'
        BY <1>4 DEF FoldLap
    <2> QED BY <2>1, <1>4, <1>t, <1>r, <1>p DEF LapsCounted, Types
<1>5. ASSUME NEW r \in Route, BeginUndone(r) \/ Begins(r) PROVE LapsCounted'
    BY <1>2, <1>5 DEF BeginUndone, Begins
<1>6. CASE Ends
    BY <1>2, <1>6 DEF Ends
<1>7. ASSUME NEW n \in Chunks, UartReceived(n) \/ IrqRead(n) PROVE LapsCounted'
    BY <1>3, <1>7 DEF UartReceived, IrqRead, session, Irq, Dma
<1>8. ASSUME NEW n \in Chunks, DmaRead(n) PROVE LapsCounted'
    BY <1>4, <1>8 DEF DmaRead
<1>9. CASE DmaWrites
    <2>1. /\ Dma /\ written' = written + 1 /\ completed' = completed /\ consumed' = consumed
          /\ ((written + 1) % RingSize = 0 => ~pending)
          /\ pending' = (pending \/ (written + 1) % RingSize = 0)
        BY <1>9 DEF DmaWrites
    <2>2. (written + 1) % RingSize
            = IF written % RingSize = RingSize - 1 THEN 0 ELSE (written % RingSize) + 1
        BY NextPlace, <1>r, <1>t DEF Types
    <2>3. consumed <= written /\ completed + (IF pending THEN RingSize ELSE 0)
                                   + (written % RingSize) = written
        BY <2>1 DEF LapsCounted
    <2>4. CASE (written + 1) % RingSize = 0
        <3>1. written % RingSize = RingSize - 1
            BY <2>2, <2>4, <1>p
        <3>2. ~pending /\ pending'
            BY <2>1, <2>4
        <3> QED BY <3>1, <3>2, <2>1, <2>3, <2>4, <1>t, <1>r DEF LapsCounted, Types
    <2>5. CASE (written + 1) % RingSize # 0
        <3>1. (written + 1) % RingSize = (written % RingSize) + 1
            BY <2>2, <2>5
        <3>2. pending' <=> pending
            BY <2>1, <2>5
        <3> QED BY <3>1, <3>2, <2>1, <2>3, <1>t, <1>r, <1>p DEF LapsCounted, Types
    <2> QED BY <2>4, <2>5
<1>10. CASE DmaIrq
    BY <1>4, <1>10 DEF DmaIrq
<1>11. CASE DmaSample \/ DmaCopy
    <2>1. UNCHANGED <<session, written, completed, pending, consumed>>
        BY <1>11 DEF DmaSample, DmaCopy, ReadFails, ringvars
    <2> QED BY <2>1 DEF LapsCounted, Dma, session
<1>12. CASE DmaCheck
    BY <1>4, <1>12, <1>t DEF DmaCheck, ReadsDma
<1>13. CASE DmaDeliver
    <2>1. UNCHANGED <<session, written, completed, pending>>
        BY <1>13 DEF DmaDeliver, ReadFails
    <2>2. Dma /\ consumed + reader.want <= written
        BY <1>13, <1>t DEF DmaDeliver, ReadsDma, Reading
    <2>3. consumed' = consumed \/ consumed' = consumed + reader.want
        BY <1>13 DEF DmaDeliver, ReadFails
    <2> QED BY <2>1, <2>2, <2>3 DEF LapsCounted, Dma, session
<1> QED
    BY <1>1, <1>5, <1>6, <1>7, <1>8, <1>9, <1>10, <1>11, <1>12, <1>13, OutsideTransfer
       DEF PortNext

(* A read that DMA overtakes is found out: its bytes are right, or it is   *)
(* too late for them.  DMA completes no lap between the two loads of       *)
(* dma_produced().                                                         *)
LEMMA ReadingStep ==
    ASSUME Race = FALSE, ConsoleInv, LastLap, LapsCounted, Reading, [PortNext]_pvars
    PROVE  Reading'
<1>t. Types /\ ReadsDma
    BY DEF ConsoleInv
<1>r. RingSize \in Nat \ {0}
    BY PortAssumption
<1>p. written % RingSize \in Nat
    BY PlaceIsSlot, <1>r, <1>t DEF Slot, Types
<1>g. reader.want \in Nat /\ reader.got \in Seq(Int) /\ reader.base \in Nat
    BY <1>t DEF Types, Readers
<1>n. NoRead.pc = "none"
    BY DEF NoRead
<1>1. CASE reader'.pc = "none"
    BY <1>1 DEF Reading
<1>2. CASE UNCHANGED <<written, consumed, reader>>
    BY <1>2 DEF Reading
<1>3. CASE reader.pc = "none" /\ reader' = reader
    BY <1>1, <1>3
<1>4. ASSUME NEW r \in Route, BeginUndone(r) \/ Begins(r) PROVE Reading'
    BY <1>3, <1>4, <1>t DEF BeginUndone, Begins, Busy, ReadsDma, Dma
<1>5. CASE Ends
    BY <1>3, <1>5 DEF Ends
<1>6. ASSUME NEW n \in Chunks, UartReceived(n) \/ IrqRead(n) PROVE Reading'
    BY <1>3, <1>6, <1>t DEF UartReceived, IrqRead, ReadsDma, Irq, Dma
<1>7. ASSUME NEW n \in Chunks, DmaRead(n) PROVE Reading'
    <2>1. /\ Dma /\ FoldLap /\ written' = written
          /\ reader' = [NoRead EXCEPT !.pc = "sample", !.base = completed', !.want = n]
        BY <1>7 DEF DmaRead
    <2>2. /\ reader'.pc = "sample" /\ reader'.got = <<>> /\ reader'.base = completed'
        BY <2>1 DEF NoRead
    <2>3. completed' + (written % RingSize) = written
        BY <2>1, <1>t, <1>r, <1>p DEF FoldLap, LapsCounted, Types
    <2> QED BY <2>1, <2>2, <2>3 DEF Reading
<1>8. CASE DmaWrites
    <2>1. /\ written' = written + 1 /\ reader' = reader /\ consumed' = consumed
          /\ (InterruptsOff => (written + 1) % RingSize # 0)
        BY <1>8, Race = FALSE DEF DmaWrites
    <2>2. (written + 1) % RingSize
            = IF written % RingSize = RingSize - 1 THEN 0 ELSE (written % RingSize) + 1
        BY NextPlace, <1>r, <1>t DEF Types
    <2>3. ASSUME InterruptsOff PROVE reader.base + (written' % RingSize) = written'
        <3>1. (written + 1) % RingSize = (written % RingSize) + 1
            BY <2>1, <2>2, <2>3
        <3>2. reader.base + (written % RingSize) = written
            BY <2>3 DEF Reading, InterruptsOff
        <3>3. written \in Nat /\ written' = written + 1
            BY <2>1, <1>t DEF Types
        <3>4. written' % RingSize = (written % RingSize) + 1
            BY <3>1, <3>3
        <3>5. reader.base \in Nat
            BY <1>g
        <3> QED BY ONLY <3>2, <3>3, <3>4, <3>5, <1>p
    <2>4. ASSUME reader.pc \in {"copy", "sample again"}
          PROVE  /\ consumed + reader.want <= written'
                 /\ Len(reader.got) <= reader.want
                 /\ \A k \in 1..Len(reader.got) :
                      written' <= consumed + k - 1 + RingSize => reader.got[k] = consumed + k - 1
        <3>1. /\ consumed + reader.want <= written /\ Len(reader.got) <= reader.want
              /\ \A k \in 1..Len(reader.got) :
                   written <= consumed + k - 1 + RingSize => reader.got[k] = consumed + k - 1
            BY <2>4 DEF Reading
        <3>2. written \in Nat /\ consumed \in Nat
            BY <1>t DEF Types
        <3>3. consumed + reader.want <= written'
            BY <2>1, <3>1, <3>2, <1>g
        <3>4. ASSUME NEW k \in 1..Len(reader.got), written' <= consumed + k - 1 + RingSize
              PROVE  reader.got[k] = consumed + k - 1
            <4>1. k \in Int
                OBVIOUS
            <4>2. written <= consumed + k - 1 + RingSize
                BY <2>1, <3>2, <3>4, <4>1, <1>r
            <4> QED BY <3>1, <4>2
        <3> QED BY <3>1, <3>3, <3>4
    <2> QED BY <2>1, <2>3, <2>4 DEF Reading, InterruptsOff
<1>9. CASE DmaIrq
    BY <1>2, <1>9 DEF DmaIrq
<1>10. CASE DmaSample
    <2>1. CASE Overrun(Available)
        BY <1>1, <1>10, <1>n, <2>1 DEF DmaSample, ReadFails
    <2>2. CASE ~Overrun(Available)
        <3>1. /\ reader.pc = "sample"
              /\ reader' = [reader EXCEPT !.pc = IF Available = 0 THEN "none" ELSE "copy",
                                          !.want = IF reader.want < Available THEN reader.want
                                                   ELSE Available]
              /\ UNCHANGED <<consumed, written>>
            BY <1>10, <2>2 DEF DmaSample
        <3>2. Available = written - consumed /\ Available \in Int
            BY <3>1, <1>g, <1>p, <1>t DEF Available, Position, Reading, Types
        <3>3. reader.got = <<>>
            BY <3>1 DEF Reading
        <3>4. /\ reader'.pc \in {"none", "copy"} /\ reader'.got = <<>>
              /\ reader'.want = IF reader.want < Available THEN reader.want ELSE Available
            BY <3>1, <3>3, <1>t DEF Types, Readers
        <3>5. consumed + reader'.want <= written /\ 0 <= reader'.want
            BY <2>2, <3>2, <3>4, <1>g, <1>t, <1>r DEF Overrun, Types
        <3> QED BY <3>1, <3>4, <3>5 DEF Reading
    <2> QED BY <2>1, <2>2
<1>11. CASE DmaCopy
    <2>1. /\ reader.pc = "copy" /\ Len(reader.got) < reader.want
          /\ reader' = [reader EXCEPT !.got = Append(@, ring[(consumed + Len(@)) % RingSize])]
          /\ UNCHANGED <<consumed, written>>
        BY <1>11 DEF DmaCopy, ringvars
    <2> DEFINE next == consumed + Len(reader.got)
    <2>2. Len(reader.got) \in Nat /\ next \in Nat
        BY <1>g, <1>t DEF Types
    <2>3. next < written
        BY <2>1, <2>2, <1>g, <1>t DEF Reading, Types
    <2>4. written <= next + RingSize => ring[next % RingSize] = next
        BY <2>2, <2>3 DEF LastLap
    <2>5. /\ reader'.pc = "copy" /\ reader'.want = reader.want
          /\ reader'.got = Append(reader.got, ring[next % RingSize])
        BY <2>1, <1>t DEF Types, Readers
    <2>6. /\ Len(reader'.got) = Len(reader.got) + 1
          /\ reader'.got[Len(reader.got) + 1] = ring[next % RingSize]
          /\ \A k \in 1..Len(reader.got) : reader'.got[k] = reader.got[k]
        BY <2>5, <1>g
    <2>7. \A k \in 1..Len(reader'.got) :
            written <= consumed + k - 1 + RingSize => reader'.got[k] = consumed + k - 1
        <3>1. SUFFICES ASSUME NEW k \in 1..(Len(reader.got) + 1),
                              written <= consumed + k - 1 + RingSize
                       PROVE  reader'.got[k] = consumed + k - 1
            BY <2>6
        <3>2. CASE k = Len(reader.got) + 1
            BY <3>1, <3>2, <2>2, <2>4, <2>6, <1>t DEF Types
        <3>3. CASE k \in 1..Len(reader.got)
            BY <3>1, <3>3, <2>1, <2>6 DEF Reading
        <3> QED BY <3>1, <3>2, <3>3, <2>2
    <2>8. consumed + reader.want <= written /\ Len(reader'.got) <= reader.want
        BY <2>1, <2>2, <2>6, <1>g DEF Reading
    <2> QED BY <2>1, <2>5, <2>7, <2>8 DEF Reading
<1>12. CASE DmaCheck
    <2>1. /\ reader.pc = "copy" /\ FoldLap /\ UNCHANGED <<written, consumed>>
          /\ reader' = [reader EXCEPT !.pc = "sample again", !.base = completed']
        BY <1>12 DEF DmaCheck
    <2>2. /\ reader'.pc = "sample again" /\ reader'.base = completed'
          /\ reader'.want = reader.want /\ reader'.got = reader.got
        BY <2>1, <1>t DEF Types, Readers
    <2>3. completed' + (written % RingSize) = written
        BY <2>1, <1>t, <1>r, <1>p DEF FoldLap, LapsCounted, ReadsDma, Types
    <2> QED BY <2>1, <2>2, <2>3 DEF Reading
<1>13. CASE DmaDeliver
    <2>1. CASE Overrun(Available)
        BY <1>1, <1>13, <1>n, <2>1 DEF DmaDeliver, ReadFails
    <2>2. CASE ~Overrun(Available)
        BY <1>1, <1>13, <1>n, <2>2 DEF DmaDeliver
    <2> QED BY <2>1, <2>2
<1>14. CASE UNCHANGED <<ringvars, reader, chunk>>
    BY <1>2, <1>14 DEF ringvars
<1> QED
    BY <1>4, <1>5, <1>6, <1>7, <1>8, <1>9, <1>10, <1>11, <1>12, <1>13, <1>14, OutsideTransfer
       DEF PortNext

(* What a read delivers are the bytes from the first that nobody has read. *)
LEMMA DeliveredStep ==
    ASSUME ConsoleInv, LastLap, Reading, DeliveredInOrder, [PortNext]_pvars
    PROVE  DeliveredInOrder'
<1>t. Types /\ ReadsDma /\ IrqFits
    BY DEF ConsoleInv
<1>r. RingSize \in Nat \ {0}
    BY PortAssumption
<1>n. written \in Nat /\ consumed \in Nat
    BY <1>t DEF Types
<1>1. CASE UNCHANGED chunk
    BY <1>1 DEF DeliveredInOrder
<1>2. CASE Ends
    BY <1>2 DEF Ends, Nothing, DeliveredInOrder
<1>3. ASSUME NEW n \in Chunks, IrqRead(n) PROVE DeliveredInOrder'
    <2> DEFINE count == IF n < written - consumed THEN n ELSE written - consumed
    <2>1. count \in Nat /\ consumed + count <= written /\ written <= consumed + RingSize
        BY <1>3, <1>t, <1>n, PortAssumption DEF IrqRead, IrqFits
    <2>2. chunk' = [from |-> consumed,
                    bytes |-> [i \in 1..count |-> ring[(consumed + i - 1) % RingSize]]]
        BY <1>3 DEF IrqRead
    <2> HIDE DEF count
    <2>3. ASSUME NEW i \in 1..count
          PROVE  ring[(consumed + i - 1) % RingSize] = consumed + i - 1
        <3>1. /\ consumed + i - 1 \in Nat /\ consumed + i - 1 < written
              /\ written <= (consumed + i - 1) + RingSize
            BY <2>1, <1>n, <1>r
        <3> QED BY <3>1 DEF LastLap
    <2> QED BY <2>2, <2>3 DEF DeliveredInOrder
<1>4. CASE DmaDeliver
    <2>1. CASE Overrun(Available)
        BY <1>1, <1>4, <2>1 DEF DmaDeliver, ReadFails
    <2>2. CASE ~Overrun(Available)
        <3>1. reader.pc = "sample again" /\ chunk' = [from |-> consumed, bytes |-> reader.got]
            BY <1>4, <2>2 DEF DmaDeliver
        <3>g. reader.got \in Seq(Int) /\ reader.base \in Nat
            BY <1>t DEF Types, Readers
        <3>p. written % RingSize \in Nat
            BY PlaceIsSlot, <1>r, <1>n DEF Slot
        <3>q. reader.base + (written % RingSize) = written
            BY <3>1 DEF Reading
        <3>2. Available = written - consumed
            BY <3>q, <3>g, <3>p, <1>n DEF Available, Position
        <3>3. written <= consumed + RingSize
            BY <2>2, <3>2, <1>n, <1>r DEF Overrun
        <3>4. ASSUME NEW k \in 1..Len(reader.got)
              PROVE  reader.got[k] = consumed + k - 1
            <4>1. k \in Int /\ 1 <= k
                OBVIOUS
            <4>2. written <= consumed + k - 1 + RingSize
                BY <3>3, <4>1, <1>n, <1>r
            <4> QED BY <3>1, <4>2 DEF Reading
        <3>5. DOMAIN reader.got = 1..Len(reader.got)
            BY <3>g
        <3> QED BY <3>1, <3>4, <3>5 DEF DeliveredInOrder
    <2> QED BY <2>1, <2>2
<1>5. ASSUME NEW r \in Route, BeginUndone(r) \/ Begins(r) PROVE DeliveredInOrder'
    BY <1>1, <1>5 DEF BeginUndone, Begins
<1>6. ASSUME NEW n \in Chunks, UartReceived(n) \/ DmaRead(n) PROVE DeliveredInOrder'
    BY <1>1, <1>6 DEF UartReceived, DmaRead
<1>7. CASE DmaWrites \/ DmaIrq \/ DmaSample \/ DmaCopy \/ DmaCheck
    BY <1>1, <1>7 DEF DmaWrites, DmaIrq, DmaSample, DmaCopy, DmaCheck, ReadFails
<1> QED
    BY <1>1, <1>2, <1>3, <1>4, <1>5, <1>6, <1>7, OutsideTransfer DEF PortNext

LEMMA ReceiverInit == PortInit => IInv
<1> SUFFICES ASSUME PortInit PROVE IInv
    OBVIOUS
<1>1. LastLap
    BY DEF PortInit, LastLap
<1>2. LapsCounted
    BY DEF PortInit, LapsCounted, Dma
<1>3. Reading
    BY DEF PortInit, Reading, NoRead
<1>4. DeliveredInOrder
    BY DEF PortInit, DeliveredInOrder, Nothing
<1> QED BY ConsoleInit, <1>1, <1>2, <1>3, <1>4 DEF IInv

(* Whatever the size of the ring and of the reads and whenever DMA writes: *)
(* a read delivers the bytes that follow those already read, in the order  *)
(* in which they came, or fails.  The assumption is that no lap of the     *)
(* ring is completed between the two loads of dma_produced(); with Race    *)
(* the same property has a counterexample.                                 *)
THEOREM BytesInOrder == ASSUME Race = FALSE PROVE PortSpec => []DeliveredInOrder
<1>1. PortInit => IInv
    BY ReceiverInit
<1>2. IInv /\ [PortNext]_pvars => IInv'
    <2> SUFFICES ASSUME IInv, [PortNext]_pvars PROVE IInv'
        OBVIOUS
    <2>1. ConsoleInv /\ LastLap /\ LapsCounted /\ Reading /\ DeliveredInOrder
        BY DEF IInv
    <2>2. ConsoleInv'
        BY <2>1, TakenStep, TypesStep, ReceiverStep DEF ConsoleInv
    <2>3. LastLap' /\ LapsCounted' /\ DeliveredInOrder'
        BY <2>1, LastLapStep, LapsStep, DeliveredStep
    <2>4. Reading'
        BY <2>1, ReadingStep, Race = FALSE
    <2> QED BY <2>2, <2>3, <2>4 DEF IInv
<1>3. IInv => DeliveredInOrder
    BY DEF IInv
<1> QED BY <1>1, <1>2, <1>3, PTL DEF PortSpec

-----------------------------------------------------------------------------
(* XMODEM on a line without delays and noise (SerialTransfer) is a file    *)
(* copy.  The argument: one packet or one answer is on its way, never both *)
(* (XQueues), so the receiver waits for the very block the sender offers   *)
(* or has just taken it (XReceiver); that is why an ACK without a number   *)
(* cannot confirm the wrong block, why a block that comes again is known   *)
(* by its number, whatever SeqMod is, and why EOT finds the whole file.    *)

Units == Nat \X Nat
SenderPhases == {"start", "data", "eot", "done"}
XReceiverPhases == {"data", "tail", "done"}
Endings == {"busy", "None", "Cancelled", "Disconnected", "Gave up", "Card"}

Targets == [staged : Seq(Units), pending : Seq(Units), open : BOOLEAN]

XSenders == [pc : SenderPhases, tries : Nat, seq : 0..(SeqMod - 1), f : {1}, pos : Nat,
             err : Endings]
XReceivers == [pc : XReceiverPhases, exp : 0..(SeqMod - 1), errors : Nat, waiting : Nat,
               tail : Nat, started : BOOLEAN, f : {1}, files : {0}, err : Endings]

(* The first n units of the file with its padding.                         *)
Padded(n) == [i \in 1..n |-> IF i <= batch[1] THEN Unit(1, i) ELSE Pad]

(* The receiver's file holds the first n units; the last block is kept back. *)
HasTaken(n) ==
    IF n = 0 THEN target.staged = <<>> /\ target.pending = <<>>
    ELSE /\ n >= BlockSize
         /\ target.staged = Padded(n - BlockSize)
         /\ target.pending = Block(1, n - BlockSize)

NoneSaved == saved = [f \in Files |-> Untouched]
AllSaved == saved = [f \in Files |-> Goods(f)]

(* Nothing was sent yet: the first block, or EOT, comes with the number 1. *)
Unsent == snd.pos = 0 /\ snd.seq = 0

(* The receiver waits for the block the sender offers, or already has it.  *)
Level == rcv.exp = snd.seq /\ \A n \in Nat : n = snd.pos => HasTaken(n)
Ahead == /\ rcv.exp = NextSeq(snd.seq) /\ snd.pos < batch[1]
         /\ \A n \in Nat : n = snd.pos + BlockSize => HasTaken(n)

(* What may be on the way to each end.                                     *)
Framing == {Byte("newline"), Byte("CAN")}
Offered ==
    {x \in {[Data(snd.seq, 1, snd.pos) EXCEPT !.how = h] : h \in {"ok", "crc", "short"}} :
        ~Unsent /\ snd.pos < batch[1] /\ snd.pc \in {"data", "done"}}
    \cup {x \in {Byte("EOT")} : ~Unsent /\ snd.pos >= batch[1] /\ snd.pc \in {"eot", "done"}}
Acked ==
    \/ snd.pc = "data" /\ (rcv.pc = "data" => Ahead)
    \/ snd.pc = "eot" /\ AllSaved
ToR == Framing \cup {Byte("junk")} \cup Offered
ToS == {Byte("C"), Byte("NAK"), Byte("CAN"), Byte("junk")} \cup {x \in {Byte("ACK")} : Acked}

(* An item that is answered, or an answer.                                 *)
Counts(x) == x.kind \notin {"newline", "CAN"}
AtMostOne(q) == \A i, j \in 1..Len(q) : Counts(q[i]) /\ Counts(q[j]) => i = j
NoneCounts(q) == \A i \in 1..Len(q) : ~Counts(q[i])

XTypes ==
    /\ proto = "xmodem" /\ ~harsh
    /\ basic \in BOOLEAN
    /\ \E s \in Sizes : batch = <<s>>
    /\ snd \in XSenders
    /\ rcv \in XReceivers
    /\ target \in Targets

XSender ==
    /\ snd.pos < batch[1] + BlockSize
    /\ \E k \in Nat : snd.pos = BlockSize * k
    /\ snd.pc = "start" => Unsent
    /\ snd.pc = "data" => ~Unsent /\ snd.pos < batch[1]
    /\ snd.pc = "eot" => ~Unsent /\ snd.pos >= batch[1]
    /\ snd.pc = "done" <=> snd.err # "busy"

XReceiver ==
    /\ rcv.pc = "data" =>
         /\ NoneSaved
         /\ \/ Unsent /\ rcv.exp = NextSeq(0) /\ HasTaken(0)
            \/ ~Unsent /\ Level
            \/ ~Unsent /\ snd.pc \in {"data", "done"} /\ Ahead
    /\ rcv.pc = "tail" => AllSaved /\ snd.pc \in {"eot", "done"} /\ snd.pos >= batch[1]
    /\ rcv.pc = "done" => NoneSaved \/ AllSaved

XQueues ==
    /\ toRecv \in Seq(ToR) /\ toSend \in Seq(ToS)
    /\ AtMostOne(toRecv) /\ AtMostOne(toSend)
    /\ NoneCounts(toRecv) \/ NoneCounts(toSend)
    /\ rcv.pc = "done" => toRecv = <<>>
    /\ snd.pc = "done" => toSend = <<>>

XInv == XTypes /\ XSender /\ XReceiver /\ XQueues

-----------------------------------------------------------------------------
LEMMA LineConstants ==
    /\ BlockSize \in Nat \ {0} /\ Retries \in Nat \ {0} /\ StartRetries \in Nat \ {0}
    /\ TailReads \in Nat \ {0}
    /\ SeqMod \in Nat /\ SeqMod > 1 /\ Sizes \subseteq Nat
  BY LineAssumption

(* The number after s is another one: two kinds of block are told apart.   *)
LEMMA NumbersTurn ==
    ASSUME NEW s \in 0..(SeqMod - 1)
    PROVE  NextSeq(s) \in 0..(SeqMod - 1) /\ NextSeq(s) # s
<1>1. SeqMod \in Nat \ {0} /\ s \in Nat
  BY LineConstants
<1>2. s % SeqMod = s
  BY <1>1, LineConstants, SMT
<1>3. (s + 1) % SeqMod = IF s % SeqMod = SeqMod - 1 THEN 0 ELSE (s % SeqMod) + 1
  BY <1>1, NextPlace
<1> QED BY <1>1, <1>2, <1>3, LineConstants DEF NextSeq

LEMMA FirstNumber == 0 \in 0..(SeqMod - 1) /\ NextSeq(0) \in 0..(SeqMod - 1) /\ NextSeq(0) # 0
<1>1. 0 \in 0..(SeqMod - 1)
  BY LineConstants
<1> QED BY <1>1, NumbersTurn

(* Items that join a queue and leave it. *)
LEMMA Joined ==
    ASSUME NEW S, NEW q \in Seq(S), NEW x \in S
    PROVE  /\ Append(q, x) \in Seq(S)
           /\ NoneCounts(q) => AtMostOne(Append(q, x))
           /\ AtMostOne(q) /\ ~Counts(x) => AtMostOne(Append(q, x))
           /\ NoneCounts(q) /\ ~Counts(x) => NoneCounts(Append(q, x))
<1> DEFINE a == Append(q, x)
<1>1. a \in Seq(S) /\ Len(a) = Len(q) + 1 /\ Len(q) \in Nat
  OBVIOUS
<1>2. \A i \in 1..Len(a) : (i \in 1..Len(q) /\ a[i] = q[i]) \/ (i = Len(q) + 1 /\ a[i] = x)
  BY <1>1
<1> HIDE DEF a
<1>3. NoneCounts(q) => AtMostOne(a)
  BY <1>1, <1>2 DEF NoneCounts, AtMostOne
<1>4. AtMostOne(q) /\ ~Counts(x) => AtMostOne(a)
  BY <1>1, <1>2 DEF AtMostOne
<1>5. NoneCounts(q) /\ ~Counts(x) => NoneCounts(a)
  BY <1>1, <1>2 DEF NoneCounts
<1> QED BY <1>1, <1>3, <1>4, <1>5 DEF a

LEMMA Left ==
    ASSUME NEW S, NEW q \in Seq(S), q # <<>>
    PROVE  /\ Head(q) \in S /\ Tail(q) \in Seq(S)
           /\ AtMostOne(q) => AtMostOne(Tail(q))
           /\ AtMostOne(q) /\ Counts(Head(q)) => NoneCounts(Tail(q))
           /\ NoneCounts(q) => ~Counts(Head(q)) /\ NoneCounts(Tail(q))
<1> DEFINE t == Tail(q)
<1>1. t \in Seq(S) /\ Len(t) = Len(q) - 1 /\ Len(q) \in Nat \ {0} /\ Head(q) = q[1] /\ Head(q) \in S
  OBVIOUS
<1>2. \A i \in 1..Len(t) : i + 1 \in 1..Len(q) /\ i + 1 # 1 /\ t[i] = q[i + 1]
  BY <1>1
<1>5. 1 \in 1..Len(q)
  BY <1>1
<1> HIDE DEF t
<1>3. AtMostOne(q) => AtMostOne(t)
  <2> SUFFICES ASSUME AtMostOne(q), NEW i \in 1..Len(t), NEW j \in 1..Len(t),
                      Counts(t[i]), Counts(t[j])
               PROVE  i = j
    BY DEF AtMostOne
  <2>1. i + 1 = j + 1
    BY <1>2 DEF AtMostOne
  <2> QED BY <2>1, <1>1
<1>4. AtMostOne(q) /\ Counts(Head(q)) => NoneCounts(t)
  BY <1>1, <1>2, <1>5 DEF AtMostOne, NoneCounts
<1>6. NoneCounts(q) => ~Counts(Head(q)) /\ NoneCounts(t)
  BY <1>1, <1>2, <1>5 DEF NoneCounts
<1> QED BY <1>1, <1>3, <1>4, <1>6 DEF t

LEMMA Nothing0 == \A S : <<>> \in Seq(S)
  OBVIOUS
LEMMA EmptyQueue == AtMostOne(<<>>) /\ NoneCounts(<<>>)
  BY DEF AtMostOne, NoneCounts

(* A queue whose items are all of another set as well. *)
LEMMA OtherItems ==
    ASSUME NEW S, NEW T, NEW q \in Seq(S), \A x \in S : ~Counts(x) => x \in T,
           NoneCounts(q) \/ S \subseteq T
    PROVE  q \in Seq(T)
<1>1. \A i \in 1..Len(q) : q[i] \in T
  BY DEF NoneCounts
<1> QED BY <1>1

LEMMA ByteKind == \A b : Byte(b).kind = b
  BY DEF Byte

(* What arrives of one item on a line without noise. *)
LEMMA OneByteArrives ==
    ASSUME NEW x, NEW n, NEW a \in Arrivals(<<x>>, n), ~harsh, NEW q, NEW S, q \in Seq(S), x \in S
    PROVE  \/ q \o a[1] = Append(q, x)
           \/ q \o a[1] = q
           \/ ~IsPacket(x) /\ q \o a[1] = Append(q, Byte("junk"))
           \/ IsPacket(x) /\ \E h \in {"crc", "short"} : q \o a[1] = Append(q, [x EXCEPT !.how = h])
<1>1. q \o <<x>> = Append(q, x)
  OBVIOUS
<1>2. \A y : q \o <<y>> = Append(q, y)
  <2> TAKE y
  <2>1. q \in Seq(S \cup {y}) /\ y \in S \cup {y}
    OBVIOUS
  <2> QED BY <2>1
<1>3. q \o <<>> = q
  OBVIOUS
<1>4. a = <<(<<x>>), n>> \/ \E d \in Damage(x) : a[1] = d
  <2>1. DOMAIN <<x>> = {1}
    OBVIOUS
  <2>2. SUFFICES ASSUME a # <<(<<x>>), n>> PROVE \E d \in Damage(x) : a[1] = d
    OBVIOUS
  <2>3. PICK d \in Damage(x) : a = <<SubSeq(<<x>>, 1, 1 - 1) \o d \o SubSeq(<<x>>, 1 + 1, Len(<<x>>)), n - 1>>
    BY <2>1, <2>2 DEF Arrivals
  <2>4. SubSeq(<<x>>, 1, 1 - 1) = <<>> /\ SubSeq(<<x>>, 1 + 1, Len(<<x>>)) = <<>>
    OBVIOUS
  <2>5. d = <<>> \/ \E y : d = <<y>>
    BY DEF Damage
  <2>6. <<>> \o d \o <<>> = d
    BY <2>5
  <2> QED BY <2>3, <2>4, <2>6
<1>5. \A d \in Damage(x) : \/ d = <<>>
                           \/ ~IsPacket(x) /\ d = <<Byte("junk")>>
                           \/ IsPacket(x) /\ \E h \in {"crc", "short"} : d = <<[x EXCEPT !.how = h]>>
  BY DEF Damage, Junk
<1>6. CASE a = <<(<<x>>), n>>
  <2>1. a[1] = <<x>>
    BY <1>6
  <2> QED BY <2>1, <1>1
<1>7. ASSUME NEW d \in Damage(x), a[1] = d
      PROVE  \/ q \o d = q
             \/ ~IsPacket(x) /\ q \o d = Append(q, Byte("junk"))
             \/ IsPacket(x) /\ \E h \in {"crc", "short"} : q \o d = Append(q, [x EXCEPT !.how = h])
  <2>1. CASE d = <<>>
    BY <2>1, <1>3
  <2>2. CASE ~IsPacket(x) /\ d = <<Byte("junk")>>
    BY <2>2, <1>2
  <2>3. CASE IsPacket(x) /\ \E h \in {"crc", "short"} : d = <<[x EXCEPT !.how = h]>>
    <3>1. PICK h \in {"crc", "short"} : d = <<[x EXCEPT !.how = h]>>
      BY <2>3
    <3> QED BY <3>1, <2>3, <1>2
  <2> QED BY <2>1, <2>2, <2>3, <1>5, <1>7
<1> QED BY <1>4, <1>6, <1>7


-----------------------------------------------------------------------------
(* The file.                                                               *)

LEMMA SameSequence ==
    ASSUME NEW S, NEW s \in Seq(S), NEW t \in Seq(S), Len(s) = Len(t),
           \A i \in 1..Len(s) : s[i] = t[i]
    PROVE  s = t
  OBVIOUS

LEMMA PaddedIsSeq ==
    ASSUME batch[1] \in Nat, NEW n \in Nat
    PROVE  Padded(n) \in Seq(Units) /\ Len(Padded(n)) = n
<1>1. \A i \in 1..n : (IF i <= batch[1] THEN Unit(1, i) ELSE Pad) \in Units
  BY DEF Units, Unit, Pad
<1> QED BY <1>1 DEF Padded

LEMMA BlockIsSeq ==
    ASSUME batch[1] \in Nat, NEW n \in Nat
    PROVE  Block(1, n) \in Seq(Units) /\ Len(Block(1, n)) = BlockSize
<1>1. \A i \in 1..BlockSize : (IF n + i <= batch[1] THEN Unit(1, n + i) ELSE Pad) \in Units
  BY LineConstants DEF Units, Unit, Pad
<1> QED BY <1>1, LineConstants DEF Block

(* The padded file is put together block by block.                         *)
LEMMA PaddedGrows ==
    ASSUME batch[1] \in Nat, NEW n \in Nat
    PROVE  Padded(n) \o Block(1, n) = Padded(n + BlockSize)
<1> DEFINE a == Padded(n)
           b == Block(1, n)
           c == Padded(n + BlockSize)
<1>1. a \in Seq(Units) /\ Len(a) = n /\ b \in Seq(Units) /\ Len(b) = BlockSize
  BY PaddedIsSeq, BlockIsSeq
<1>2. c \in Seq(Units) /\ Len(c) = n + BlockSize
  BY PaddedIsSeq, LineConstants
<1>3. \A i \in 1..(n + BlockSize) : c[i] = (IF i <= batch[1] THEN Unit(1, i) ELSE Pad)
  BY DEF Padded
<1>4. \A i \in 1..n : a[i] = (IF i <= batch[1] THEN Unit(1, i) ELSE Pad)
  BY DEF Padded
<1>5. \A i \in 1..BlockSize : b[i] = (IF n + i <= batch[1] THEN Unit(1, n + i) ELSE Pad)
  BY DEF Block
<1>0. BlockSize \in Nat /\ n + BlockSize \in Nat /\ n \in Nat
  BY LineConstants
<1> HIDE DEF a, b, c
<1>6. a \o b \in Seq(Units) /\ Len(a \o b) = n + BlockSize
  BY <1>1, LineConstants
<1>7. ASSUME NEW i \in 1..(n + BlockSize) PROVE (a \o b)[i] = c[i]
  <2>1. CASE i <= n
    BY <2>1, <1>1, <1>3, <1>4, LineConstants
  <2>2. CASE i > n
    <3>1. i - n \in 1..BlockSize /\ n + (i - n) = i
      BY <2>2, LineConstants
    <3>2. (a \o b)[i] = b[i - n]
      BY <2>2, <1>1, LineConstants
    <3> QED BY <3>1, <3>2, <1>3, <1>5
  <2>3. i <= n \/ i > n
    BY <1>0
  <2> QED BY <2>1, <2>2, <2>3, Zenon
<1>8. a \o b = c
  <2> DEFINE d == a \o b
  <2>1. d \in Seq(Units) /\ c \in Seq(Units) /\ Len(d) = Len(c)
    BY <1>2, <1>6
  <2>2. \A i \in 1..Len(d) : d[i] = c[i]
    BY <1>6, <1>7
  <2> HIDE DEF d
  <2>3. d = c
    BY <2>1, <2>2, SameSequence
  <2> QED BY <2>3 DEF d
<1> QED BY <1>8 DEF a, b, c

LEMMA NothingPadded == Padded(0) = <<>>
  BY DEF Padded

(* One more block is taken. *)
LEMMA BlockTaken ==
    ASSUME batch[1] \in Nat, batch' = batch, target \in Targets, NEW n \in Nat,
           HasTaken(n), target' = Wrote(Block(1, n)), NEW m \in Nat, m = n + BlockSize
    PROVE  HasTaken(m)' /\ target' \in Targets
<1> DEFINE b == Block(1, n)
<1>1. b \in Seq(Units)
  BY BlockIsSeq
<1>2. Block(1, n)' = b
  BY DEF Block, Unit
<1>3. Padded(n)' = Padded(n)
  BY DEF Padded, Unit
<1> HIDE DEF b
<1> DEFINE both == target.staged \o target.pending
<1>7. both \in Seq(Units)
  <2>1. target.staged \in Seq(Units) /\ target.pending \in Seq(Units)
    BY DEF Targets
  <2> QED BY <2>1
<1>8. target' = [target EXCEPT !.staged = both, !.pending = b]
  BY DEF Wrote, b
<1> HIDE DEF both
<1>4. target' \in Targets /\ target'.staged = both /\ target'.pending = b
  BY <1>1, <1>7, <1>8 DEF Targets
<1>5. both = Padded(n)
  <2>1. CASE n = 0
    <3>1. target.staged = <<>> /\ target.pending = <<>>
      BY <2>1 DEF HasTaken
    <3>2. both = <<>>
      BY <3>1 DEF both
    <3> QED BY <2>1, <3>2, NothingPadded
  <2>2. CASE n # 0
    <3>1. n - BlockSize \in Nat /\ n - BlockSize + BlockSize = n
      BY <2>2, LineConstants DEF HasTaken
    <3> QED BY <3>1, <2>2, PaddedGrows DEF HasTaken, both
  <2> QED BY <2>1, <2>2
<1>6. m # 0 /\ m >= BlockSize /\ m - BlockSize = n
  BY LineConstants
<1>9. Padded(m - BlockSize)' = both
  <2>1. 1..(m - BlockSize) = 1..n
    BY <1>6
  <2> QED BY <2>1, <1>5 DEF Padded
<1>10. Block(1, m - BlockSize)' = b
  BY <1>6 DEF Block, b
<1> QED BY <1>4, <1>6, <1>9, <1>10 DEF HasTaken

(* Without its padding a block is the rest of the file. *)
LEMMA TrimmedRest ==
    ASSUME batch[1] \in Nat, NEW n \in Nat, n < batch[1], batch[1] <= n + BlockSize
    PROVE  Trimmed(Block(1, n)) = [i \in 1..(batch[1] - n) |-> Unit(1, n + i)]
<1> DEFINE b == Block(1, n)
           k == batch[1] - n
<1>1. b \in Seq(Units) /\ Len(b) = BlockSize
  BY BlockIsSeq
<1>2. k \in 1..BlockSize /\ k \in Nat
  BY LineConstants
<1>3. \A i \in 1..BlockSize : b[i] = (IF i <= k THEN Unit(1, n + i) ELSE Pad)
  BY LineConstants DEF Block
<1>4. \A i \in Nat : Unit(1, i) # Pad
  BY DEF Unit, Pad
<1> HIDE DEF b, k
<1>5. {i \in DOMAIN b : \E j \in i..Len(b) : b[j] # Pad} = 1..k
  <2>1. DOMAIN b = 1..BlockSize
    BY <1>1
  <2>2. ASSUME NEW i \in 1..BlockSize, NEW j \in i..BlockSize, b[j] # Pad PROVE i \in 1..k
    BY <2>2, <1>2, <1>3, LineConstants
  <2>3. ASSUME NEW i \in 1..k PROVE i \in 1..BlockSize /\ k \in i..BlockSize /\ b[k] # Pad
    <3>1. n + k \in Nat
      BY <1>2
    <3> QED BY <3>1, <1>2, <1>3, <1>4, LineConstants
  <2> QED BY <2>1, <2>2, <2>3, <1>1
<1>6. Cardinality(1..k) = k
  BY <1>2, FS_Interval
<1>7. Trimmed(b) = SubSeq(b, 1, k)
  BY <1>5, <1>6 DEF Trimmed
<1>8. SubSeq(b, 1, k) = [i \in 1..k |-> b[i]]
  BY <1>1, <1>2
<1>9. \A i \in 1..k : b[i] = Unit(1, n + i)
  <2> TAKE i \in 1..k
  <2>1. i \in 1..BlockSize /\ i <= k
    BY <1>2, LineConstants
  <2> QED BY <2>1, <1>3
<1>11. [i \in 1..k |-> b[i]] = [i \in 1..k |-> Unit(1, n + i)]
  BY <1>9
<1>10. Trimmed(b) = [i \in 1..k |-> Unit(1, n + i)]
  BY <1>7, <1>8, <1>11
<1> QED BY <1>10 DEF b, k

(* The number of blocks. *)
LEMMA LastBlock ==
    ASSUME NEW s \in Nat, NEW k \in Nat, BlockSize * k >= s, BlockSize * k < s + BlockSize
    PROVE  ((s + BlockSize - 1) \div BlockSize) * BlockSize = BlockSize * k
<1> DEFINE a == s + BlockSize - 1
           q == a \div BlockSize
           r == a % BlockSize
           t == a - BlockSize * k
<1>1. BlockSize \in Nat \ {0} /\ a \in Nat
  BY LineConstants
<1>2. BlockSize * k \in Nat
  BY <1>1
<1>3. t \in 0..(BlockSize - 1)
  BY <1>1, <1>2
<1>4. a = BlockSize * q + r /\ q \in Nat /\ r \in 0..(BlockSize - 1)
  BY <1>1, SMT
<1>5. a = BlockSize * k + t
  BY <1>1, <1>2
<1> HIDE DEF a, q, r, t
<1>6. q = k
  BY <1>1, <1>3, <1>4, <1>5, OneDivision
<1>7. q * BlockSize = BlockSize * k
  BY <1>1, <1>4, <1>6
<1> QED BY <1>7 DEF q, a

(* What is committed is the file that was sent. *)
LEMMA CommittedIsGoods ==
    ASSUME proto = "xmodem", basic \in BOOLEAN, batch[1] \in Nat, target \in Targets,
           NEW n \in Nat, HasTaken(n), n >= batch[1], n < batch[1] + BlockSize,
           NEW k \in Nat, n = BlockSize * k
    PROVE  Committed = Goods(1)
<1>1. Goods(1) = IF basic THEN Content(1)
                 ELSE [i \in 1..(BlockCount(1) * BlockSize) |->
                         IF i <= batch[1] THEN Unit(1, i) ELSE Pad]
  BY DEF Goods
<1>2. BlockCount(1) * BlockSize = n
  BY LastBlock DEF BlockCount
<1>3. ~basic => Goods(1) = Padded(n)
  BY <1>1, <1>2 DEF Padded
<1>4. CASE n = 0
  <2>1. batch[1] = 0
    BY <1>4, LineConstants
  <2>2. target.staged = <<>> /\ target.pending = <<>>
    BY <1>4 DEF HasTaken
  <2>3. Content(1) = <<>> /\ Padded(n) = <<>>
    BY <2>1, <1>4 DEF Content, Padded
  <2>4. Trimmed(<<>>) = <<>>
    <3>1. {i \in DOMAIN <<>> : \E j \in i..Len(<<>>) : <<>>[j] # Pad} = {}
      OBVIOUS
    <3>2. Cardinality({}) = 0
      BY FS_EmptySet
    <3>3. SubSeq(<<>>, 1, 0) = <<>>
      OBVIOUS
    <3> QED BY <3>1, <3>2, <3>3 DEF Trimmed
  <2>5. <<>> \o <<>> = <<>>
    OBVIOUS
  <2> QED BY <1>1, <1>3, <2>2, <2>3, <2>4, <2>5 DEF Committed
<1>5. CASE n # 0
  <2> DEFINE p == n - BlockSize
             s == Padded(p)
             b == Block(1, p)
  <2>1. p \in Nat /\ p + BlockSize = n /\ p < batch[1] /\ batch[1] <= p + BlockSize
    BY <1>5, LineConstants DEF HasTaken
  <2>2. target.staged = s /\ target.pending = b
    BY <1>5 DEF HasTaken
  <2>3. s \in Seq(Units) /\ Len(s) = p
    BY <2>1, PaddedIsSeq
  <2>4. CASE ~basic
    <3>1. Padded(p) \o Block(1, p) = Padded(p + BlockSize)
      BY <2>1, PaddedGrows
    <3>2. Padded(p + BlockSize) = Padded(n)
      BY <2>1
    <3> QED BY <3>1, <3>2, <2>2, <2>4, <1>3 DEF Committed
  <2>5. CASE basic
    <3> DEFINE r == batch[1] - p
               t == [i \in 1..r |-> Unit(1, p + i)]
               c == Content(1)
    <3>1. Trimmed(b) = t
      BY <2>1, TrimmedRest
    <3>2. r \in Nat /\ p + r = batch[1]
      BY <2>1
    <3>3. t \in Seq(Units) /\ Len(t) = r
      <4>1. \A i \in 1..r : Unit(1, p + i) \in Units
        BY <2>1, <3>2 DEF Unit, Units
      <4> HIDE DEF r
      <4> QED BY <4>1, <3>2
    <3>4. c \in Seq(Units) /\ Len(c) = batch[1]
      <4>1. \A i \in 1..batch[1] : Unit(1, i) \in Units
        BY DEF Unit, Units
      <4> QED BY <4>1 DEF Content
    <3>5. \A i \in 1..p : s[i] = Unit(1, i)
      <4> TAKE i \in 1..p
      <4>1. i <= batch[1]
        BY <2>1
      <4> QED BY <4>1 DEF Padded
    <3>6. \A i \in 1..r : t[i] = Unit(1, p + i)
      OBVIOUS
    <3>7. \A i \in 1..batch[1] : c[i] = Unit(1, i)
      BY DEF Content
    <3> HIDE DEF r, t, c, p, s, b
    <3> DEFINE d == s \o t
    <3>8. d \in Seq(Units) /\ Len(d) = batch[1]
      BY SMTT(30), <2>3, <3>2, <3>3
    <3>9. ASSUME NEW i \in 1..Len(d) PROVE d[i] = c[i]
      <4>1. i \in 1..batch[1] /\ i \in Nat /\ p \in Nat
        BY <3>8, <2>1
      <4>2. CASE i <= p
        <5>1. d[i] = s[i] /\ i \in 1..p
          BY <4>1, <4>2, <2>3, <3>3
        <5> QED BY <5>1, <4>1, <3>5, <3>7
      <4>3. CASE i > p
        <5>1. d[i] = t[i - p] /\ i - p \in 1..r /\ p + (i - p) = i
          BY <4>1, <4>3, <2>3, <3>2, <3>3
        <5> QED BY <5>1, <4>1, <3>6, <3>7
      <4>4. i <= p \/ i > p
        BY <4>1
      <4> QED BY <4>2, <4>3, <4>4, Zenon
    <3> HIDE DEF d
    <3>10. d = c
      BY <3>4, <3>8, <3>9, SameSequence
    <3>11. Committed = target.staged \o Trimmed(target.pending)
      BY <2>5 DEF Committed
    <3>12. Committed = d
      BY <3>11, <3>1, <2>2 DEF d
    <3> QED BY <3>10, <3>12, <1>1, <2>5 DEF c
  <2> QED BY <2>4, <2>5
<1> QED BY <1>4, <1>5


-----------------------------------------------------------------------------
(* What is on the way.                                                     *)

LEMMA TheFile ==
    ASSUME XTypes
    PROVE  batch[1] \in Nat /\ Files = {1}
<1>1. PICK s \in Sizes : batch = <<s>>
  BY DEF XTypes
<1>2. batch[1] = s /\ DOMAIN batch = {1}
  BY <1>1
<1> QED BY <1>2, LineConstants DEF Files

LEMMA TakenStays ==
    ASSUME batch' = batch, target' = target, NEW n \in Nat
    PROVE  HasTaken(n)' <=> HasTaken(n)
<1>1. Padded(n - BlockSize)' = Padded(n - BlockSize)
  BY DEF Padded
<1>2. Block(1, n - BlockSize)' = Block(1, n - BlockSize)
  BY DEF Block
<1> QED BY <1>1, <1>2 DEF HasTaken

LEMMA GoodsStay ==
    ASSUME setting' = setting
    PROVE  /\ Files' = Files
           /\ [f \in Files |-> Goods(f)]' = [f \in Files |-> Goods(f)]
           /\ saved' = saved => (NoneSaved' <=> NoneSaved) /\ (AllSaved' <=> AllSaved)
<1>1. batch' = batch /\ proto' = proto /\ basic' = basic
  BY DEF setting
<1>2. Files' = Files
  BY <1>1 DEF Files
<1>3. [f \in Files |-> Goods(f)]' = [f \in Files |-> Goods(f)]
  BY <1>1, <1>2 DEF Goods, Content, BlockCount
<1> QED BY <1>2, <1>3 DEF NoneSaved, AllSaved

(* A sender that stays where it is, or stops, takes nothing back. *)
LEMMA StillOffered ==
    ASSUME batch' = batch, snd \in XSenders, snd'.seq = snd.seq, snd'.pos = snd.pos,
           snd'.pc \in {snd.pc, "done"}
    PROVE  /\ Offered \subseteq Offered' /\ ToR \subseteq ToR' /\ (Unsent' <=> Unsent)
           /\ snd'.pc = snd.pc => Offered' \subseteq Offered
<1>1. Unsent' <=> Unsent
  BY DEF Unsent
<1>2. \A s, p : Data(s, 1, p)' = Data(s, 1, p)
  BY DEF Data, Block
<1>3. ASSUME NEW h PROVE [Data(snd.seq, 1, snd.pos) EXCEPT !.how = h]'
                         = [Data(snd.seq, 1, snd.pos) EXCEPT !.how = h]
  BY DEF Data, Block
<1>4. Byte("EOT")' = Byte("EOT")
  BY DEF Byte
<1>5. Offered \subseteq Offered'
  BY <1>1, <1>3, <1>4 DEF Offered
<1>6. snd'.pc = snd.pc => Offered' \subseteq Offered
  BY <1>1, <1>3, <1>4 DEF Offered
<1> QED BY <1>1, <1>5, <1>6 DEF ToR

LEMMA ItemKinds ==
    /\ \A x \in ToR : /\ x.kind \in {"newline", "CAN", "junk", "data", "EOT"}
                      /\ x.kind = "CAN" => x = Byte("CAN")
                      /\ x.kind = "newline" => x = Byte("newline")
                      /\ ~Counts(x) => x \in Framing
    /\ \A x \in ToS : /\ x.kind \in {"C", "NAK", "CAN", "junk", "ACK"}
                      /\ x.kind = "ACK" => Acked
                      /\ ~Counts(x) => x = Byte("CAN")
<1>1. \A h : [Data(snd.seq, 1, snd.pos) EXCEPT !.how = h].kind = "data"
  BY DEF Data
<1> QED BY <1>1, ByteKind DEF ToR, ToS, Framing, Offered, Counts

(* The sender reads an answer, or nothing when nothing is on its way. *)
LEMMA SenderHasRead ==
    ASSUME XTypes, XQueues, NEW c, SenderReads(c)
    PROVE  /\ AfterSenderReads \in Seq(ToS) /\ AtMostOne(AfterSenderReads)
           /\ c \in {"C", "ACK", "NAK", "CAN", "junk", "timeout"}
           /\ c = "ACK" => Acked
           /\ c # "CAN" => NoneCounts(toRecv) /\ NoneCounts(AfterSenderReads)
<1>1. CASE toSend # <<>> /\ c = Head(toSend).kind
  <2>1. AfterSenderReads = Tail(toSend)
    BY <1>1 DEF AfterSenderReads
  <2>2. Head(toSend) \in ToS /\ Tail(toSend) \in Seq(ToS) /\ AtMostOne(Tail(toSend))
    BY <1>1, Left DEF XQueues
  <2>3. c \in {"C", "NAK", "CAN", "junk", "ACK"} /\ (c = "ACK" => Acked)
    BY <1>1, <2>2, ItemKinds
  <2>4. c # "CAN" => Counts(Head(toSend))
    BY <1>1, <2>3 DEF Counts
  <2>5. c # "CAN" => NoneCounts(Tail(toSend)) /\ ~NoneCounts(toSend)
    BY <1>1, <2>4, Left DEF XQueues
  <2> QED BY <2>1, <2>2, <2>3, <2>5 DEF XQueues
<1>2. CASE c = "timeout" /\ toSend = <<>>
  <2>1. toRecv = <<>>
    BY <1>2 DEF SenderReads, Quiet, XTypes
  <2>2. AfterSenderReads = <<>>
    BY <1>2 DEF AfterSenderReads
  <2> QED BY <1>2, <2>1, <2>2, EmptyQueue, Nothing0
<1> QED BY <1>1, <1>2 DEF SenderReads

LEMMA ReceiverHasRead ==
    ASSUME XTypes, XQueues, NEW x, ReceiverReads(x)
    PROVE  /\ AfterReceiverReads \in Seq(ToR) /\ AtMostOne(AfterReceiverReads)
           /\ x \in ToR \/ (x = Byte("timeout") /\ toRecv = <<>> /\ toSend = <<>>)
           /\ x.kind \notin {"newline", "CAN"} => NoneCounts(toSend) /\ NoneCounts(AfterReceiverReads)
           /\ NoneCounts(toSend) \/ NoneCounts(AfterReceiverReads)
<1>1. CASE toRecv # <<>> /\ x = Head(toRecv)
  <2>1. AfterReceiverReads = Tail(toRecv)
    BY <1>1 DEF AfterReceiverReads
  <2>2. x \in ToR /\ Tail(toRecv) \in Seq(ToR) /\ AtMostOne(Tail(toRecv))
    BY <1>1, Left DEF XQueues
  <2>4. x.kind \notin {"newline", "CAN"} => Counts(Head(toRecv))
    BY <1>1 DEF Counts
  <2>5. x.kind \notin {"newline", "CAN"} => NoneCounts(Tail(toRecv)) /\ ~NoneCounts(toRecv)
    BY <1>1, <2>4, Left DEF XQueues
  <2>6. NoneCounts(toRecv) => NoneCounts(Tail(toRecv))
    BY <1>1, Left DEF XQueues
  <2> QED BY <2>1, <2>2, <2>5, <2>6 DEF XQueues
<1>2. CASE x = Byte("timeout") /\ toRecv = <<>>
  <2>1. toSend = <<>>
    BY <1>2 DEF ReceiverReads, Quiet, XTypes
  <2>2. AfterReceiverReads = <<>>
    BY <1>2 DEF AfterReceiverReads
  <2> QED BY <1>2, <2>1, <2>2, EmptyQueue, Nothing0
<1> QED BY <1>1, <1>2 DEF ReceiverReads

(* One item goes out on an empty line. *)
LEMMA ItemSent ==
    ASSUME XTypes, toRecv \in Seq(ToR), NoneCounts(toRecv), NEW x, NEW n, ToReceiver(toRecv, <<x>>, n),
           NEW T, x \in T, Byte("junk") \in T, Framing \subseteq T,
           IsPacket(x) => \A h \in {"crc", "short"} : [x EXCEPT !.how = h] \in T
    PROVE  /\ toRecv' \in Seq(T) /\ AtMostOne(toRecv')
           /\ rcv.pc = "done" => toRecv' = <<>>
<1>1. toRecv \in Seq(T)
  BY OtherItems, ItemKinds
<1>2. CASE rcv.pc = "done"
  BY <1>2, EmptyQueue, Nothing0 DEF ToReceiver, Over
<1>3. CASE rcv.pc # "done"
  <2>1. PICK a \in Arrivals(<<x>>, n) : toRecv' = toRecv \o a[1]
    BY <1>3 DEF ToReceiver, Over
  <2>2. \/ toRecv' = Append(toRecv, x)
        \/ toRecv' = toRecv
        \/ toRecv' = Append(toRecv, Byte("junk"))
        \/ IsPacket(x) /\ \E h \in {"crc", "short"} : toRecv' = Append(toRecv, [x EXCEPT !.how = h])
    BY <1>1, <2>1, OneByteArrives DEF XTypes
  <2>3. toRecv' = toRecv \/ \E y \in T : toRecv' = Append(toRecv, y)
    BY <2>2
  <2>4. \A y \in T : Append(toRecv, y) \in Seq(T) /\ AtMostOne(Append(toRecv, y))
    BY <1>1, Joined
  <2>5. AtMostOne(toRecv)
    BY DEF AtMostOne, NoneCounts
  <2> QED BY <1>1, <1>3, <2>3, <2>4, <2>5
<1> QED BY <1>2, <1>3

LEMMA AnswerSent ==
    ASSUME XTypes, toSend \in Seq(ToS), NoneCounts(toSend), NEW b \in {"C", "ACK", "NAK"}, NEW n,
           ToSender(toSend, <<b>>, n), NEW T, Byte(b) \in T, Byte("junk") \in T, Byte("CAN") \in T
    PROVE  /\ toSend' \in Seq(T) /\ AtMostOne(toSend')
           /\ snd.pc = "done" => toSend' = <<>>
<1>1. toSend \in Seq(T)
  BY OtherItems, ItemKinds
<1>2. CASE snd.pc = "done"
  BY <1>2, EmptyQueue, Nothing0 DEF ToSender, Over
<1>3. CASE snd.pc # "done"
  <2> DEFINE x == Byte(b)
  <2>6. [i \in DOMAIN <<b>> |-> Byte(<<b>>[i])] = <<x>>
    OBVIOUS
  <2>7. x \in T /\ ~IsPacket(x)
    BY ByteKind DEF IsPacket
  <2>1. PICK a \in Arrivals(<<x>>, n) : toSend' = toSend \o a[1]
    BY <1>3, <2>6 DEF ToSender, Over
  <2> HIDE DEF x
  <2>2. \/ toSend' = Append(toSend, x)
        \/ toSend' = toSend
        \/ toSend' = Append(toSend, Byte("junk"))
    BY <1>1, <2>1, <2>7, OneByteArrives DEF XTypes
  <2>3. toSend' = toSend \/ \E y \in T : toSend' = Append(toSend, y)
    BY <2>2, <2>7
  <2>4. \A y \in T : Append(toSend, y) \in Seq(T) /\ AtMostOne(Append(toSend, y))
    BY <1>1, Joined
  <2>5. AtMostOne(toSend)
    BY DEF AtMostOne, NoneCounts
  <2> QED BY <1>1, <1>3, <2>3, <2>4, <2>5
<1> QED BY <1>2, <1>3


-----------------------------------------------------------------------------
(* The sender's steps.                                                     *)

LEMMA TypesStay ==
    ASSUME XTypes, setting' = setting, snd' \in XSenders, rcv' \in XReceivers, target' \in Targets
    PROVE  XTypes'
  BY DEF XTypes, setting, XSenders, XReceivers, Targets

(* What the receiver has does not change with the sender's tries or end.   *)
LEMMA TakenSame ==
    ASSUME batch' = batch, target' = target, rcv' = rcv, snd'.pos = snd.pos, snd'.seq = snd.seq
    PROVE  (Level' <=> Level) /\ (Ahead' <=> Ahead)
<1>1. NextSeq(snd.seq)' = NextSeq(snd.seq)
  BY DEF NextSeq
<1>2. \A n \in Nat : HasTaken(n)' <=> HasTaken(n)
  BY TakenStays
<1> QED BY <1>1, <1>2 DEF Level, Ahead

LEMMA SenderEnds ==
    ASSUME XInv, setting' = setting, rcv' = rcv, target' = target, saved' = saved,
           snd.pc # "done", NEW e \in Endings \ {"busy"},
           snd' = [snd EXCEPT !.pc = "done", !.err = e], toSend' = <<>>,
           NEW q \in {toRecv, Append(toRecv, Byte("CAN"))},
           toRecv' = IF Over(rcv) THEN <<>> ELSE q
    PROVE  XInv'
<1>1. /\ snd' \in XSenders /\ snd'.pc = "done" /\ snd'.err = e
      /\ snd'.seq = snd.seq /\ snd'.pos = snd.pos
  BY DEF XInv, XTypes, XSenders, SenderPhases, Endings
<1>2. XTypes'
  BY <1>1, TypesStay DEF XInv, XTypes
<1>3. batch' = batch
  BY DEF setting
<1>4. /\ ToR \subseteq ToR' /\ (Unsent' <=> Unsent) /\ (Level' <=> Level) /\ (Ahead' <=> Ahead)
      /\ (NoneSaved' <=> NoneSaved) /\ (AllSaved' <=> AllSaved)
  BY <1>1, <1>3, StillOffered, TakenSame, GoodsStay DEF XInv, XTypes
<1>5. XSender'
  BY <1>1, <1>3 DEF XInv, XSender, Endings
<1>6. XReceiver'
  BY <1>1, <1>3, <1>4, TakenStays DEF XInv, XReceiver
<1>7. XQueues'
  <2>1. q \in Seq(ToR) /\ AtMostOne(q)
    <3>1. Byte("CAN") \in ToR /\ ~Counts(Byte("CAN"))
      BY ByteKind DEF ToR, Framing, Counts
    <3> QED BY <3>1, Joined DEF XInv, XQueues
  <2>2. toRecv' \in Seq(ToR) /\ AtMostOne(toRecv)'
    BY <2>1, EmptyQueue, Nothing0 DEF AtMostOne
  <2>3. toRecv' \in Seq(ToR')
    BY <2>2, <1>4
  <2>4. toSend' \in Seq(ToS') /\ AtMostOne(toSend)' /\ NoneCounts(toSend)'
    BY EmptyQueue, Nothing0 DEF AtMostOne, NoneCounts
  <2> QED BY <2>2, <2>3, <2>4, <1>1 DEF XQueues, Over
<1> QED BY <1>2, <1>5, <1>6, <1>7 DEF XInv

(* The sender tries once more: what it sends was on offer.                 *)
LEMMA SenderTries ==
    ASSUME XInv, setting' = setting, rcv' = rcv, target' = target, saved' = saved,
           NEW t \in Nat, snd' = [snd EXCEPT !.tries = t],
           snd.pc # "done",
           toSend' \in Seq(ToS), NoneCounts(toSend'), NoneCounts(toRecv),
           toRecv' = toRecv \/ \E x \in Offered : \E n : ToReceiver(toRecv, <<x>>, n)
    PROVE  XInv'
<1>1. /\ snd' \in XSenders /\ snd'.pc = snd.pc /\ snd'.err = snd.err
      /\ snd'.seq = snd.seq /\ snd'.pos = snd.pos
  BY DEF XInv, XTypes, XSenders
<1>2. XTypes'
  BY <1>1, TypesStay DEF XInv, XTypes
<1>3. batch' = batch
  BY DEF setting
<1>4. /\ ToR \subseteq ToR' /\ (Unsent' <=> Unsent) /\ (Level' <=> Level) /\ (Ahead' <=> Ahead)
      /\ (NoneSaved' <=> NoneSaved) /\ (AllSaved' <=> AllSaved)
  BY <1>1, <1>3, StillOffered, TakenSame, GoodsStay DEF XInv, XTypes
<1>5. XSender'
  BY <1>1, <1>3, <1>4 DEF XInv, XSender
<1>6. XReceiver'
  BY <1>1, <1>3, <1>4, TakenStays DEF XInv, XReceiver
<1>7. XQueues'
  <2>1. toRecv' \in Seq(ToR) /\ AtMostOne(toRecv') /\ (rcv.pc = "done" => toRecv' = <<>>)
    <3>1. CASE toRecv' = toRecv
      BY <3>1 DEF XInv, XQueues
    <3>2. ASSUME NEW x \in Offered, NEW n, ToReceiver(toRecv, <<x>>, n)
          PROVE  toRecv' \in Seq(ToR) /\ AtMostOne(toRecv') /\ (rcv.pc = "done" => toRecv' = <<>>)
      <4>1. x \in ToR /\ Byte("junk") \in ToR /\ Framing \subseteq ToR
        BY DEF ToR
      <4>2. IsPacket(x) => \A h \in {"crc", "short"} : [x EXCEPT !.how = h] \in ToR
        BY ByteKind DEF IsPacket, ToR, Offered, Data
      <4> QED BY <3>2, <4>1, <4>2, ItemSent DEF XInv, XQueues
    <3> QED BY <3>1, <3>2
  <2>2. toSend' \in Seq(ToS')
    <3>1. \A x \in ToS : ~Counts(x) => x \in ToS'
      BY ItemKinds DEF ToS, Byte
    <3> QED BY <3>1, OtherItems
  <2>3. AtMostOne(toSend')
    BY DEF NoneCounts, AtMostOne
  <2> QED BY <2>1, <2>2, <2>3, <1>1, <1>4 DEF XQueues, AtMostOne, NoneCounts
<1> QED BY <1>2, <1>5, <1>6, <1>7 DEF XInv

(* The sender goes on to the block behind the first p units, or to EOT.    *)
LEMMA SenderGoesOn ==
    ASSUME XInv, setting' = setting, rcv' = rcv, target' = target, saved' = saved,
           NEW s \in XSenders, s.err = snd.err, snd.pc # "done",
           NEW k \in Nat, s.pos = BlockSize * k, s.pos < batch[1] + BlockSize,
           ~(s.pos = 0 /\ s.seq = 0),
           rcv.pc # "tail",
           rcv.pc = "data" => NoneSaved /\ rcv.exp = s.seq /\ \A n \in Nat : n = s.pos => HasTaken(n),
           toSend' \in Seq(ToS), NoneCounts(toSend'), NoneCounts(toRecv),
           NEW n, XOffer(s, toRecv, n)
    PROVE  XInv'
<1> DEFINE last == s.pos >= batch[1]
<1>0. batch' = batch /\ batch[1] \in Nat
  BY TheFile DEF setting, XInv
<1>1. /\ snd' \in XSenders /\ snd'.err = "busy"
      /\ snd'.seq = s.seq /\ snd'.pos = s.pos
      /\ snd'.pc = IF last THEN "eot" ELSE "data"
  <2>1. snd.err = "busy"
    BY DEF XInv, XSender
  <2>2. \A p \in SenderPhases :
           LET r == [s EXCEPT !.pc = p, !.tries = 1] IN
           r \in XSenders /\ r.err = s.err /\ r.seq = s.seq /\ r.pos = s.pos /\ r.pc = p
    BY DEF XSenders
  <2>3. snd' = [s EXCEPT !.pc = IF last THEN "eot" ELSE "data", !.tries = 1]
    <3>1. s.pos \in Nat
      BY DEF XSenders
    <3>2. last <=> ~(s.pos < batch[1])
      BY <1>0, <3>1
    <3> HIDE DEF last
    <3>3. CASE last
      BY <3>2, <3>3 DEF XOffer
    <3>4. CASE ~last
      BY <3>2, <3>4 DEF XOffer
    <3> QED BY <3>3, <3>4
  <2>4. (IF last THEN "eot" ELSE "data") \in SenderPhases
    BY DEF SenderPhases
  <2> HIDE DEF last
  <2> QED BY <2>1, <2>2, <2>3, <2>4
<1>2. XTypes'
  BY <1>1, TypesStay DEF XInv, XTypes
<1>3. s.pos \in Nat
  BY DEF XSenders
<1>4. (NoneSaved' <=> NoneSaved) /\ (AllSaved' <=> AllSaved)
  BY GoodsStay
<1>5. ~Unsent'
  BY <1>1 DEF Unsent
<1>6. XSender'
  BY <1>0, <1>1, <1>3, <1>5 DEF XSender
<1>7. XReceiver'
  <2>1. rcv.pc = "data" => Level'
    <3>1. \A m \in Nat : HasTaken(m)' <=> HasTaken(m)
      BY <1>0, TakenStays
    <3> QED BY <3>1, <1>1 DEF Level
  <2> QED BY <2>1, <1>4, <1>5 DEF XReceiver, XInv
<1>8. XQueues'
  <2>1. toRecv' \in Seq(ToR') /\ AtMostOne(toRecv') /\ (rcv.pc = "done" => toRecv' = <<>>)
    <3>0. Byte("junk") \in ToR' /\ Framing \subseteq ToR'
      BY DEF ToR, Framing, Byte
    <3>1. CASE last
      <4>1. ToReceiver(toRecv, <<Byte("EOT")>>, n)
        BY <1>0, <1>3, <3>1 DEF XOffer
      <4>2. Byte("EOT") \in ToR' /\ ~IsPacket(Byte("EOT"))
        BY <1>0, <1>1, <1>5, <3>1, ByteKind DEF ToR, Offered, IsPacket, Byte
      <4> QED BY <4>1, <4>2, <3>0, ItemSent DEF XInv, XQueues
    <3>2. CASE ~last
      <4> DEFINE x == Data(s.seq, 1, s.pos)
      <4>1. ToReceiver(toRecv, <<x>>, n)
        BY <1>0, <1>3, <3>2 DEF XOffer
      <4>5. Data(snd.seq, 1, snd.pos)' = x
        BY <1>0, <1>1 DEF Data, Block
      <4>6. snd'.pc \in {"data", "done"} /\ snd'.pos < batch'[1]
        BY <1>0, <1>1, <1>3, <3>2
      <4>2. \A h \in {"ok", "crc", "short"} : [x EXCEPT !.how = h] \in ToR'
        BY <1>5, <4>5, <4>6 DEF ToR, Offered
      <4>3. x = [x EXCEPT !.how = "ok"]
        BY DEF Data
      <4>4. x \in ToR'
        BY <4>2, <4>3
      <4> HIDE DEF x
      <4> QED BY <4>1, <4>2, <4>4, <3>0, ItemSent DEF XInv, XQueues
    <3> QED BY <3>1, <3>2
  <2>2. toSend' \in Seq(ToS')
    <3>1. \A x \in ToS : ~Counts(x) => x \in ToS'
      BY ItemKinds DEF ToS, Byte
    <3> QED BY <3>1, OtherItems
  <2>3. AtMostOne(toSend')
    BY DEF NoneCounts, AtMostOne
  <2> QED BY <2>1, <2>2, <2>3, <1>1 DEF XQueues, AtMostOne, NoneCounts
<1> QED BY <1>2, <1>6, <1>7, <1>8 DEF XInv


LEMMA SenderFailing ==
    ASSUME XInv, setting' = setting, rcv' = rcv, target' = target, saved' = saved,
           snd.pc # "done", NEW e \in Endings \ {"busy"}, SenderFails(e)
    PROVE  XInv'
<1>1. SenderStops(e, Append(toRecv, Byte("CAN")))
  BY DEF SenderFails
<1> QED BY <1>1, SenderEnds DEF SenderStops

LEMMA SendStartStep == XInv /\ XSendStart => XInv'
<1> SUFFICES ASSUME XInv, XSendStart PROVE XInv'
  OBVIOUS
<1>0. /\ setting' = setting /\ rcv' = rcv /\ target' = target /\ saved' = saved
      /\ snd.pc = "start" /\ snd.pc # "done" /\ Unsent
  BY DEF XSendStart, XInv, XSender
<1>1. PICK c \in {"C", "ACK", "NAK", "CAN", "junk", "timeout"} :
        /\ SenderReads(c)
        /\ \/ /\ c = "C"
              /\ \/ /\ XOffer([snd EXCEPT !.seq = NextSeq(0)], toRecv, faults)
                    /\ toSend' = AfterSenderReads
                 \/ batch[1] > 0 /\ XSourceFails
           \/ c = "CAN" /\ SenderFails("Cancelled")
           \/ c = "NAK" /\ SenderFails("Gave up")
           \/ /\ c \in {"ACK", "junk", "timeout"}
              /\ IF snd.tries + 1 >= StartRetries THEN SenderFails("Gave up")
                 ELSE /\ snd' = [snd EXCEPT !.tries = @ + 1]
                      /\ toSend' = AfterSenderReads
                      /\ faults' = FaultsAfter(c = "timeout")
                      /\ UNCHANGED toRecv
  BY DEF XSendStart
<1>2. /\ AfterSenderReads \in Seq(ToS)
      /\ c # "CAN" => NoneCounts(toRecv) /\ NoneCounts(AfterSenderReads)
  BY <1>1, SenderHasRead DEF XInv
<1>3. \A e \in {"Cancelled", "Gave up", "Card"} : SenderFails(e) => XInv'
  BY <1>0, SenderFailing DEF Endings
<1>4. CASE c = "C" /\ XOffer([snd EXCEPT !.seq = NextSeq(0)], toRecv, faults) /\ toSend' = AfterSenderReads
  <2> DEFINE s == [snd EXCEPT !.seq = NextSeq(0)]
  <2>1. s \in XSenders /\ s.err = snd.err /\ s.pos = 0 /\ s.seq = NextSeq(0) /\ s.seq # 0
    BY <1>0, FirstNumber DEF XInv, XTypes, XSenders, Unsent
  <2>2. 0 \in Nat /\ s.pos = BlockSize * 0 /\ s.pos < batch[1] + BlockSize
    BY <2>1, TheFile, LineConstants DEF XInv
  <2>3. rcv.pc # "tail"
    BY <1>0 DEF XInv, XReceiver
  <2>4. rcv.pc = "data" => NoneSaved /\ rcv.exp = s.seq /\ HasTaken(0)
    BY <1>0, <2>1 DEF XInv, XReceiver
  <2> HIDE DEF s
  <2>5. rcv.pc = "data" => NoneSaved /\ rcv.exp = s.seq /\ \A n \in Nat : n = s.pos => HasTaken(n)
    BY <2>1, <2>4
  <2>6. XOffer(s, toRecv, faults)
    BY <1>4 DEF s
  <2>7. toSend' \in Seq(ToS) /\ NoneCounts(toSend') /\ NoneCounts(toRecv)
    BY <1>2, <1>4
  <2> QED BY <1>0, <2>1, <2>2, <2>3, <2>5, <2>6, <2>7, SenderGoesOn
<1>5. CASE /\ c \in {"ACK", "junk", "timeout"} /\ snd' = [snd EXCEPT !.tries = @ + 1]
           /\ toSend' = AfterSenderReads /\ UNCHANGED toRecv
  <2> DEFINE t == snd.tries + 1
  <2>1. t \in Nat /\ snd' = [snd EXCEPT !.tries = t]
    BY <1>5 DEF XInv, XTypes, XSenders
  <2> HIDE DEF t
  <2>2. toSend' \in Seq(ToS) /\ NoneCounts(toSend') /\ NoneCounts(toRecv)
    BY <1>2, <1>5
  <2> QED BY <1>0, <1>5, <2>1, <2>2, SenderTries
<1> QED BY <1>1, <1>3, <1>4, <1>5 DEF XSourceFails

LEMMA BlockOffered ==
    ASSUME XInv, snd.pc = "data"
    PROVE  Data(snd.seq, 1, snd.pos) \in Offered
<1>1. ~Unsent /\ snd.pos < batch[1]
  BY DEF XInv, XSender
<1>2. Data(snd.seq, 1, snd.pos) = [Data(snd.seq, 1, snd.pos) EXCEPT !.how = "ok"]
  BY DEF Data
<1> QED BY <1>1, <1>2 DEF Offered

LEMMA SendBlockStep == XInv /\ XSendBlock => XInv'
<1> SUFFICES ASSUME XInv, XSendBlock PROVE XInv'
  OBVIOUS
<1> DEFINE moved == [snd EXCEPT !.seq = NextSeq(@), !.pos = @ + BlockSize]
<1>0. /\ setting' = setting /\ rcv' = rcv /\ target' = target /\ saved' = saved
      /\ snd.pc = "data" /\ snd.pc # "done" /\ ~Unsent /\ snd.pos < batch[1]
  BY DEF XSendBlock, XInv, XSender
<1>1. PICK c \in {"C", "ACK", "NAK", "CAN", "junk", "timeout"} :
        /\ SenderReads(c)
        /\ \/ /\ c = "ACK"
              /\ \/ XOffer(moved, toRecv, faults) /\ toSend' = AfterSenderReads
                 \/ moved.pos < batch[1] /\ XSourceFails
           \/ c = "CAN" /\ SenderFails("Cancelled")
           \/ /\ c \notin {"ACK", "CAN"}
              /\ IF snd.tries >= Retries THEN SenderFails("Gave up")
                 ELSE /\ snd' = [snd EXCEPT !.tries = @ + 1]
                      /\ toSend' = AfterSenderReads
                      /\ ToReceiver(toRecv, <<Data(snd.seq, 1, snd.pos)>>,
                                    FaultsAfter(c = "timeout"))
  BY DEF XSendBlock
<1>2. /\ AfterSenderReads \in Seq(ToS)
      /\ c = "ACK" => Acked
      /\ c # "CAN" => NoneCounts(toRecv) /\ NoneCounts(AfterSenderReads)
  BY <1>1, SenderHasRead DEF XInv
<1>3. \A e \in {"Cancelled", "Gave up", "Card"} : SenderFails(e) => XInv'
  BY <1>0, SenderFailing DEF Endings
<1>4. CASE c = "ACK" /\ XOffer(moved, toRecv, faults) /\ toSend' = AfterSenderReads
  <2>1. PICK k \in Nat : snd.pos = BlockSize * k
    BY DEF XInv, XSender
  <2>2. /\ moved \in XSenders /\ moved.err = snd.err /\ moved.pos = snd.pos + BlockSize
        /\ moved.seq = NextSeq(snd.seq) /\ snd.pos \in Nat
    <3> DEFINE q == NextSeq(snd.seq)
               p == snd.pos + BlockSize
    <3>1. snd \in XSenders /\ snd.seq \in 0..(SeqMod - 1) /\ snd.pos \in Nat
      BY DEF XInv, XTypes, XSenders
    <3>2. q \in 0..(SeqMod - 1) /\ p \in Nat
      BY <3>1, NumbersTurn, LineConstants
    <3>3. moved = [snd EXCEPT !.seq = q, !.pos = p]
      OBVIOUS
    <3> HIDE DEF q, p, moved
    <3>4. moved \in XSenders /\ moved.err = snd.err /\ moved.pos = p /\ moved.seq = q
      BY <3>1, <3>2, <3>3 DEF XSenders
    <3> QED BY <3>1, <3>4 DEF q, p
  <2>3. k + 1 \in Nat /\ moved.pos = BlockSize * (k + 1)
    BY <2>1, <2>2, LineConstants
  <2>4. moved.pos < batch[1] + BlockSize /\ moved.pos # 0
    BY <1>0, <2>2, TheFile, LineConstants DEF XInv
  <2>5. rcv.pc # "tail"
    BY <1>0 DEF XInv, XReceiver
  <2>6. rcv.pc = "data" => NoneSaved /\ Ahead
    BY <1>0, <1>2, <1>4 DEF XInv, XReceiver, Acked
  <2> HIDE DEF moved
  <2>7. rcv.pc = "data" => /\ NoneSaved /\ rcv.exp = moved.seq
                           /\ \A n \in Nat : n = moved.pos => HasTaken(n)
    BY <2>2, <2>6 DEF Ahead
  <2>8. toSend' \in Seq(ToS) /\ NoneCounts(toSend') /\ NoneCounts(toRecv)
    BY <1>2, <1>4
  <2> QED BY <1>0, <1>4, <2>2, <2>3, <2>4, <2>5, <2>7, <2>8, SenderGoesOn
<1>5. CASE /\ c \notin {"ACK", "CAN"} /\ snd' = [snd EXCEPT !.tries = @ + 1]
           /\ toSend' = AfterSenderReads
           /\ ToReceiver(toRecv, <<Data(snd.seq, 1, snd.pos)>>, FaultsAfter(c = "timeout"))
  <2> DEFINE t == snd.tries + 1
  <2>1. t \in Nat /\ snd' = [snd EXCEPT !.tries = t]
    BY <1>5 DEF XInv, XTypes, XSenders
  <2> HIDE DEF t
  <2>2. toSend' \in Seq(ToS) /\ NoneCounts(toSend') /\ NoneCounts(toRecv)
    BY <1>2, <1>5
  <2>3. \E x \in Offered : \E n : ToReceiver(toRecv, <<x>>, n)
    BY <1>0, <1>5, BlockOffered
  <2> QED BY <1>0, <2>1, <2>2, <2>3, SenderTries
<1> QED BY <1>1, <1>3, <1>4, <1>5 DEF XSourceFails

LEMMA SendEndStep == XInv /\ XSendEnd => XInv'
<1> SUFFICES ASSUME XInv, XSendEnd PROVE XInv'
  OBVIOUS
<1>0. /\ setting' = setting /\ rcv' = rcv /\ target' = target /\ saved' = saved
      /\ snd.pc = "eot" /\ snd.pc # "done" /\ ~Unsent /\ snd.pos >= batch[1]
  BY DEF XSendEnd, XInv, XSender
<1>1. PICK c \in {"C", "ACK", "NAK", "CAN", "junk", "timeout"} :
        /\ SenderReads(c)
        /\ \/ c = "ACK" /\ SenderStops("None", toRecv)
           \/ c = "CAN" /\ SenderFails("Cancelled")
           \/ /\ c \notin {"ACK", "CAN"}
              /\ IF snd.tries >= Retries THEN SenderFails("Gave up")
                 ELSE /\ snd' = [snd EXCEPT !.tries = @ + 1]
                      /\ toSend' = AfterSenderReads
                      /\ ToReceiver(toRecv, <<Byte("EOT")>>, FaultsAfter(c = "timeout"))
  BY DEF XSendEnd
<1>2. /\ AfterSenderReads \in Seq(ToS)
      /\ c # "CAN" => NoneCounts(toRecv) /\ NoneCounts(AfterSenderReads)
  BY <1>1, SenderHasRead DEF XInv
<1>3. \A e \in {"Cancelled", "Gave up"} : SenderFails(e) => XInv'
  BY <1>0, SenderFailing DEF Endings
<1>4. CASE SenderStops("None", toRecv)
  BY <1>0, <1>4, SenderEnds DEF SenderStops, Endings
<1>5. CASE /\ c \notin {"ACK", "CAN"} /\ snd' = [snd EXCEPT !.tries = @ + 1]
           /\ toSend' = AfterSenderReads
           /\ ToReceiver(toRecv, <<Byte("EOT")>>, FaultsAfter(c = "timeout"))
  <2> DEFINE t == snd.tries + 1
  <2>1. t \in Nat /\ snd' = [snd EXCEPT !.tries = t]
    BY <1>5 DEF XInv, XTypes, XSenders
  <2> HIDE DEF t
  <2>2. toSend' \in Seq(ToS) /\ NoneCounts(toSend') /\ NoneCounts(toRecv)
    BY <1>2, <1>5
  <2>4. Byte("EOT") \in Offered
    BY <1>0 DEF Offered
  <2>3. \E x \in Offered : \E n : ToReceiver(toRecv, <<x>>, n)
    BY <1>5, <2>4
  <2> QED BY <1>0, <2>1, <2>2, <2>3, SenderTries
<1> QED BY <1>1, <1>3, <1>4, <1>5


-----------------------------------------------------------------------------
(* The receiver's steps.                                                   *)

LEMMA SenderKept ==
    ASSUME XInv, setting' = setting, snd' = snd
    PROVE  XSender' /\ ToR' = ToR /\ (Unsent' <=> Unsent)
<1>1. batch' = batch
  BY DEF setting
<1>2. Unsent' <=> Unsent
  BY DEF Unsent
<1>3. XSender'
  BY <1>1, <1>2 DEF XInv, XSender
<1>4. Offered \subseteq Offered' /\ Offered' \subseteq Offered
  BY <1>1, StillOffered DEF XInv, XTypes
<1>5. Offered' = Offered
  BY <1>4
<1> QED BY <1>2, <1>3, <1>5 DEF ToR

(* The receiver stops: with a CAN, with a last ACK, or silently.           *)
LEMMA ReceiverEnds ==
    ASSUME XInv, setting' = setting, snd' = snd, saved' = saved,
           rcv.pc # "done", NEW e \in Endings, NEW q, ReceiverStops(e, q),
           \/ q \in {toSend, Append(toSend, Byte("CAN"))}
           \/ q = Append(toSend, Byte("ACK")) /\ rcv.pc = "tail" /\ NoneCounts(toSend)
    PROVE  XInv'
<1>1. rcv' \in XReceivers /\ rcv'.pc = "done"
  BY DEF ReceiverStops, XInv, XTypes, XReceivers, XReceiverPhases
<1>2. target' \in Targets
  <2>1. <<>> \in Seq(Units)
    OBVIOUS
  <2> QED BY <2>1 DEF ReceiverStops, Targets
<1>3. XTypes'
  BY <1>1, <1>2, TypesStay DEF XInv, XTypes
<1>4. XSender' /\ ToR' = ToR /\ (Unsent' <=> Unsent)
  BY SenderKept
<1>5. (NoneSaved' <=> NoneSaved) /\ (AllSaved' <=> AllSaved)
  BY GoodsStay
<1>6. XReceiver'
  BY <1>1, <1>5 DEF XInv, XReceiver, XTypes, XReceivers, XReceiverPhases
<1>7. Acked => Acked'
  BY <1>1, <1>5 DEF Acked
<1>8. ToS \subseteq ToS' /\ Byte("CAN") \in ToS
  BY <1>7 DEF ToS, Byte
<1>9. XQueues'
  <2>1. toRecv' = <<>>
    BY DEF ReceiverStops
  <2>2. toSend' = IF Over(snd) THEN <<>> ELSE q
    BY DEF ReceiverStops
  <2>3. ~Over(snd) => q \in Seq(ToS') /\ AtMostOne(q)
    <3>1. toSend \in Seq(ToS') /\ AtMostOne(toSend)
      BY <1>8 DEF XInv, XQueues
    <3>2. CASE q \in {toSend, Append(toSend, Byte("CAN"))}
      <4>1. Byte("CAN") \in ToS' /\ ~Counts(Byte("CAN"))
        BY <1>8, ByteKind DEF Counts
      <4> QED BY <3>1, <3>2, <4>1, Joined
    <3>3. CASE q = Append(toSend, Byte("ACK")) /\ rcv.pc = "tail" /\ NoneCounts(toSend) /\ ~Over(snd)
      <4>1. Acked'
        BY <1>5, <3>3 DEF XInv, XReceiver, Over, Acked
      <4>2. Byte("ACK") \in ToS'
        BY <4>1 DEF ToS
      <4> QED BY <3>1, <3>3, <4>2, Joined
    <3> QED BY <3>2, <3>3
  <2>4. toSend' \in Seq(ToS') /\ AtMostOne(toSend')
    BY <2>2, <2>3, EmptyQueue, Nothing0
  <2>5. toRecv' \in Seq(ToR') /\ AtMostOne(toRecv') /\ NoneCounts(toRecv')
    BY <2>1, EmptyQueue, Nothing0
  <2> QED BY <2>1, <2>2, <2>4, <2>5 DEF XQueues, Over, AtMostOne, NoneCounts
<1> QED BY <1>3, <1>4, <1>6, <1>9 DEF XInv

LEMMA ReceiverFailing ==
    ASSUME XInv, setting' = setting, snd' = snd, rcv.pc # "done",
           NEW e \in Endings, ReceiverFails(e)
    PROVE  XInv'
<1>1. ReceiverStops(e, Append(toSend, Byte("CAN"))) /\ saved' = saved
  BY DEF ReceiverFails
<1> QED BY <1>1, ReceiverEnds

(* The receiver answers.                                                   *)
LEMMA ReceiverAnswers ==
    ASSUME XInv, setting' = setting, snd' = snd, rcv' \in XReceivers, target' \in Targets,
           XReceiver', rcv'.pc # "done",
           NoneCounts(toSend), NEW b \in {"C", "ACK", "NAK"}, NEW n, ToSender(toSend, <<b>>, n),
           toRecv' \in Seq(ToR), NoneCounts(toRecv'),
           b = "ACK" /\ snd.pc # "done" => Acked'
    PROVE  XInv'
<1>1. XTypes'
  BY TypesStay DEF XInv, XTypes
<1>2. XSender' /\ ToR' = ToR
  BY SenderKept
<1>3. toSend' \in Seq(ToS') /\ AtMostOne(toSend') /\ (snd.pc = "done" => toSend' = <<>>)
  <2> DEFINE T == ToS' \cup {Byte(b)}
  <2>1. Byte(b) \in T /\ Byte("junk") \in T /\ Byte("CAN") \in T
    BY DEF ToS, Byte
  <2>2. toSend' \in Seq(T) /\ AtMostOne(toSend') /\ (snd.pc = "done" => toSend' = <<>>)
    BY <2>1, AnswerSent DEF XInv, XQueues
  <2>3. CASE snd.pc = "done"
    BY <2>2, <2>3, Nothing0
  <2>4. CASE snd.pc # "done"
    <3>1. Byte(b) \in ToS'
      BY <2>4 DEF ToS, Byte
    <3>2. T = ToS'
      BY <3>1
    <3> QED BY <2>2, <3>2
  <2> QED BY <2>3, <2>4
<1>4. AtMostOne(toRecv')
  BY DEF AtMostOne, NoneCounts
<1>5. XQueues'
  BY <1>2, <1>3, <1>4 DEF XQueues, AtMostOne, NoneCounts
<1> QED BY <1>1, <1>2, <1>5 DEF XInv

(* The receiver takes something and says nothing.                          *)
(* A receiver that keeps its place has what it had.                        *)
LEMMA ReceiverAsBefore ==
    ASSUME XInv, setting' = setting, snd' = snd, target' = target, saved' = saved,
           rcv'.pc = rcv.pc, rcv'.exp = rcv.exp
    PROVE  XReceiver' /\ (Ahead' <=> Ahead)
<1>2. Unsent' <=> Unsent
  BY DEF Unsent
<1>3. batch' = batch
  BY DEF setting
<1>4. (Level' <=> Level) /\ (Ahead' <=> Ahead) /\ (HasTaken(0)' <=> HasTaken(0))
  <2>1. \A n \in Nat : HasTaken(n)' <=> HasTaken(n)
    BY <1>3, TakenStays
  <2>2. NextSeq(snd.seq)' = NextSeq(snd.seq)
    BY DEF NextSeq
  <2> QED BY <1>3, <2>1, <2>2 DEF Level, Ahead
<1>5. (NoneSaved' <=> NoneSaved) /\ (AllSaved' <=> AllSaved)
  BY GoodsStay
<1>7. NextSeq(0)' = NextSeq(0)
  BY DEF NextSeq
<1>6. XReceiver'
  BY <1>2, <1>3, <1>4, <1>5, <1>7 DEF XInv, XReceiver
<1> QED BY <1>4, <1>6

LEMMA ReceiverListens ==
    ASSUME XInv, setting' = setting, snd' = snd, target' = target, saved' = saved,
           rcv' \in XReceivers, rcv'.pc = rcv.pc, rcv'.exp = rcv.exp,
           rcv.pc # "done", toSend' = toSend, toRecv' \in Seq(ToR), AtMostOne(toRecv'),
           NoneCounts(toSend) \/ NoneCounts(toRecv')
    PROVE  XInv'
<1>1. XTypes'
  BY TypesStay DEF XInv, XTypes
<1>2. XSender' /\ ToR' = ToR /\ (Unsent' <=> Unsent)
  BY SenderKept
<1>4. (Ahead' <=> Ahead) /\ XReceiver'
  BY ReceiverAsBefore
<1>5. (NoneSaved' <=> NoneSaved) /\ (AllSaved' <=> AllSaved)
  BY GoodsStay
<1>7. Acked' <=> Acked
  BY <1>4, <1>5 DEF Acked
<1>8. ToS' = ToS
  BY <1>7 DEF ToS, Byte
<1>9. XQueues'
  BY <1>2, <1>8 DEF XInv, XQueues, AtMostOne, NoneCounts
<1> QED BY <1>1, <1>2, <1>4, <1>9 DEF XInv


(* A packet that is read is the one on offer; EOT comes behind the last.   *)
LEMMA BlockRead ==
    ASSUME NEW x \in ToR, x.kind = "data"
    PROVE  /\ x.seq = snd.seq /\ x.body = Block(1, snd.pos)
           /\ ~Unsent /\ snd.pos < batch[1] /\ snd.pc \in {"data", "done"}
<1>1. x \in Offered /\ x # Byte("EOT")
  BY ByteKind DEF ToR, Framing
<1>2. PICK h : x = [Data(snd.seq, 1, snd.pos) EXCEPT !.how = h]
  BY <1>1 DEF Offered
<1>3. x.seq = snd.seq /\ x.body = Block(1, snd.pos)
  BY <1>2 DEF Data
<1>4. ~Unsent /\ snd.pos < batch[1] /\ snd.pc \in {"data", "done"}
  BY <1>1 DEF Offered
<1> QED BY <1>3, <1>4

LEMMA EotRead ==
    ASSUME NEW x \in ToR, x.kind = "EOT"
    PROVE  ~Unsent /\ snd.pos >= batch[1] /\ snd.pc \in {"eot", "done"}
<1>1. \A h : [Data(snd.seq, 1, snd.pos) EXCEPT !.how = h].kind = "data"
  BY DEF Data
<1> QED BY <1>1, ByteKind DEF ToR, Framing, Offered

(* A block with the expected number is the one behind what was taken.      *)
LEMMA TakeBlockStep ==
    ASSUME XInv, rcv.pc = "data", setting' = setting, snd' = snd,
           NEW x, ReceiverReads(x), XTakeBlock(x)
    PROVE  XInv'
<1>1. CASE faults > 0 /\ ReceiverFails("Card")
  BY <1>1, ReceiverFailing DEF Endings
<1>2. CASE /\ target' = Wrote(x.body)
           /\ XAnswer([rcv EXCEPT !.exp = NextSeq(@), !.started = TRUE, !.errors = 0], "ACK", FALSE)
           /\ UNCHANGED saved
  <2>1. x.kind = "data" /\ x.seq = rcv.exp
    BY DEF XTakeBlock
  <2>2. x \in ToR /\ AfterReceiverReads \in Seq(ToR) /\ NoneCounts(toSend) /\ NoneCounts(AfterReceiverReads)
    BY <2>1, ReceiverHasRead, ByteKind DEF XInv
  <2>3. /\ rcv.exp = snd.seq /\ x.body = Block(1, snd.pos)
        /\ ~Unsent /\ snd.pos < batch[1] /\ snd.pc \in {"data", "done"}
    BY <2>1, <2>2, BlockRead
  <2>4. snd.seq \in 0..(SeqMod - 1) /\ snd.pos \in Nat
    BY DEF XInv, XTypes, XSenders
  <2>5. NoneSaved /\ HasTaken(snd.pos)
    <3>1. ~Ahead
      BY <2>3, <2>4, NumbersTurn DEF Ahead
    <3>2. NoneSaved /\ Level
      BY <2>3, <3>1 DEF XInv, XReceiver
    <3> QED BY <2>4, <3>2 DEF Level
  <2>6. batch' = batch /\ batch[1] \in Nat
    BY TheFile DEF XInv, setting
  <2>7. PICK m \in Nat : m = snd.pos + BlockSize
    BY <2>4, LineConstants
  <2>8. HasTaken(m)' /\ target' \in Targets
    BY <1>2, <2>3, <2>4, <2>5, <2>6, <2>7, BlockTaken DEF XInv, XTypes
  <2> DEFINE e == NextSeq(snd.seq)
  <2>9. e \in 0..(SeqMod - 1) /\ NextSeq(snd.seq)' = e
    BY <2>4, NumbersTurn DEF NextSeq
  <2>10. rcv' = [rcv EXCEPT !.exp = e, !.started = TRUE, !.errors = 0]
    BY <1>2, <2>3 DEF XAnswer
  <2>11. toRecv' = AfterReceiverReads /\ ToSender(toSend, <<"ACK">>, FaultsAfter(FALSE))
    BY <1>2 DEF XAnswer
  <2> HIDE DEF e
  <2>12. rcv' \in XReceivers /\ rcv'.pc = "data" /\ rcv'.exp = e
    BY <2>9, <2>10 DEF XInv, XTypes, XReceivers
  <2>13. Ahead'
    <3>1. \A n \in Nat : n = m => HasTaken(n)'
      BY <2>8
    <3>2. snd'.pos = snd.pos /\ snd'.pos < batch'[1]
      BY <2>3, <2>6
    <3>3. \A n \in Nat : n = snd'.pos + BlockSize => n = m
      BY <2>7, <3>2
    <3> HIDE DEF HasTaken
    <3> QED BY <2>9, <2>12, <3>1, <3>2, <3>3 DEF Ahead
  <2>14. NoneSaved' /\ ~Unsent'
    <3>1. NoneSaved'
      BY <1>2, <2>5, GoodsStay
    <3> QED BY <2>3, <3>1 DEF Unsent
  <2>15. XReceiver'
    BY <2>3, <2>12, <2>13, <2>14 DEF XReceiver
  <2>16. snd.pc # "done" => Acked'
    BY <2>3, <2>13 DEF Acked
  <2> QED BY <2>2, <2>8, <2>11, <2>12, <2>15, <2>16, ReceiverAnswers
<1> QED BY <1>1, <1>2 DEF XTakeBlock

(* Another number is that of the block taken last.                         *)
LEMMA RepeatedStep ==
    ASSUME XInv, rcv.pc = "data", setting' = setting, snd' = snd,
           NEW x, ReceiverReads(x), XRepeated(x)
    PROVE  XInv'
<1>1. CASE ReceiverFails("Gave up")
  BY <1>1, ReceiverFailing DEF Endings
<1>2. CASE /\ XAnswer([rcv EXCEPT !.errors = @ + 1], "ACK", FALSE)
           /\ UNCHANGED <<target, saved>>
  <2>1. x.kind = "data" /\ x.seq # rcv.exp
    BY DEF XRepeated
  <2>2. x \in ToR /\ AfterReceiverReads \in Seq(ToR) /\ NoneCounts(toSend) /\ NoneCounts(AfterReceiverReads)
    BY <2>1, ReceiverHasRead, ByteKind DEF XInv
  <2>3. rcv.exp # snd.seq /\ ~Unsent /\ snd.pc \in {"data", "done"}
    BY <2>1, <2>2, BlockRead
  <2>4. Ahead /\ NoneSaved
    BY <2>3 DEF XInv, XReceiver, Level
  <2> DEFINE t == rcv.errors + 1
  <2>5. t \in Nat
    BY DEF XInv, XTypes, XReceivers
  <2>6. rcv' = [rcv EXCEPT !.errors = t]
    BY <1>2 DEF XAnswer
  <2>7. toRecv' = AfterReceiverReads /\ ToSender(toSend, <<"ACK">>, FaultsAfter(FALSE))
    BY <1>2 DEF XAnswer
  <2> HIDE DEF t
  <2>8. rcv' \in XReceivers /\ rcv'.pc = "data" /\ rcv'.exp = rcv.exp
    BY <2>5, <2>6 DEF XInv, XTypes, XReceivers
  <2>9. Ahead' /\ NoneSaved' /\ ~Unsent' /\ target' \in Targets
    BY <1>2, <2>3, <2>4, <2>8, ReceiverAsBefore, GoodsStay DEF XInv, XTypes, Unsent
  <2>10. XReceiver'
    BY <2>3, <2>8, <2>9 DEF XReceiver
  <2>11. snd.pc # "done" => Acked'
    BY <2>3, <2>9 DEF Acked
  <2> QED BY <2>2, <2>7, <2>8, <2>9, <2>10, <2>11, ReceiverAnswers
<1> QED BY <1>1, <1>2 DEF XRepeated

(* Nothing usable was read: NAK, or the C the sender waits for.            *)
LEMMA BadStep ==
    ASSUME XInv, rcv.pc = "data", setting' = setting, snd' = snd,
           NEW x, ReceiverReads(x), XBad(x)
    PROVE  XInv'
<1> DEFINE silent == ~rcv.started /\ x.kind = "timeout"
           worse == IF silent THEN [rcv EXCEPT !.waiting = @ + 1]
                    ELSE [rcv EXCEPT !.errors = @ + 1]
           b == IF rcv.started \/ IsPacket(x) THEN "NAK" ELSE "C"
<1>1. CASE ReceiverFails("Gave up")
  BY <1>1, ReceiverFailing DEF Endings
<1>2. CASE /\ rcv' = worse
           /\ toRecv' = IF x.kind = "timeout" THEN toRecv
                        ELSE IF IsPacket(x) /\ x.how = "crc" THEN AfterReceiverReads
                        ELSE <<>>
           /\ ToSender(toSend, <<b>>, FaultsAfter(x.kind = "timeout"))
           /\ UNCHANGED <<target, saved>>
  <2>1. x.kind \notin {"newline", "CAN"}
    BY DEF XBad, IsPacket
  <2>2. /\ AfterReceiverReads \in Seq(ToR) /\ NoneCounts(toSend) /\ NoneCounts(AfterReceiverReads)
        /\ x \in ToR \/ (x = Byte("timeout") /\ toRecv = <<>>)
    BY <2>1, ReceiverHasRead DEF XInv
  <2>3. toRecv' \in Seq(ToR) /\ NoneCounts(toRecv')
    <3>1. x.kind = "timeout" => toRecv = <<>>
      BY <2>2, ItemKinds
    <3> QED BY <1>2, <2>2, <3>1, EmptyQueue, Nothing0
  <2>4. rcv' \in XReceivers /\ rcv'.pc = "data" /\ rcv'.exp = rcv.exp
    <3> DEFINE w == rcv.waiting + 1
               t == rcv.errors + 1
    <3>1. w \in Nat /\ t \in Nat /\ rcv \in XReceivers
      BY DEF XInv, XTypes, XReceivers
    <3>2. rcv' = [rcv EXCEPT !.waiting = w] \/ rcv' = [rcv EXCEPT !.errors = t]
      BY <1>2
    <3> HIDE DEF w, t
    <3> QED BY <3>1, <3>2 DEF XReceivers
  <2>5. b \in {"C", "ACK", "NAK"} /\ b # "ACK"
    OBVIOUS
  <2>6. ToSender(toSend, <<b>>, FaultsAfter(x.kind = "timeout"))
    BY <1>2
  <2> HIDE DEF b, worse
  <2>7. XReceiver' /\ target' \in Targets
    BY <1>2, <2>4, ReceiverAsBefore DEF XInv, XTypes
  <2> QED BY <2>2, <2>3, <2>4, <2>5, <2>6, <2>7, ReceiverAnswers
<1> QED BY <1>1, <1>2 DEF XBad

(* EOT comes behind the last block: what is committed is the file.         *)
LEMMA FinishFacts ==
    ASSUME XInv, rcv.pc = "data", NEW x, ReceiverReads(x), x.kind = "EOT"
    PROVE  /\ NoneSaved /\ Committed = Goods(1) /\ Files = {1}
           /\ snd.pos >= batch[1] /\ snd.pc \in {"eot", "done"}
           /\ AfterReceiverReads \in Seq(ToR) /\ NoneCounts(toSend) /\ NoneCounts(AfterReceiverReads)
<1>1. x \in ToR /\ AfterReceiverReads \in Seq(ToR) /\ NoneCounts(toSend) /\ NoneCounts(AfterReceiverReads)
  BY ReceiverHasRead, ByteKind DEF XInv
<1>2. ~Unsent /\ snd.pos >= batch[1] /\ snd.pc \in {"eot", "done"}
  BY <1>1, EotRead
<1>3. batch[1] \in Nat /\ Files = {1} /\ snd.pos \in Nat
  BY TheFile DEF XInv, XTypes, XSenders
<1>4. NoneSaved /\ HasTaken(snd.pos)
  <2>1. ~Ahead
    BY <1>2, <1>3 DEF Ahead
  <2>2. NoneSaved /\ Level
    BY <1>2, <2>1 DEF XInv, XReceiver
  <2> QED BY <1>3, <2>2 DEF Level
<1>5. PICK k \in Nat : snd.pos = BlockSize * k
  BY DEF XInv, XSender
<1>6. snd.pos < batch[1] + BlockSize
  BY DEF XInv, XSender
<1>7. Committed = Goods(1)
  BY <1>2, <1>3, <1>4, <1>5, <1>6, CommittedIsGoods DEF XInv, XTypes
<1> QED BY <1>1, <1>2, <1>3, <1>4, <1>7

LEMMA FinishStep ==
    ASSUME XInv, rcv.pc = "data", setting' = setting, snd' = snd,
           NEW x, ReceiverReads(x), XFinish(x)
    PROVE  XInv'
<1>1. CASE faults > 0 /\ ReceiverFails("Card")
  BY <1>1, ReceiverFailing DEF Endings
<1>2. CASE /\ saved' = [saved EXCEPT ![1] = Committed]
           /\ target' = Closed
           /\ XAnswer([rcv EXCEPT !.pc = "tail", !.tail = 0], "ACK", FALSE)
  <2>1. /\ NoneSaved /\ Committed = Goods(1) /\ Files = {1}
        /\ snd.pos >= batch[1] /\ snd.pc \in {"eot", "done"}
        /\ AfterReceiverReads \in Seq(ToR) /\ NoneCounts(toSend) /\ NoneCounts(AfterReceiverReads)
    BY FinishFacts DEF XFinish
  <2>2. saved' = [f \in Files |-> Goods(f)]
    BY <1>2, <2>1 DEF NoneSaved
  <2>3. AllSaved'
    BY <2>2, GoodsStay DEF AllSaved
  <2>4. rcv' = [rcv EXCEPT !.pc = "tail", !.tail = 0]
    BY <1>2 DEF XAnswer
  <2>5. rcv' \in XReceivers /\ rcv'.pc = "tail"
    BY <2>4 DEF XInv, XTypes, XReceivers, XReceiverPhases
  <2>6. toRecv' = AfterReceiverReads /\ ToSender(toSend, <<"ACK">>, FaultsAfter(FALSE))
    BY <1>2 DEF XAnswer
  <2>7. target' \in Targets
    <3>1. <<>> \in Seq(Units)
      OBVIOUS
    <3> QED BY <1>2, <3>1 DEF Closed, Targets
  <2>8. batch' = batch
    BY DEF setting
  <2>9. XReceiver'
    BY <2>1, <2>3, <2>5, <2>8 DEF XReceiver
  <2>10. snd.pc # "done" => Acked'
    BY <2>1, <2>3 DEF Acked
  <2> QED BY <2>1, <2>5, <2>6, <2>7, <2>9, <2>10, ReceiverAnswers
<1> QED BY <1>1, <1>2 DEF XFinish

LEMMA LineEndStep ==
    ASSUME XInv, rcv.pc = "data", setting' = setting, snd' = snd,
           NEW x, ReceiverReads(x), XLineEnd(x)
    PROVE  XInv'
<1> DEFINE w == rcv.waiting + 1
<1>1. w \in Nat
  BY DEF XInv, XTypes, XReceivers
<1>2. /\ rcv' = [rcv EXCEPT !.waiting = w] /\ toRecv' = AfterReceiverReads
      /\ toSend' = toSend /\ target' = target /\ saved' = saved
  BY DEF XLineEnd
<1> HIDE DEF w
<1>3. rcv' \in XReceivers /\ rcv'.pc = rcv.pc /\ rcv'.exp = rcv.exp
  BY <1>1, <1>2 DEF XInv, XTypes, XReceivers
<1>4. /\ AfterReceiverReads \in Seq(ToR) /\ AtMostOne(AfterReceiverReads)
      /\ NoneCounts(toSend) \/ NoneCounts(AfterReceiverReads)
  BY ReceiverHasRead DEF XInv
<1> QED BY <1>2, <1>3, <1>4, ReceiverListens

LEMMA ReceiveStep == XInv /\ XReceive => XInv'
<1> SUFFICES ASSUME XInv, XReceive PROVE XInv'
  OBVIOUS
<1>1. rcv.pc = "data" /\ setting' = setting /\ snd' = snd
  BY DEF XReceive
<1>2. PICK x : /\ ReceiverReads(x)
               /\ \/ XTakeBlock(x) \/ XRepeated(x) \/ XBad(x)
                  \/ XLineEnd(x) \/ XFinish(x)
                  \/ x.kind = "CAN" /\ ReceiverFails("Cancelled")
  BY DEF XReceive
<1>3. ReceiverFails("Cancelled") => XInv'
  BY <1>1, ReceiverFailing DEF Endings
<1> QED BY <1>1, <1>2, <1>3, TakeBlockStep, RepeatedStep, BadStep, LineEndStep, FinishStep


LEMMA TailStep == XInv /\ XTail => XInv'
<1> SUFFICES ASSUME XInv, XTail PROVE XInv'
  OBVIOUS
<1>1. rcv.pc = "tail" /\ rcv.pc # "done" /\ setting' = setting /\ snd' = snd
  BY DEF XTail
<1>2. PICK x : /\ ReceiverReads(x)
               /\ IF x.kind = "timeout" \/ (rcv.tail + 1 >= TailReads /\ x.kind # "EOT")
                  THEN ReceiverStops("None", toSend) /\ UNCHANGED <<saved, faults>>
                  ELSE IF x.kind = "EOT"
                  THEN /\ IF rcv.tail + 1 >= TailReads
                          THEN /\ ReceiverStops("None", Append(toSend, Byte("ACK")))
                               /\ UNCHANGED faults
                          ELSE /\ XAnswer([rcv EXCEPT !.tail = @ + 1], "ACK", FALSE)
                               /\ UNCHANGED target
                       /\ UNCHANGED saved
                  ELSE /\ rcv' = [rcv EXCEPT !.tail = @ + 1]
                       /\ toRecv' = AfterReceiverReads
                       /\ UNCHANGED <<toSend, target, saved, faults>>
  BY DEF XTail
<1>3. /\ AfterReceiverReads \in Seq(ToR) /\ AtMostOne(AfterReceiverReads)
      /\ x.kind \notin {"newline", "CAN"} => NoneCounts(toSend) /\ NoneCounts(AfterReceiverReads)
      /\ NoneCounts(toSend) \/ NoneCounts(AfterReceiverReads)
  BY <1>2, ReceiverHasRead DEF XInv
<1> DEFINE t == rcv.tail + 1
<1>4. t \in Nat
  BY DEF XInv, XTypes, XReceivers
<1>5. CASE ReceiverStops("None", toSend) /\ UNCHANGED saved
  BY <1>1, <1>5, ReceiverEnds DEF Endings
<1>6. CASE x.kind = "EOT" /\ ReceiverStops("None", Append(toSend, Byte("ACK"))) /\ UNCHANGED saved
  BY <1>1, <1>3, <1>6, ReceiverEnds DEF Endings
<1>7. CASE x.kind = "EOT" /\ XAnswer([rcv EXCEPT !.tail = t], "ACK", FALSE) /\ UNCHANGED <<target, saved>>
  <2>1. rcv' = [rcv EXCEPT !.tail = t]
    BY <1>7 DEF XAnswer
  <2>2. toRecv' = AfterReceiverReads /\ ToSender(toSend, <<"ACK">>, FaultsAfter(FALSE))
    BY <1>7 DEF XAnswer
  <2> HIDE DEF t
  <2>3. rcv' \in XReceivers /\ rcv'.pc = "tail" /\ rcv'.exp = rcv.exp
    BY <1>1, <1>4, <2>1 DEF XInv, XTypes, XReceivers
  <2>4. XReceiver' /\ target' \in Targets
    BY <1>1, <1>7, <2>3, ReceiverAsBefore DEF XInv, XTypes
  <2>5. snd.pc # "done" => Acked'
    <3>1. AllSaved' /\ snd.pc \in {"eot", "done"}
      BY <1>1, <1>7, GoodsStay DEF XInv, XReceiver
    <3> QED BY <1>1, <3>1 DEF Acked
  <2> QED BY <1>1, <1>3, <1>7, <2>2, <2>3, <2>4, <2>5, ReceiverAnswers
<1>8. CASE /\ rcv' = [rcv EXCEPT !.tail = t] /\ toRecv' = AfterReceiverReads
           /\ UNCHANGED <<toSend, target, saved, faults>>
  <2>1. rcv' = [rcv EXCEPT !.tail = t]
    BY <1>8
  <2> HIDE DEF t
  <2>3. rcv' \in XReceivers /\ rcv'.pc = rcv.pc /\ rcv'.exp = rcv.exp
    BY <1>4, <2>1 DEF XInv, XTypes, XReceivers
  <2> QED BY <1>1, <1>3, <1>8, <2>3, ReceiverListens
<1> QED BY <1>2, <1>5, <1>6, <1>7, <1>8

-----------------------------------------------------------------------------
(* Cancelling, and the cable.                                              *)

LEMMA SenderCancelledStep == XInv /\ SenderCancelled => XInv'
<1> SUFFICES ASSUME XInv, SenderCancelled PROVE XInv'
  OBVIOUS
<1>1. /\ snd.pc # "done" /\ setting' = setting /\ rcv' = rcv /\ target' = target /\ saved' = saved
      /\ snd' = [snd EXCEPT !.pc = "done", !.err = "Cancelled"] /\ toSend' = <<>>
      /\ toRecv' = IF Over(rcv) THEN <<>> ELSE Append(toRecv, Byte("CAN"))
  BY DEF SenderCancelled, Over
<1> QED BY <1>1, SenderEnds DEF Endings

LEMMA ReceiverCancelledStep == XInv /\ ReceiverCancelled => XInv'
<1> SUFFICES ASSUME XInv, ReceiverCancelled PROVE XInv'
  OBVIOUS
<1>1. rcv.pc # "done" /\ setting' = setting /\ snd' = snd /\ saved' = saved
  BY DEF ReceiverCancelled, Over
<1>2. ReceiverStops("None", toSend) \/ ReceiverStops("Cancelled", Append(toSend, Byte("CAN")))
  BY DEF ReceiverCancelled
<1> QED BY <1>1, <1>2, ReceiverEnds DEF Endings

LEMMA UnpluggedStep == XInv /\ Unplugged => XInv'
<1> SUFFICES ASSUME XInv, Unplugged PROVE XInv'
  OBVIOUS
<1>0. setting' = setting /\ saved' = saved /\ toSend' = <<>>
  BY DEF Unplugged
<1>1. /\ snd' \in XSenders /\ snd'.pc = "done" /\ snd'.err # "busy"
      /\ snd'.seq = snd.seq /\ snd'.pos = snd.pos
  <2>1. CASE Over(snd)
    BY <2>1 DEF Unplugged, XInv, XTypes, XSender, Over
  <2>2. CASE ~Over(snd)
    BY <2>2 DEF Unplugged, XInv, XTypes, XSenders, SenderPhases, Endings
  <2> QED BY <2>1, <2>2
<1>2. /\ rcv' \in XReceivers /\ target' \in Targets /\ rcv'.pc = "done" /\ toRecv' = <<>>
  <2>1. CASE Over(rcv)
    BY <2>1 DEF Unplugged, XInv, XTypes, Over
  <2>2. CASE ~Over(rcv)
    <3>1. <<>> \in Seq(Units)
      OBVIOUS
    <3>2. ReceiverStops(IF rcv.pc = "tail" THEN "None" ELSE "Disconnected", <<>>)
      BY <2>2 DEF Unplugged
    <3>3. \A e \in Endings : [rcv EXCEPT !.pc = "done", !.err = e] \in XReceivers
      BY DEF XInv, XTypes, XReceivers, XReceiverPhases
    <3> QED BY <3>1, <3>2, <3>3 DEF ReceiverStops, Targets, Endings, XInv, XTypes, XReceivers
  <2> QED BY <2>1, <2>2
<1>3. XTypes'
  BY <1>0, <1>1, <1>2, TypesStay DEF XInv
<1>4. batch' = batch
  BY <1>0 DEF setting
<1>5. XSender'
  BY <1>1, <1>4 DEF XInv, XSender
<1>6. (NoneSaved' <=> NoneSaved) /\ (AllSaved' <=> AllSaved)
  BY <1>0, GoodsStay
<1>7. XReceiver'
  BY <1>2, <1>6 DEF XInv, XReceiver, XTypes, XReceivers, XReceiverPhases
<1>8. XQueues'
  BY <1>0, <1>2, EmptyQueue, Nothing0 DEF XQueues, AtMostOne, NoneCounts
<1> QED BY <1>3, <1>5, <1>7, <1>8 DEF XInv

-----------------------------------------------------------------------------
(* The invariant.                                                          *)

LEMMA XmodemStarts == TransferInit /\ proto = "xmodem" /\ ~harsh => XInv
<1> SUFFICES ASSUME TransferInit, proto = "xmodem", ~harsh PROVE XInv
  OBVIOUS
<1>1. PICK s \in Sizes : batch = <<s>>
  BY DEF TransferInit, Batches
<1>2. batch[1] \in Nat /\ batch[1] >= 0
  BY <1>1, LineConstants
<1>3. XTypes
  <2>1. <<>> \in Seq(Units)
    OBVIOUS
  <2> QED BY <1>1, <2>1, FirstNumber DEF TransferInit, XTypes, XSenders, XReceivers,
             SenderPhases, XReceiverPhases, Endings, Targets, Opened
<1>4. XSender
  <2>1. 0 = BlockSize * 0 /\ 0 < batch[1] + BlockSize
    BY <1>2, LineConstants
  <2> QED BY <2>1 DEF TransferInit, XSender, Unsent
<1>5. XReceiver
  BY DEF TransferInit, XReceiver, NoneSaved, Unsent, HasTaken, Opened, Files
<1>6. XQueues
  <2>1. <<Byte("newline")>> \in Seq(ToR) /\ <<Byte("C")>> \in Seq(ToS)
    BY DEF ToR, Framing, ToS
  <2>2. AtMostOne(<<Byte("C")>>) /\ AtMostOne(<<Byte("newline")>>) /\ NoneCounts(<<Byte("newline")>>)
    BY ByteKind DEF AtMostOne, NoneCounts, Counts
  <2> QED BY <2>1, <2>2, EmptyQueue, Nothing0 DEF TransferInit, XQueues
<1> QED BY <1>3, <1>4, <1>5, <1>6 DEF XInv

LEMMA OnlyXmodem ==
    ASSUME XInv
    PROVE  /\ Sending => XSendStart \/ XSendBlock \/ XSendEnd
           /\ Receiving => XReceive \/ XTail
<1>1. proto # "ymodem"
  BY DEF XInv, XTypes
<1>2. ~(YSendStart \/ YSendHeader \/ YSendRequested \/ YSendBlock \/ YSendEot \/ YSendNext \/ YSendLast)
  BY <1>1 DEF YSendStart, YSendHeader, YSendRequested, YSendBlock, YSendEot, YSendNext, YSendLast,
              YAcked, YNotAcked, YAsked, YNotAsked
<1>3. ~(YReceiveHeader \/ YReceiveData \/ YGrace)
  BY <1>1 DEF YReceiveHeader, YReceiveData, YGrace
<1> QED BY <1>2, <1>3 DEF Sending, Receiving

LEMMA XmodemStep == XInv /\ [TransferNext]_tvars => XInv'
<1> SUFFICES ASSUME XInv, [TransferNext]_tvars PROVE XInv'
  OBVIOUS
<1>1. CASE UNCHANGED tvars
  <2>1. /\ setting' = setting /\ snd' = snd /\ rcv' = rcv /\ target' = target /\ saved' = saved
        /\ toSend' = toSend /\ toRecv' = toRecv /\ batch' = batch
    BY <1>1 DEF tvars, setting
  <2>2. XTypes' /\ XSender' /\ XReceiver'
    BY <2>1, TypesStay, SenderKept, ReceiverAsBefore DEF XInv, XTypes
  <2>3. ToR' = ToR
    BY <2>1, SenderKept
  <2>4. ToS' = ToS
    BY <2>1, ReceiverAsBefore, GoodsStay DEF ToS, Acked, Byte
  <2>5. XQueues'
    BY <2>1, <2>3, <2>4 DEF XInv, XQueues, AtMostOne, NoneCounts
  <2> QED BY <2>2, <2>5 DEF XInv
<1>2. CASE Sending
  BY <1>2, OnlyXmodem, SendStartStep, SendBlockStep, SendEndStep
<1>3. CASE Receiving
  BY <1>3, OnlyXmodem, ReceiveStep, TailStep
<1>4. CASE Trouble
  BY <1>4, SenderCancelledStep, ReceiverCancelledStep, UnpluggedStep DEF Trouble
<1> QED BY <1>1, <1>2, <1>3, <1>4 DEF TransferNext


(* What a step is to the two users: nothing, the sender's report, or the   *)
(* delivery of the file.                                                   *)
Unseen == saved' = saved /\ snd'.err = snd.err
Told ==
    /\ saved' = saved /\ snd.err = "busy"
    /\ snd'.err \in {"None", "Cancelled", "Disconnected", "Gave up", "Card"}
    /\ snd'.err = "None" => AllSaved
Delivered == snd' = snd /\ NoneSaved /\ AllSaved'

LEMMA SenderTells ==
    ASSUME XInv, saved' = saved, snd.pc # "done",
           \/ \E s \in XSenders : \E q, n : s.err = snd.err /\ XOffer(s, q, n)
           \/ \E e \in Endings \ {"busy", "None"} : SenderFails(e)
           \/ \E q : SenderStops("None", q) /\ AllSaved
           \/ snd' = [snd EXCEPT !.tries = @ + 1]
    PROVE  Unseen \/ Told
<1>1. snd.err = "busy" /\ snd \in XSenders
  BY DEF XInv, XTypes, XSender
<1>2. ASSUME NEW s \in XSenders, NEW q, NEW n, s.err = snd.err, XOffer(s, q, n)
      PROVE  Unseen
  <2>1. \A p : [s EXCEPT !.pc = p, !.tries = 1].err = s.err
    BY DEF XSenders
  <2> QED BY <1>2, <2>1 DEF XOffer, Unseen
<1>3. \A e : [snd EXCEPT !.pc = "done", !.err = e].err = e
  BY <1>1 DEF XSenders
<1>4. ASSUME NEW e \in Endings \ {"busy", "None"}, SenderFails(e)
      PROVE  Told
  <2>1. snd'.err = e
    BY <1>3, <1>4 DEF SenderFails, SenderStops
  <2> QED BY <1>1, <2>1 DEF Told, Endings
<1>5. ASSUME NEW q, SenderStops("None", q), AllSaved
      PROVE  Told
  <2>1. snd'.err = "None"
    BY <1>3, <1>5 DEF SenderStops
  <2> QED BY <1>1, <1>5, <2>1 DEF Told
<1>6. CASE snd' = [snd EXCEPT !.tries = @ + 1]
  <2>1. \A t : [snd EXCEPT !.tries = t].err = snd.err
    BY <1>1 DEF XSenders
  <2> QED BY <1>6, <2>1 DEF Unseen
<1> QED BY <1>2, <1>4, <1>5, <1>6

LEMMA SendingIsCopying ==
    ASSUME XInv, XSendStart \/ XSendBlock \/ XSendEnd
    PROVE  Unseen \/ Told
<1>0. saved' = saved /\ snd.pc # "done" /\ snd \in XSenders
  BY DEF XSendStart, XSendBlock, XSendEnd, XInv, XTypes
<1> DEFINE Sent == \E s \in XSenders : \E q, n : s.err = snd.err /\ XOffer(s, q, n)
           Failed == \E e \in Endings \ {"busy", "None"} : SenderFails(e)
           Stopped == \E q : SenderStops("None", q) /\ AllSaved
           Tried == snd' = [snd EXCEPT !.tries = @ + 1]
<1>1. \A e \in {"Card", "Cancelled", "Gave up"} : SenderFails(e) => Failed
  BY DEF Endings
<1>2. CASE XSendStart
  <2>1. [snd EXCEPT !.seq = NextSeq(0)] \in XSenders /\ [snd EXCEPT !.seq = NextSeq(0)].err = snd.err
    BY <1>0, FirstNumber DEF XSenders
  <2>2. XOffer([snd EXCEPT !.seq = NextSeq(0)], toRecv, faults) => Sent
    BY <2>1
  <2>3. \/ XOffer([snd EXCEPT !.seq = NextSeq(0)], toRecv, faults)
        \/ \E e \in {"Card", "Cancelled", "Gave up"} : SenderFails(e)
        \/ Tried
    BY <1>2 DEF XSendStart, XSourceFails
  <2> HIDE DEF Sent, Failed, Stopped, Tried
  <2>4. Sent \/ Failed \/ Tried
    BY <1>1, <2>2, <2>3
  <2> QED BY <1>0, <2>4, SenderTells DEF Sent, Failed, Stopped, Tried
<1>3. CASE XSendBlock
  <2> DEFINE moved == [snd EXCEPT !.seq = NextSeq(@), !.pos = @ + BlockSize]
  <2>1. moved \in XSenders /\ moved.err = snd.err
    <3> DEFINE q == NextSeq(snd.seq)
               p == snd.pos + BlockSize
    <3>1. snd.seq \in 0..(SeqMod - 1) /\ snd.pos \in Nat
      BY <1>0 DEF XSenders
    <3>2. q \in 0..(SeqMod - 1) /\ p \in Nat
      BY <3>1, NumbersTurn, LineConstants
    <3>3. moved = [snd EXCEPT !.seq = q, !.pos = p]
      OBVIOUS
    <3> HIDE DEF q, p, moved
    <3> QED BY <1>0, <3>2, <3>3 DEF XSenders
  <2>2. XOffer(moved, toRecv, faults) => Sent
    BY <2>1
  <2>3. \/ XOffer(moved, toRecv, faults)
        \/ \E e \in {"Card", "Cancelled", "Gave up"} : SenderFails(e)
        \/ Tried
    BY <1>3 DEF XSendBlock, XSourceFails
  <2> HIDE DEF Sent, Failed, Stopped, Tried, moved
  <2>4. Sent \/ Failed \/ Tried
    BY <1>1, <2>2, <2>3
  <2> QED BY <1>0, <2>4, SenderTells DEF Sent, Failed, Stopped, Tried
<1>4. CASE XSendEnd
  <2>1. PICK c : /\ SenderReads(c)
                 /\ \/ c = "ACK" /\ SenderStops("None", toRecv)
                    \/ \E e \in {"Card", "Cancelled", "Gave up"} : SenderFails(e)
                    \/ Tried
    BY <1>4 DEF XSendEnd
  <2>2. c = "ACK" => AllSaved
    BY <1>4, <2>1, SenderHasRead DEF XInv, Acked, XSendEnd
  <2>3. SenderStops("None", toRecv) /\ AllSaved => Stopped
    OBVIOUS
  <2> HIDE DEF Sent, Failed, Stopped, Tried
  <2>4. Stopped \/ Failed \/ Tried
    BY <1>1, <2>1, <2>2, <2>3
  <2> QED BY <1>0, <2>4, SenderTells DEF Sent, Failed, Stopped, Tried
<1> QED BY <1>2, <1>3, <1>4

LEMMA ReceivingIsCopying ==
    ASSUME XInv, XReceive \/ XTail
    PROVE  Unseen \/ Delivered
<1>0. snd' = snd /\ setting' = setting
  BY DEF XReceive, XTail
<1>1. CASE saved' = saved
  BY <1>0, <1>1 DEF Unseen
<1>2. CASE XTail
  BY <1>1, <1>2 DEF XTail
<1>3. CASE XReceive
  <2>1. PICK x : /\ ReceiverReads(x)
                 /\ \/ XTakeBlock(x) \/ XRepeated(x) \/ XBad(x)
                    \/ XLineEnd(x) \/ XFinish(x)
                    \/ x.kind = "CAN" /\ ReceiverFails("Cancelled")
    BY <1>3 DEF XReceive
  <2>2. CASE /\ x.kind = "EOT" /\ saved' = [saved EXCEPT ![1] = Committed]
    <3>1. NoneSaved /\ Committed = Goods(1) /\ Files = {1}
      BY <1>3, <2>1, <2>2, FinishFacts DEF XReceive
    <3>2. saved' = [f \in Files |-> Goods(f)]
      BY <2>2, <3>1 DEF NoneSaved
    <3>3. AllSaved'
      BY <1>0, <3>2, GoodsStay DEF AllSaved
    <3> QED BY <1>0, <3>1, <3>3 DEF Delivered
  <2>3. saved' = saved \/ (x.kind = "EOT" /\ saved' = [saved EXCEPT ![1] = Committed])
    BY <2>1 DEF XTakeBlock, XRepeated, XBad, XLineEnd, XFinish, ReceiverFails
  <2> QED BY <1>1, <2>2, <2>3
<1> QED BY <1>2, <1>3

LEMMA TroubleIsCopying ==
    ASSUME XInv, Trouble
    PROVE  Unseen \/ Told
<1>1. saved' = saved /\ snd \in XSenders /\ (snd.pc # "done" => snd.err = "busy")
  BY DEF Trouble, SenderCancelled, ReceiverCancelled, Unplugged, XInv, XTypes, XSender
<1>2. \A e : [snd EXCEPT !.pc = "done", !.err = e].err = e
  BY <1>1 DEF XSenders
<1>3. CASE snd' = snd
  BY <1>1, <1>3 DEF Unseen
<1>4. CASE ~Over(snd) /\ \E e \in {"Cancelled", "Disconnected"} : snd' = [snd EXCEPT !.pc = "done", !.err = e]
  <2>1. snd'.err \in {"Cancelled", "Disconnected"}
    BY <1>2, <1>4
  <2> QED BY <1>1, <1>4, <2>1 DEF Told, Over
<1>5. \/ snd' = snd
      \/ ~Over(snd) /\ \E e \in {"Cancelled", "Disconnected"} : snd' = [snd EXCEPT !.pc = "done", !.err = e]
  BY DEF Trouble, SenderCancelled, ReceiverCancelled, Unplugged
<1> QED BY <1>3, <1>4, <1>5

(* A step of the transfer is a step of the file copy, or none.             *)
LEMMA XmodemCopying ==
    ASSUME XInv, [TransferNext]_tvars
    PROVE  [Copy!Copying]_(Copy!cvars)
<1>1. setting' = setting
  BY OnlyXmodem
     DEF TransferNext, Trouble, SenderCancelled, ReceiverCancelled, Unplugged, XSendStart,
         XSendBlock, XSendEnd, XReceive, XTail, tvars
<1>2. Unseen \/ Told \/ Delivered
  BY OnlyXmodem, SendingIsCopying, ReceivingIsCopying, TroubleIsCopying
     DEF TransferNext, tvars, Unseen
<1> DEFINE goods == [f \in Files |-> Goods(f)]
           steady == ~harsh /\ Len(batch) = 1 /\ batch[1] > 0
<1>3. goods' = goods
  BY <1>1, GoodsStay
<1>4. steady' = steady
  BY <1>1 DEF setting
<1>5. CASE Unseen
  <2> HIDE DEF goods, steady
  <2> QED BY <1>3, <1>4, <1>5 DEF Unseen, Copy!cvars, goods, steady
<1>6. CASE Told
  <2>1. saved' = saved /\ snd.err = "busy"
    BY <1>6 DEF Told
  <2>2. PICK answer \in {"None", "Cancelled", "Disconnected", "Gave up", "Card"} : snd'.err = answer
    BY <1>6 DEF Told
  <2>3. answer = "None" => saved = goods
    BY <1>6, <2>2 DEF Told, AllSaved
  <2>4. Copy!Report(answer)
    BY <1>3, <1>4, <2>1, <2>2, <2>3 DEF Copy!Report
  <2> QED BY <2>4 DEF Copy!Copying
<1>7. CASE Delivered
  <2>1. Files = {1} /\ saved = [f \in Files |-> Untouched]
    BY <1>7, TheFile DEF Delivered, NoneSaved, XInv
  <2>2. saved' = goods
    BY <1>3, <1>7 DEF Delivered, AllSaved
  <2>3. saved[1] = Untouched /\ saved' = [saved EXCEPT ![1] = goods[1]]
    BY <2>1, <2>2
  <2>4. snd'.err = snd.err /\ 1..(1 - 1) = {}
    BY <1>7 DEF Delivered
  <2>5. Copy!Deliver(1)
    BY <1>3, <1>4, <2>3, <2>4 DEF Copy!Deliver
  <2>6. 1 \in DOMAIN goods
    BY <2>1
  <2> QED BY <2>5, <2>6 DEF Copy!Copying
<1> QED BY <1>2, <1>5, <1>6, <1>7

LEMMA XmodemBegins ==
    ASSUME TransferInit
    PROVE  Copy!Begin
<1>1. DOMAIN [f \in Files |-> Goods(f)] = Files
  OBVIOUS
<1> QED BY <1>1 DEF TransferInit, Copy!Begin, Files

(* CopySpec, for XMODEM: whatever is lost, damaged, repeated or cancelled, *)
(* what receive() commits is the file that send() was given (with its      *)
(* padding where the file is no BASIC text), once; and a send() that       *)
(* answers NONE has seen it committed.  For files of any size, blocks of   *)
(* any size, any number of faults, sequence numbers of any width.          *)
THEOREM XmodemCopies ==
    TransferSpec /\ proto = "xmodem" /\ ~harsh => CopySpec
<1>1. TransferInit /\ proto = "xmodem" /\ ~harsh => XInv /\ Copy!Begin
  BY XmodemStarts, XmodemBegins
<1>2. XInv /\ [TransferNext]_tvars => XInv' /\ [Copy!Copying]_(Copy!cvars)
  BY XmodemStep, XmodemCopying
<1> QED BY <1>1, <1>2, PTL DEF TransferSpec, CopySpec, Copy!Spec
=============================================================================
