----------------------------- MODULE AudioOutput -----------------------------
(***************************************************************************)
(* Sound (src/platform/picocalc/audio.cpp): the foreground renders a       *)
(* source into a ring of buffers, the PWM wrap interrupt plays them word by*)
(* word, ramps the bias of the output up before the first word and down    *)
(* before the output is switched off.  A file holds the storage lease      *)
(* while it plays, an MP3 also a faster CPU clock.                         *)
(*                                                                         *)
(* The interrupt may come between any two steps of the foreground but not  *)
(* inside start_ready_pwm() and reset_output(), which disable it.  What is *)
(* rendered at once is a block; blocks are numbered modulo BlockNumbers.   *)
(***************************************************************************)
EXTENDS Integers

CONSTANTS Buffers,  \* kBufferCount (6)
          Words,    \* kPwmWordsPerBuffer (2048)
          Wraps,    \* kPwmBiasRampWraps (4410); the bias level counts up to it
          Lengths,  \* lengths of sounds, in blocks
          MaxAsks,  \* requests of the user and the program
          Clocks,   \* the profiles below 200 MHz
          Disturb   \* the user changes the clock or starts a radio while
                    \* an MP3 has the clock raised

ASSUME AudioAssumption ==
    /\ {Buffers, Words, Wraps} \subseteq Nat \ {0} /\ MaxAsks \in Nat
    /\ Lengths \subseteq Nat \ {0} /\ Clocks \subseteq 75..150 /\ Disturb \in BOOLEAN

VARIABLES
    source,   \* what is rendered
    paused,   \* wav_paused, or the engine's paused_
    left,     \* blocks the source still has
    file,     \* the file is open and holds the storage lease
    click,    \* a key click is to be mixed in
    buf,      \* buffer_state
    pwm,      \* the block in each buffer
    producer, consumer, \* buffer_order
    playing,  \* playing_buffer
    word,     \* playing_word
    irq,      \* pwm_irq_active
    out,      \* output_enabled and pwm_running
    bias, level, step, \* pwm_bias_state, _level, _step
    idle,     \* idle_power_off_pending: "no", "yes" or "over"
    card,     \* the card is there and belongs to the firmware
    clock, boost, before, \* the CPU clock, cpu_boost_active, its old value
    chosen,   \* the profile the user selected last
    radio,    \* wireless::initialized(): PLL_SYS has to stay as it is
    fore,     \* the foreground's place in audio_service()
    filled,   \* buffers it has filled
    made,     \* the block rendered last
    heard,    \* block and word the output played last
    asks

pwmRing == <<buf, pwm, producer, consumer, playing, word>>
output == <<irq, out, bias, level, step, idle>>
cpu == <<clock, boost, before, chosen, radio>>
sound == <<source, paused, left, file, click>>
avars == <<pwmRing, output, cpu, sound, card, fore, filled, made, heard, asks>>

Slots == 0..(Buffers - 1)
BlockNumbers == 2 * Buffers + 2
NextBlock(b) == (b + 1) % BlockNumbers
FileSources == {"Wav", "Mp3"}
NoSlot == -1

AudioInit ==
    /\ source = "None" /\ paused = FALSE /\ left = 0 /\ file = FALSE /\ click = FALSE
    /\ buf = [s \in Slots |-> "Free"] /\ pwm = [s \in Slots |-> 0]
    /\ producer = 0 /\ consumer = 0 /\ playing = NoSlot /\ word = 0
    /\ irq = FALSE /\ out = FALSE /\ bias = "Steady" /\ level = 0 /\ step = 0 /\ idle = "no"
    /\ card = TRUE
    /\ clock = 150 /\ boost = FALSE /\ before = 150 /\ chosen = 150 /\ radio = FALSE
    /\ fore = "rest" /\ filled = 0
    /\ made = 0 /\ heard = [block |-> 0, word |-> Words - 1]
    /\ asks = 0

-----------------------------------------------------------------------------
(* The interrupt.                                                          *)

(* activate_next_buffer()                                                  *)
CanActivate == playing # NoSlot \/ buf[consumer] = "Ready"

(* Wrong: the lowest ready buffer instead of the next one.                 *)
ActivatedLowest ==
    IF playing # NoSlot THEN [s |-> playing, c |-> consumer, w |-> word]
    ELSE [s |-> CHOOSE s \in Slots : buf[s] = "Ready" /\ \A t \in 0..(s - 1) : buf[t] # "Ready",
          c |-> (consumer + 1) % Buffers, w |-> 0]

Activated ==
    IF playing # NoSlot THEN [s |-> playing, c |-> consumer, w |-> word]
    ELSE [s |-> consumer, c |-> (consumer + 1) % Buffers, w |-> 0]

Toward(from, to) == IF to > from THEN from..to ELSE to..from

(* The ramp moves to its end and is there at its last wrap.                *)
Ramp ==
    /\ bias \in {"Rising", "Falling"}
    /\ LET end == IF bias = "Rising" THEN Wraps ELSE 0 IN
       IF step + 1 = Wraps
       THEN /\ level' = end /\ step' = 0
            /\ bias' = IF bias = "Rising" THEN "SettlingUp" ELSE "SettlingDown"
       ELSE /\ level' \in Toward(level, end) /\ step' = step + 1
            /\ UNCHANGED bias
    /\ UNCHANGED <<pwmRing, irq, out, idle, heard>>

Settle ==
    /\ \/ /\ bias = "SettlingUp"
          /\ bias' = "Steady"
          /\ UNCHANGED <<step, irq>>
       \/ /\ bias = "SettlingDown"
          /\ step' = step + 1
          /\ IF step + 1 = 2 THEN bias' = "OffReady" /\ irq' = FALSE
             ELSE UNCHANGED <<bias, irq>>
    /\ UNCHANGED <<pwmRing, out, level, idle, heard>>

PlayWord ==
    /\ bias \in {"Steady", "OffReady"} /\ CanActivate
    /\ LET a == Activated IN
       /\ heard' = [block |-> pwm[a.s], word |-> a.w]
       /\ consumer' = a.c
       /\ IF a.w + 1 = Words
          THEN buf' = [buf EXCEPT ![a.s] = "Free"] /\ playing' = NoSlot /\ word' = 0
          ELSE buf' = [buf EXCEPT ![a.s] = "Playing"] /\ playing' = a.s /\ word' = a.w + 1
    /\ UNCHANGED <<pwm, producer, output>>

(* Wrong: the idle interrupt stays on.                                     *)
UnderrunStaysOn ==
    /\ bias \in {"Steady", "OffReady"} /\ ~CanActivate
    /\ level' = Wraps
    /\ UNCHANGED <<pwmRing, irq, out, bias, step, idle, heard>>

(* Nothing to play: the output rests at its centre, and without a source   *)
(* the interrupt turns itself off.                                         *)
Underrun ==
    /\ bias \in {"Steady", "OffReady"} /\ ~CanActivate
    /\ level' = Wraps
    /\ irq' = (source # "None")
    /\ UNCHANGED <<pwmRing, out, bias, step, idle, heard>>

PwmWrap ==
    /\ irq /\ out
    /\ Ramp \/ Settle \/ PlayWord \/ Underrun
    /\ UNCHANGED <<cpu, sound, card, fore, filled, made, asks>>

-----------------------------------------------------------------------------
(* Switching the output.                                                   *)

(* start_ready_pwm()                                                       *)
StartReady ==
    IF ~CanActivate THEN UNCHANGED <<buf, consumer, playing, word, output>>
    ELSE LET a == Activated
             rising == ~out \/ bias \in {"Falling", "SettlingDown", "OffReady"} IN
         /\ buf' = [buf EXCEPT ![a.s] = "Playing"]
         /\ consumer' = a.c /\ playing' = a.s /\ word' = a.w
         /\ idle' = "no" /\ out' = TRUE /\ irq' = TRUE
         /\ level' = IF out THEN level ELSE 0
         /\ bias' = IF rising THEN "Rising" ELSE bias
         /\ step' = IF rising THEN 0 ELSE step

(* reset_output()                                                          *)
ResetOutput ==
    /\ buf' = [s \in Slots |-> "Free"]
    /\ producer' = 0 /\ consumer' = 0 /\ playing' = NoSlot /\ word' = 0
    /\ irq' = FALSE /\ out' = FALSE /\ bias' = "Steady" /\ level' = 0 /\ step' = 0
    /\ idle' = "no"
    /\ heard' = [block |-> made, word |-> Words - 1]
    /\ UNCHANGED pwm

(* set_cpu_clock_mhz(): entering and leaving 200 MHz reprograms PLL_SYS,   *)
(* which is refused while the radio is initialized.                        *)
ClockCanBe(m) == (m = 200) # (clock = 200) => ~radio

(* release_cpu_boost(): the flag is dropped whether or not the clock can   *)
(* be put back.                                                            *)
ReleaseBoost ==
    /\ boost' = FALSE
    /\ clock' = IF boost /\ ClockCanBe(before) THEN before ELSE clock
    /\ UNCHANGED <<before, chosen, radio>>

(* audio_stop(), but for the clock.                                        *)
Silenced ==
    /\ click' = FALSE /\ paused' = FALSE
    /\ ResetOutput
    /\ filled' = 0
    /\ UNCHANGED made

Ended == source' = "None" /\ left' = 0 /\ file' = FALSE

-----------------------------------------------------------------------------
(* audio_service()                                                         *)

Service ==
    /\ fore = "rest"
    /\ \/ /\ source \in FileSources /\ ~card
          /\ Ended /\ Silenced /\ ReleaseBoost
          /\ UNCHANGED fore
       \/ /\ source = "None" /\ ~click
          /\ StartReady
          /\ fore' = "idle"
          /\ UNCHANGED <<pwm, producer, cpu, sound, filled, made, heard>>
       \/ /\ source # "None" \/ click
          /\ source \in FileSources => card
          /\ fore' = "fill" /\ filled' = 0
          /\ idle' = "no"
          /\ UNCHANGED <<pwmRing, irq, out, bias, level, step, cpu, sound, made, heard>>
    /\ UNCHANGED <<card, asks>>

(* Nothing sounds any more: after ten quiet seconds the bias goes down,    *)
(* and when it is down the output is switched off.                         *)
Idle ==
    /\ fore = "idle"
    /\ fore' = "rest"
    /\ IF playing # NoSlot \/ (\E s \in Slots : buf[s] = "Ready") \/ irq
       THEN UNCHANGED <<pwmRing, output, cpu, heard>>
       ELSE IF ~out THEN ReleaseBoost /\ UNCHANGED <<pwmRing, output, heard>>
       ELSE IF bias = "OffReady" THEN ResetOutput /\ ReleaseBoost
       ELSE IF idle = "no"
       THEN idle' = "yes" /\ UNCHANGED <<pwmRing, irq, out, bias, level, step, cpu, heard>>
       ELSE IF idle = "over"
       THEN /\ bias' = "Falling" /\ step' = 0 /\ irq' = TRUE
            /\ UNCHANGED <<pwmRing, out, level, idle, cpu, heard>>
       ELSE UNCHANGED <<pwmRing, output, cpu, heard>>
    /\ UNCHANGED <<sound, card, filled, made, asks>>

TimePasses ==
    /\ idle = "yes"
    /\ idle' = "over"
    /\ UNCHANGED <<pwmRing, irq, out, bias, level, step, cpu, sound, card, fore, filled, made,
                   heard, asks>>

(* What render() can answer for the next block: whether the source goes on *)
(* and whether the block holds any sound.  A file that breaks off ends     *)
(* like one that is over.                                                  *)
Rendered ==
    LET on(n) == [active |-> TRUE, audible |-> TRUE, n |-> n]
        over(a) == [active |-> FALSE, audible |-> a, n |-> 0]
    IN  IF paused /\ (left > 0 \/ source = "Synth") THEN {on(left)}
        ELSE IF left = 0 THEN {over(FALSE)}
        ELSE {on(left - 1)}
             \union IF left = 1 \/ source \in FileSources THEN {over(TRUE), over(FALSE)} ELSE {}

(* Wrong: the file of a sound that is over stays open.                     *)
FillKeepsFile ==
    /\ fore = "fill"
    /\ IF (source = "None" /\ ~click) \/ buf[producer] # "Free" \/ filled = Buffers
       THEN fore' = "start" /\ UNCHANGED <<pwm, sound, made>>
       ELSE \E r \in IF source = "None" THEN {[active |-> TRUE, audible |-> TRUE, n |-> left]}
                     ELSE Rendered :
            /\ click' = FALSE
            /\ left' = r.n
            /\ IF source # "None" /\ ~r.active THEN source' = "None" /\ UNCHANGED file
               ELSE UNCHANGED <<source, file>>
            /\ IF r.active \/ r.audible
               THEN /\ made' = NextBlock(made)
                    /\ pwm' = [pwm EXCEPT ![producer] = made']
                    /\ fore' = "mark"
               ELSE fore' = "start" /\ UNCHANGED <<pwm, made>>
            /\ UNCHANGED paused
    /\ UNCHANGED <<buf, producer, consumer, playing, word, output, cpu, card, filled, heard, asks>>

(* fill_buffer() up to the moment the buffer is marked.                    *)
Fill ==
    /\ fore = "fill"
    /\ IF (source = "None" /\ ~click) \/ buf[producer] # "Free" \/ filled = Buffers
       THEN fore' = "start" /\ UNCHANGED <<pwm, sound, made>>
       ELSE \E r \in IF source = "None" THEN {[active |-> TRUE, audible |-> TRUE, n |-> left]}
                     ELSE Rendered :
            /\ click' = FALSE
            /\ left' = r.n
            /\ IF source # "None" /\ ~r.active THEN source' = "None" /\ file' = FALSE
               ELSE UNCHANGED <<source, file>>
            /\ IF r.active \/ r.audible
               THEN /\ made' = NextBlock(made)
                    /\ pwm' = [pwm EXCEPT ![producer] = made']
                    /\ fore' = "mark"
               ELSE fore' = "start" /\ UNCHANGED <<pwm, made>>
            /\ UNCHANGED paused
    /\ UNCHANGED <<buf, producer, consumer, playing, word, output, cpu, card, filled, heard, asks>>

MarkReady ==
    /\ fore = "mark"
    /\ buf' = [buf EXCEPT ![producer] = "Ready"]
    /\ fore' = "advance"
    /\ UNCHANGED <<pwm, producer, consumer, playing, word, output, cpu, sound, card, filled, made,
                   heard, asks>>

AdvanceProducer ==
    /\ fore = "advance"
    /\ producer' = (producer + 1) % Buffers
    /\ filled' = filled + 1
    /\ fore' = "fill"
    /\ UNCHANGED <<buf, pwm, consumer, playing, word, output, cpu, sound, card, made, heard, asks>>

Start ==
    /\ fore = "start"
    /\ StartReady
    /\ fore' = "rest"
    /\ UNCHANGED <<pwm, producer, cpu, sound, card, filled, made, heard, asks>>

-----------------------------------------------------------------------------
(* The requests.  Each plays from a fresh start, because audio_stop() goes *)
(* first.                                                                  *)

Asked == fore = "rest" /\ asks < MaxAsks /\ asks' = asks + 1

Stop ==
    /\ Asked
    /\ Ended /\ Silenced /\ ReleaseBoost
    /\ UNCHANGED <<card, fore>>

(* audio_beep(), audio_play_mml() and the diagnostic tone; refused, they   *)
(* still have stopped what played.                                         *)
PlayTone(kind) ==
    /\ Asked
    /\ Silenced /\ ReleaseBoost
    /\ file' = FALSE
    /\ \/ source' = kind /\ left' \in Lengths /\ fore' = "fill"
       \/ kind = "Synth" /\ source' = "None" /\ left' = 0 /\ UNCHANGED fore
    /\ UNCHANGED card

(* audio_wavplay() refuses: no card, the lease taken, no such file, not a  *)
(* WAV or MP3 it can play.  For an MP3 the clock was raised and goes back. *)
FileRefused ==
    /\ Asked
    /\ Ended /\ Silenced /\ ReleaseBoost
    /\ UNCHANGED <<card, fore>>

PlayWav ==
    /\ Asked /\ card
    /\ Silenced /\ ReleaseBoost
    /\ source' = "Wav" /\ left' \in Lengths /\ file' = TRUE /\ fore' = "fill"
    /\ UNCHANGED card

(* The clock the MP3 finds is the one audio_stop() has left.               *)
PlayMp3 ==
    /\ Asked /\ card
    /\ Silenced
    /\ LET found == IF boost /\ ClockCanBe(before) THEN before ELSE clock
           fast == IF found = 200 THEN found
                   ELSE IF ~radio THEN 200 ELSE IF found < 150 THEN 150 ELSE found
       IN clock' = fast /\ boost' = (fast # found) /\ before' = found
    /\ source' = "Mp3" /\ left' \in Lengths /\ file' = TRUE /\ fore' = "fill"
    /\ UNCHANGED <<card, chosen, radio>>

Pause(on) ==
    /\ Asked
    /\ source \in {"Synth", "Wav", "Mp3"}
    /\ paused' = on
    /\ UNCHANGED <<pwmRing, output, cpu, source, left, file, click, card, fore, filled, made, heard>>

KeyClick ==
    /\ Asked
    /\ click' = TRUE
    /\ fore' = IF source \in FileSources /\ ~card THEN "rest" ELSE "fill"
    /\ filled' = 0 /\ idle' = "no"
    /\ UNCHANGED <<pwmRing, irq, out, bias, level, step, cpu, source, paused, left, file, card, made,
                   heard>>

(* The card is pulled or handed to USB, or comes back.                     *)
CardMoves ==
    /\ Asked
    /\ card' = ~card
    /\ UNCHANGED <<pwmRing, output, cpu, sound, fore, filled, made, heard>>

(* Control Center -> Power / CPU.  A radio in the way is shut down and     *)
(* restarted around the change; audio_reconfigure_clock() stops the sound  *)
(* and with it releases the boost.                                         *)
SelectClock(m) ==
    /\ Asked
    /\ Disturb \/ ~boost
    /\ chosen' = m
    /\ Ended /\ Silenced
    /\ boost' = FALSE
    /\ clock' = IF boost /\ before # m /\ (m = 200 => ~radio) THEN before ELSE m
    /\ UNCHANGED <<before, radio, card, fore>>

Radio(on) ==
    /\ Asked
    /\ Disturb \/ ~boost
    /\ radio' = on
    /\ UNCHANGED <<pwmRing, output, clock, boost, before, chosen, sound, card, fore, filled, made,
                   heard>>

Request ==
    \/ Stop \/ FileRefused \/ PlayWav \/ PlayMp3 \/ KeyClick \/ CardMoves
    \/ \E kind \in {"Synth", "Diagnostic"} : PlayTone(kind)
    \/ \E on \in BOOLEAN : Pause(on) \/ Radio(on)
    \/ \E m \in Clocks \union {200} : SelectClock(m)

Serving == Service \/ Idle \/ Fill \/ MarkReady \/ AdvanceProducer \/ Start

AudioNext == PwmWrap \/ Serving \/ TimePasses \/ Request

(* The wait loop calls audio_service() again and again, the wrap interrupt *)
(* comes as long as it is on, and time passes.                             *)
AudioSpec ==
    /\ AudioInit /\ [][AudioNext]_avars
    /\ WF_avars(PwmWrap) /\ WF_avars(Serving) /\ WF_avars(TimePasses)

-----------------------------------------------------------------------------
NextWord == IF heard.word + 1 < Words THEN [heard EXCEPT !.word = @ + 1]
            ELSE [block |-> NextBlock(heard.block), word |-> 0]

(* Blocks are played in the order in which they were rendered, each word   *)
(* once, none left out, none overwritten while it waits: only a stop drops *)
(* some (the comment at audio.cpp:34 names the replay this ring prevents). *)
PlayedInOrder ==
    [][heard' # heard => heard' = NextWord \/ (playing' = NoSlot /\ ~out')]_avars

(* The lease is held exactly while a file is played: however playback      *)
(* begins, fails, ends or is stopped, nothing keeps the card locked.      *)
LeaseFollowsFile == file <=> source \in FileSources

(* When no more is asked, the output is switched off some time after the   *)
(* last sound, through the ramp, and the interrupt is off as well.         *)
GoesQuiet == source = "None" ~> (~out /\ ~irq) \/ source # "None" \/ asks < MaxAsks

(* README.md:170: after an MP3 the clock is the one that was selected.     *)
ChosenClockKept == fore = "rest" /\ ~boost => clock = chosen
=============================================================================
