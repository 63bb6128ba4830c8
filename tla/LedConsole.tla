----------------------------- MODULE LedConsole -----------------------------
(***************************************************************************)
(* The firmware of CIAA/leds_UART_GPIO: the superloop of main.c with the   *)
(* serial line editor (uart.c), the check of the typed value and the       *)
(* interpolation (functions.c), the debounced buttons (buttons.c) and the  *)
(* SysTick interrupt.                                                      *)
(*                                                                         *)
(* The keyboard and the buttons are free: every poll of the UART may find  *)
(* any key or none, and every poll of a button may find it up or down.     *)
(* What the outside does between two polls nobody sees.                    *)
(***************************************************************************)
EXTENDS Integers, Sequences

CONSTANTS
  Keys,         \* the bytes the keyboard may send
  Neighbours,   \* what the stack may hold next to buffer[]
  MAX_BUFFER,   \* bytes of buffer[]
  ANTISHOCK,    \* polls a press has to last
  UINT8,        \* range of the uint8_t that counts the polls, 256 in the code
  DELAY_MS,     \* ticks of a pause
  MaxDel,       \* bound: DEL keys in one line
  MaxBig        \* bound: largest value button 4 is tried on

ENTER == 13
COLON == 58
DEL   == 127
Byte  == 0 .. 255

\* buffer[] and as much of the stack above it as DEL keys can make it reach.
\* Nothing here reads what lies below.
Index    == 0 .. MAX_BUFFER - 1 + MaxDel
InBuffer == 0 .. MAX_BUFFER - 1

Buttons == 1 .. 4

ASSUME KeyAssumption == Keys \subseteq Byte /\ Neighbours \subseteq Byte
ASSUME SizeAssumption ==
  /\ MAX_BUFFER \in Nat /\ MAX_BUFFER >= 2
  /\ ANTISHOCK \in Nat /\ UINT8 \in Nat /\ 0 < ANTISHOCK /\ ANTISHOCK < UINT8
  /\ DELAY_MS \in Nat /\ MaxDel \in Nat /\ MaxBig \in Nat

VARIABLES
  pc,             \* where main() is
  input_value, duty,
  pwm, ledb,      \* the three PWM channels, in percent, and the blue LED
  pausems_count,
  button, i, held,   \* the button being polled, its counter, and (history)
                     \* the polls that found it down, at most ANTISHOCK
  mem,            \* the bytes of buffer[] and of the stack above it
  numBytes, readBytes,    \* of UART_ReadBlocking()
  toRead, pass,           \* numBytes and readBytes of UART_Read()
  typed, dels     \* history: the line as edited, and its DEL keys

lineVars   == <<numBytes, readBytes, toRead, pass>>
buttonVars == <<button, i, held>>
valueVars  == <<input_value, duty>>
lineHistory == <<typed, dels>>
vars == <<pc, input_value, duty, pwm, ledb, pausems_count, button, i, held, mem,
          numBytes, readBytes, toRead, pass, typed, dels>>

Init ==
  /\ pc = "await"
  /\ input_value = 0 /\ duty = 0
  /\ pwm = [ch \in 1 .. 3 |-> 0] /\ ledb = FALSE
  /\ pausems_count = 0
  /\ button = 1 /\ i = 0 /\ held = 0
  /\ mem \in {m \in [Index -> Neighbours \cup {0}] :
                /\ \A k \in InBuffer : m[k] = 0
                /\ \A k \in Index \ InBuffer : m[k] \in Neighbours}
  /\ numBytes = 0 /\ readBytes = 0 /\ toRead = 0 /\ pass = 0
  /\ typed = << >> /\ dels = 0

-----------------------------------------------------------------------------
(* functions.c *)

interpolate(v) ==
  CASE v >= 64 /\ v < 128   -> v * 2
    [] v = 128              -> 255
    [] v > 128 /\ v <= 192  -> v \div 3
    [] OTHER                -> v

HexDigits == 48 .. 57 \cup 65 .. 70 \cup 97 .. 102

DigitValue(ch) == IF ch <= 57 THEN ch - 48 ELSE IF ch <= 70 THEN ch - 55 ELSE ch - 87

\* What the first k bytes of a line are worth, for each k.
DigitsWorth(line, last) ==
  LET worth[k \in 0 .. last + 1] ==
        IF k = 0 THEN 0 ELSE worth[k - 1] * 16 + DigitValue(line[k - 1])
  IN worth

\* strtol(line, NULL, 16): line[0] onwards, up to the first byte that is no digit.
EndOfDigits(line, last) ==
  CHOOSE n \in 0 .. last + 1 :
    /\ \A k \in 0 .. n - 1 : line[k] \in HexDigits
    /\ n = last + 1 \/ line[n] \notin HexDigits

strtol(line, last) == DigitsWorth(line, last)[EndOfDigits(line, last)]

NoValue == 256

\* sizeof(buffer) is the size of a pointer, 4: only two bytes are looked at.
check_input ==
  IF \A k \in {0, 1} : mem[k] \in HexDigits \cup {COLON}
  THEN strtol(mem, MAX_BUFFER - 1 + MaxDel)
  ELSE NoValue

\* Chip_SCTPWM_PercentageToTicks() takes the percentage as a uint8_t.
Percent(v) == v % 256

ClearNothing(m) == m      \* (mutant)
ClearBuffer(m) == [k \in Index |-> IF k \in InBuffer THEN 0 ELSE m[k]]

-----------------------------------------------------------------------------
(* main.c: the keyboard half of the loop. *)

StartButtons == pc' = "button" /\ button' = 1

\* The byte Chip_UART_Read() finds, if any, is none of the menu's.
ReadOther ==
  /\ pc = "read"
  /\ ledb' = ~ledb
  /\ StartButtons
  /\ UNCHANGED <<valueVars, pwm, pausems_count, i, held, mem, lineVars,
                 lineHistory>>

\* The byte is ':'.  The prompt goes out and UART_ReadBlocking() begins.
ReadColon ==
  /\ pc = "read"
  /\ COLON \in Keys
  /\ ledb' = FALSE
  /\ pwm' = [pwm EXCEPT ![3] = Percent(255)]
  /\ mem' = ClearBuffer(mem)
  /\ numBytes' = MAX_BUFFER /\ readBytes' = 0
  /\ toRead' = MAX_BUFFER /\ pass' = 0
  /\ typed' = << >> /\ dels' = 0
  /\ pc' = "line"
  /\ UNCHANGED <<valueVars, pausems_count, buttonVars>>

\* Where UART_Read() stores the next byte: p8 moves with both counters.
Cursor == readBytes + pass

Store(ch) == mem' = IF Cursor \in Index THEN [mem EXCEPT ![Cursor] = ch] ELSE mem

\* UART_Read(): one turn of the loop that finds a key waiting.
TypeChar(ch) ==
  /\ pc = "line" /\ pass < toRead
  /\ ch # DEL
  /\ Store(ch)
  /\ pass' = pass + 1
  /\ typed' = Append(typed, ch)
  /\ UNCHANGED <<pc, valueVars, pwm, ledb, pausems_count, buttonVars, numBytes,
                 readBytes, toRead, dels>>

TypeDel ==
  /\ pc = "line" /\ pass < toRead
  /\ DEL \in Keys /\ dels < MaxDel
  /\ Store(0)
  /\ pass' = pass - 1
  /\ toRead' = toRead + 1
  /\ dels' = dels + 1
  /\ typed' = SubSeq(typed, 1, Len(typed) - 1)
  /\ UNCHANGED <<pc, valueVars, pwm, ledb, pausems_count, buttonVars, numBytes,
                 readBytes>>

\* (mutant) The bytes read are not taken off the bytes wanted.
ReturnReadForgetful ==
  /\ pc = "line"
  /\ numBytes' = numBytes
  /\ readBytes' = readBytes + pass
  /\ pass' = 0
  /\ toRead' = numBytes'
  /\ pc' = IF readBytes' < numBytes' THEN "line" ELSE "check"
  /\ UNCHANGED <<valueVars, pwm, ledb, pausems_count, buttonVars, mem,
                 lineHistory>>

\* (mutant) The loop goes on while bytes are wanted.
ReturnReadAll ==
  /\ pc = "line"
  /\ numBytes' = numBytes - pass
  /\ readBytes' = readBytes + pass
  /\ pass' = 0
  /\ toRead' = numBytes'
  /\ pc' = IF numBytes' > 0 THEN "line" ELSE "check"
  /\ UNCHANGED <<valueVars, pwm, ledb, pausems_count, buttonVars, mem,
                 lineHistory>>

\* UART_Read() returns: it has enough, or no key is waiting.
ReturnRead ==
  /\ pc = "line"
  /\ numBytes' = numBytes - pass
  /\ readBytes' = readBytes + pass
  /\ pass' = 0
  /\ toRead' = numBytes'
  /\ pc' = IF readBytes' < numBytes' THEN "line" ELSE "check"
  /\ UNCHANGED <<valueVars, pwm, ledb, pausems_count, buttonVars, mem,
                 lineHistory>>

\* The line is complete: take the value, or report an error.
Check ==
  /\ pc = "check"
  /\ \/ /\ check_input # NoValue
        /\ input_value' = check_input
        /\ duty' = interpolate(check_input)
     \/ check_input = NoValue /\ UNCHANGED valueVars
  /\ pwm' = [pwm EXCEPT ![3] = Percent(0)]
  /\ mem' = ClearBuffer(mem)
  /\ numBytes' = 0 /\ readBytes' = 0 /\ toRead' = 0     \* out of scope
  /\ typed' = << >> /\ dels' = 0
  /\ StartButtons
  /\ UNCHANGED <<ledb, pausems_count, i, held, pass>>

-----------------------------------------------------------------------------
(* buttons.c and main.c: the button half of the loop. *)

\* (mutant) The counter does not wrap.
PollDownWide ==
  /\ pc \in {"await", "button"}
  /\ pc = "button" /\ button = 4 => input_value <= MaxBig
  /\ i' = i + 1
  /\ held' = IF held < ANTISHOCK THEN held + 1 ELSE held
  /\ UNCHANGED <<pc, valueVars, pwm, ledb, pausems_count, button, mem, lineVars,
                 lineHistory>>

\* Buttons_GetStat_Antishock(): a poll finds the button down.  The counter is
\* a uint8_t.
PollDown ==
  /\ pc \in {"await", "button"}
  /\ pc = "button" /\ button = 4 => input_value <= MaxBig
  /\ i' = (i + 1) % UINT8
  /\ held' = IF held < ANTISHOCK THEN held + 1 ELSE held
  /\ UNCHANGED <<pc, valueVars, pwm, ledb, pausems_count, button, mem, lineVars,
                 lineHistory>>

PressedAtOnce == i > 0     \* (mutant)
Pressed == i >= ANTISHOCK

\* A poll finds button 1 up before the loop has started.
PollUpAwait ==
  /\ pc = "await"
  /\ pc' = IF Pressed THEN "read" ELSE "await"
  /\ i' = 0 /\ held' = 0
  /\ UNCHANGED <<valueVars, pwm, ledb, pausems_count, button, mem, lineVars,
                 lineHistory>>

\* What a press of button n makes of the value.
ButtonValue(n) ==
  CASE n = 1 -> 0
    [] n = 2 -> 255
    [] n = 3 -> IF input_value + 16 > 255 THEN 255 ELSE input_value + 16
    [] n = 4 -> IF input_value - 16 < 0 THEN 0 ELSE input_value - 16

ButtonDutyRaw(n) == ButtonValue(n)     \* (mutant)

\* Buttons 1 and 2 assign the result, 3 and 4 interpolate.
ButtonDuty(n) == IF n \in {1, 2} THEN ButtonValue(n) ELSE interpolate(ButtonValue(n))

\* A poll finds the button up: the press counts, or the next one is polled.
PollUp ==
  /\ pc = "button"
  /\ \/ /\ Pressed
        /\ input_value' = ButtonValue(button)
        /\ duty' = ButtonDuty(button)
        /\ pc' = "show"
        /\ UNCHANGED button
     \/ /\ ~Pressed
        /\ IF button = 4 THEN pc' = "show" /\ UNCHANGED button
                         ELSE button' = button + 1 /\ UNCHANGED pc
        /\ UNCHANGED valueVars
  /\ i' = 0 /\ held' = 0
  /\ UNCHANGED <<pwm, ledb, pausems_count, mem, lineVars, lineHistory>>

\* The end of a turn: both LEDs, then pausems().
Show ==
  /\ pc = "show"
  /\ pwm' = [pwm EXCEPT ![1] = Percent(input_value), ![2] = Percent(duty)]
  /\ pausems_count' = DELAY_MS
  /\ pc' = "pause"
  /\ UNCHANGED <<valueVars, ledb, buttonVars, mem, lineVars, lineHistory>>

EndPause ==
  /\ pc = "pause" /\ pausems_count = 0
  /\ pc' = "read"
  /\ UNCHANGED <<valueVars, pwm, ledb, pausems_count, buttonVars, mem, lineVars,
                 lineHistory>>

\* (mutant) The last tick is not counted.
SysTickStopsAtOne ==
  /\ pausems_count > 1
  /\ pausems_count' = pausems_count - 1
  /\ UNCHANGED <<pc, valueVars, pwm, ledb, buttonVars, mem, lineVars, lineHistory>>

SysTick_Handler ==
  /\ pausems_count > 0
  /\ pausems_count' = pausems_count - 1
  /\ UNCHANGED <<pc, valueVars, pwm, ledb, buttonVars, mem, lineVars, lineHistory>>

-----------------------------------------------------------------------------
ReadKey == ReadOther \/ ReadColon
Line    == (\E ch \in Keys : TypeChar(ch)) \/ TypeDel \/ ReturnRead

Next ==
  \/ ReadKey \/ Line \/ Check
  \/ PollDown \/ PollUpAwait \/ PollUp
  \/ Show \/ EndPause \/ SysTick_Handler

Spec == Init /\ [][Next]_vars

\* The processor runs and the timer ticks; nobody holds a button down forever.
\* Nobody has to press a button or to type.
Fairness ==
  /\ WF_vars(ReadKey) /\ WF_vars(ReturnRead) /\ WF_vars(Check)
  /\ WF_vars(PollUp) /\ WF_vars(Show) /\ WF_vars(EndPause)
  /\ WF_vars(SysTick_Handler)

FairSpec == Spec /\ Fairness

-----------------------------------------------------------------------------
TypeOK ==
  /\ pc \in {"await", "read", "line", "check", "button", "show", "pause"}
  /\ input_value \in Nat
  /\ duty \in Nat
  /\ pwm \in [1 .. 3 -> Byte]
  /\ ledb \in BOOLEAN
  /\ pausems_count \in 0 .. DELAY_MS
  /\ button \in Buttons
  /\ i \in 0 .. UINT8 - 1
  /\ held \in 0 .. ANTISHOCK
  /\ mem \in [Index -> Byte]
  /\ numBytes \in Int /\ readBytes \in Int /\ toRead \in Int /\ pass \in Int
  /\ typed \in Seq(Byte)
  /\ dels \in 0 .. MaxDel

\* The value and the result are assigned in five places of main.c, two of which
\* do not call interpolate(): LED 3 always shows the interpolation of what LED 2
\* shows.
ResultFollowsInput == duty = interpolate(input_value)

\* UART_ReadBlocking() passes the bytes it still wants, UART_Read() asks for one
\* more after a DEL: a line without DEL is stored in buffer[], and each DEL lets
\* the cursor leave it by one byte at either end, never by more.
CursorNearBuffer ==
  pc = "line" => /\ Cursor >= -dels
                 /\ pass < toRead => Cursor < MAX_BUFFER + dels

\* UART_ReadBlocking() compares what it has read with what it still wants, not with
\* what it was asked for: it goes on while half of buffer[] is not there yet and no
\* longer, so without a DEL half of it has been typed when a line is checked.
LineEndsAtHalf ==
  /\ pc = "line" => 2 * readBytes < MAX_BUFFER
  /\ pc = "check" /\ dels = 0 => 2 * Len(typed) >= MAX_BUFFER

\* A value that is taken from a line without DEL, shorter than buffer[], is the
\* number typed: bytes of an earlier line or of the stack never count.
ValueOf(line) == strtol([k \in 0 .. Len(line) - 1 |-> line[k + 1]], Len(line) - 1)

TakenIsTyped ==
  [][pc = "check" /\ dels = 0 /\ Len(typed) < MAX_BUFFER =>
       input_value' \in {input_value, ValueOf(typed)}]_vars

\* The range the prompt asks for is left in one way only: by a line of three keys
\* or more, or one with a DEL, or one that fills buffer[] and runs on into the
\* stack.  Two keys typed without a slip and the buttons stay in it.
RangeLeftByLongLine ==
  [][input_value <= 255 /\ input_value' > 255 =>
       pc = "check" /\ (dels > 0 \/ Len(typed) > 2 \/ Len(typed) = MAX_BUFFER)]_vars

\* A contact that bounces for fewer than ANTISHOCK polls changes nothing.
BouncesIgnored ==
  [][held < ANTISHOCK /\ pc \in {"await", "button"} =>
       pc' # "read" /\ UNCHANGED valueVars]_vars

\* Whatever is pressed and typed, a turn of the loop comes back to the keyboard.
ReturnsToKeyboard == pc \in {"check", "button", "show", "pause"} ~> pc = "read"

\* Two keys end a line, however slowly they come, unless DEL takes one back: no
\* Enter is needed, and no more keys have to follow.
TwoKeysEndLine ==
  (pc = "line" /\ dels = 0 /\ Len(typed) >= 2) ~> (pc # "line" \/ dels > 0)

\* "Press : to insert a hex value between 00 and ff" (README.md:68).
ValueInRange == input_value <= 255

\* "Press button 2 to increase the shien to 0xff" (README.md:72), for a press
\* that lasts ANTISHOCK polls or more.
Button2Sets255 ==
  [][pc = "button" /\ button = 2 /\ held = ANTISHOCK /\ held' = 0 => input_value' = 255]_vars
=============================================================================
