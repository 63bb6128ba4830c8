------------------------- MODULE LedConsole_proofs -------------------------
(***************************************************************************)
(* Proofs about LedConsole for every keyboard, size of buffer[], threshold *)
(* of the buttons, length of the pause and number of DEL keys.             *)
(***************************************************************************)
EXTENDS LedConsole, WellFoundedInduction, TLAPS

USE DEF lineVars, buttonVars, valueVars, lineHistory

-----------------------------------------------------------------------------
(* The result LED. *)

\* LED 3 always shows the interpolation of what LED 2 shows, whichever of the
\* five assignments of main() came last.
THEOREM ResultShown == Spec => []ResultFollowsInput
<1>1. Init => ResultFollowsInput
  BY DEF Init, ResultFollowsInput, interpolate
<1>2. ASSUME ResultFollowsInput, [Next]_vars PROVE ResultFollowsInput'
  <2> USE <1>2 DEF ResultFollowsInput
  <2>1. ASSUME Check PROVE ResultFollowsInput'
    BY <2>1 DEF Check
  <2>2. ASSUME PollUp PROVE ResultFollowsInput'
    <3>1. CASE UNCHANGED valueVars
      BY <3>1
    <3>2. CASE input_value' = ButtonValue(button) /\ duty' = ButtonDuty(button)
      <4>1. interpolate(0) = 0 /\ interpolate(255) = 255
        BY DEF interpolate
      <4>2. CASE button \in {1, 2}
        BY <3>2, <4>1, <4>2 DEF ButtonValue, ButtonDuty
      <4>3. CASE button \notin {1, 2}
        BY <3>2, <4>3 DEF ButtonDuty
      <4>4. QED
        BY <4>2, <4>3
    <3>3. QED
      BY <2>2, <3>1, <3>2 DEF PollUp
  <2>3. ASSUME UNCHANGED valueVars PROVE ResultFollowsInput'
    BY <2>3
  <2>4. QED
    BY <2>1, <2>2, <2>3 DEF Next, ReadKey, Line, ReadOther, ReadColon, TypeChar,
       TypeDel, ReturnRead, PollDown, PollUpAwait, Show, EndPause,
       SysTick_Handler, vars
<1>3. QED
  BY <1>1, <1>2, PTL DEF Spec

-----------------------------------------------------------------------------
(* The line editor. *)

\* UART_ReadBlocking() keeps what it has read and what it wants at MAX_BUFFER
\* together.  toRead - numBytes of the DEL keys belong to the pass of UART_Read()
\* that is running: it has gone back by no more than that, and the passes before
\* it by no more than the others.
CursorInv ==
  /\ dels \in Nat /\ numBytes \in Int /\ readBytes \in Int
  /\ toRead \in Int /\ pass \in Int
  /\ pc = "line" =>
       /\ numBytes + readBytes = MAX_BUFFER
       /\ toRead - numBytes \in 0 .. dels
       /\ pass >= numBytes - toRead
       /\ readBytes >= toRead - numBytes - dels

LEMMA CursorKept == Spec => []CursorInv
<1> USE SizeAssumption
<1>1. Init => CursorInv
  BY DEF Init, CursorInv
<1>2. ASSUME CursorInv, [Next]_vars PROVE CursorInv'
  <2> USE <1>2 DEF CursorInv
  <2>1. ASSUME ReadColon PROVE CursorInv'
    BY <2>1 DEF ReadColon
  <2>2. ASSUME NEW key \in Keys, TypeChar(key) PROVE CursorInv'
    BY <2>2 DEF TypeChar
  <2>3. ASSUME TypeDel PROVE CursorInv'
    BY <2>3 DEF TypeDel
  <2>4. ASSUME ReturnRead PROVE CursorInv'
    BY <2>4 DEF ReturnRead
  <2>5. ASSUME Check PROVE CursorInv'
    BY <2>5 DEF Check, StartButtons
  <2>6. ASSUME ReadOther \/ PollDown \/ PollUpAwait \/ PollUp \/ Show \/ EndPause
                 \/ SysTick_Handler \/ UNCHANGED vars
        PROVE  CursorInv'
    <3>1. UNCHANGED <<lineVars, dels>> /\ (pc' = "line" => pc = "line")
      BY <2>6 DEF ReadOther, StartButtons, PollDown, PollUpAwait, PollUp, Show,
         EndPause, SysTick_Handler, vars
    <3>2. QED
      BY <3>1
  <2>7. QED
    BY <2>1, <2>2, <2>3, <2>4, <2>5, <2>6 DEF Next, ReadKey, Line
<1>3. QED
  BY <1>1, <1>2, PTL DEF Spec

\* Each DEL lets the cursor leave buffer[] by one byte at either end, no more.
THEOREM CursorBounded == Spec => []CursorNearBuffer
<1>1. CursorInv => CursorNearBuffer
  BY SizeAssumption DEF CursorInv, CursorNearBuffer, Cursor
<1>2. QED
  BY <1>1, CursorKept, PTL

-----------------------------------------------------------------------------
(* The buttons. *)

\* The counter is the number of polls of this press as long as it is short.
CountInv == held \in 0 .. ANTISHOCK /\ (held < ANTISHOCK => i = held)

\* A contact that closes for fewer than ANTISHOCK polls does nothing, for any
\* threshold the counter can hold.
THEOREM BouncesDoNothing == Spec => BouncesIgnored
<1> USE SizeAssumption DEF CountInv
<1>1. Init => CountInv
  BY DEF Init
<1>2. ASSUME CountInv, [Next]_vars PROVE CountInv'
  <2> USE <1>2
  <2>1. ASSUME PollDown PROVE CountInv'
    <3>1. CASE held < ANTISHOCK
      <4>1. (i + 1) % UINT8 = i + 1
        BY <3>1
      <4>2. QED
        BY <2>1, <3>1, <4>1 DEF PollDown
    <3>2. CASE held = ANTISHOCK
      BY <2>1, <3>2 DEF PollDown
    <3>3. QED
      BY <3>1, <3>2
  <2>2. ASSUME PollUpAwait \/ PollUp PROVE CountInv'
    BY <2>2 DEF PollUpAwait, PollUp
  <2>3. ASSUME UNCHANGED <<i, held>> PROVE CountInv'
    BY <2>3
  <2>4. QED
    BY <2>1, <2>2, <2>3 DEF Next, ReadKey, Line, ReadOther, ReadColon, TypeChar,
       TypeDel, ReturnRead, Check, Show, EndPause, SysTick_Handler, vars
<1>3. ASSUME CountInv, [Next]_vars, held < ANTISHOCK, pc \in {"await", "button"}
      PROVE  pc' # "read" /\ UNCHANGED valueVars
  <2> USE <1>3
  <2>1. ~Pressed
    BY DEF Pressed
  <2>2. QED
    BY <2>1 DEF Next, ReadKey, Line, ReadOther, ReadColon, TypeChar, TypeDel,
       ReturnRead, Check, PollDown, PollUpAwait, PollUp, Show, EndPause,
       SysTick_Handler, vars
<1>4. QED
  <2>1. CountInv /\ [Next]_vars =>
          [held < ANTISHOCK /\ pc \in {"await", "button"} =>
             pc' # "read" /\ UNCHANGED valueVars]_vars
    BY <1>3
  <2>2. QED
    BY <1>1, <1>2, <2>1, PTL DEF Spec, BouncesIgnored
-----------------------------------------------------------------------------
(* Induction on the length of a line.  The prover cannot be given a predicate, *)
(* so both principles are stated for a set of numbers.                         *)

LEMMA LeastNumber ==
  ASSUME NEW S \in SUBSET Nat, S # {}
  PROVE  \E m \in S : \A k \in S : m <= k
<1>1. PICK m \in S : \A k \in S : <<k, m>> \notin OpToRel(<, Nat)
  BY NatLessThanWellFounded, WFMin
<1>2. \A k \in S : ~(k < m)
  BY <1>1 DEF OpToRel
<1>3. QED
  BY <1>2

LEMMA Induction ==
  ASSUME NEW S, 0 \in S, \A n \in Nat : n \in S => n + 1 \in S
  PROVE  Nat \subseteq S
<1>1. SUFFICES ASSUME Nat \ S # {} PROVE FALSE
  OBVIOUS
<1>2. PICK m \in Nat \ S : \A k \in Nat \ S : m <= k
  BY <1>1, LeastNumber
<1>3. m - 1 \in Nat /\ m - 1 \in S
  BY <1>2
<1>4. QED
  BY <1>2, <1>3

-----------------------------------------------------------------------------
(* strtol(): a line is worth what its leading digits are worth. *)

\* The recursion of strtol() defines a function: the worth of one byte more.
LEMMA WorthOfOneMore ==
  ASSUME NEW line, NEW last, last + 1 \in Nat
  PROVE  /\ DigitsWorth(line, last)[0] = 0
         /\ \A k \in 1 .. last + 1 :
              DigitsWorth(line, last)[k] =
                DigitsWorth(line, last)[k - 1] * 16 + DigitValue(line[k - 1])
<1> DEFINE Body(f, k) == IF k = 0 THEN 0
                         ELSE f[k - 1] * 16 + DigitValue(line[k - 1])
           Defines(f, n) == f = [k \in 0 .. n |-> Body(f, k)]
           S == {n \in Nat : \E f : Defines(f, n)}
<1>1. 0 \in S
  <2>1. Defines([k \in 0 .. 0 |-> 0], 0)
    OBVIOUS
  <2>2. QED
    BY <2>1
<1>2. ASSUME NEW n \in Nat, n \in S PROVE n + 1 \in S
  <2>1. PICK f : Defines(f, n)
    BY <1>2
  <2> DEFINE g == [k \in 0 .. n + 1 |-> IF k = n + 1 THEN Body(f, k) ELSE f[k]]
  <2>2. \A k \in 0 .. n : g[k] = f[k]
    OBVIOUS
  <2>3. \A k \in 0 .. n : f[k] = Body(f, k)
    BY <2>1
  <2>4. \A k \in 0 .. n + 1 : Body(g, k) = Body(f, k)
    BY <2>2
  <2>5. \A k \in 0 .. n + 1 : g[k] = Body(g, k)
    BY <2>3, <2>4
  <2>6. Defines(g, n + 1)
    <3> HIDE DEF Body
    <3>1. QED
      BY <2>5
  <2>7. \E f1 : Defines(f1, n + 1)
    <3> HIDE DEF g, Defines
    <3>1. QED
      BY <2>6
  <2>8. QED
    BY <2>7
<1>3. last + 1 \in S
  <2> HIDE DEF S
  <2>1. QED
    BY <1>1, <1>2, Induction
<1>4. Defines(DigitsWorth(line, last), last + 1)
  <2>1. DigitsWorth(line, last) = CHOOSE f : Defines(f, last + 1)
    BY DEF DigitsWorth
  <2>2. \E f : Defines(f, last + 1)
    BY <1>3
  <2> HIDE DEF Defines
  <2>3. QED
    BY <2>1, <2>2
<1>5. \A k \in 0 .. last + 1 : DigitsWorth(line, last)[k] = Body(DigitsWorth(line, last), k)
  <2> HIDE DEF Body
  <2>1. QED
    BY <1>4
<1>6. QED
  BY <1>5

\* Where the digits end is one place, and there always is one.
LEMMA DigitsEnd ==
  ASSUME NEW line, NEW last, last + 1 \in Nat
  PROVE  /\ EndOfDigits(line, last) \in 0 .. last + 1
         /\ \A k \in 0 .. EndOfDigits(line, last) - 1 : line[k] \in HexDigits
         /\ \/ EndOfDigits(line, last) = last + 1
            \/ line[EndOfDigits(line, last)] \notin HexDigits
<1> DEFINE End(n) == n = last + 1 \/ line[n] \notin HexDigits
           S == {n \in 0 .. last + 1 : End(n)}
<1> HIDE DEF End
<1>1. last + 1 \in S
  BY DEF End
<1>2. PICK m \in S : \A k \in S : m <= k
  <2>1. S \in SUBSET Nat /\ S # {}
    BY <1>1
  <2> HIDE DEF S
  <2>2. QED
    BY <2>1, LeastNumber
<1>3. \A k \in 0 .. m - 1 : line[k] \in HexDigits
  <2>1. SUFFICES ASSUME NEW k \in 0 .. m - 1, k \notin S PROVE line[k] \in HexDigits
    BY <1>2
  <2>2. k \in 0 .. last + 1
    BY <1>2
  <2>3. QED
    BY <2>1, <2>2 DEF End
<1>4. \E n \in 0 .. last + 1 : /\ \A k \in 0 .. n - 1 : line[k] \in HexDigits
                               /\ n = last + 1 \/ line[n] \notin HexDigits
  BY <1>2, <1>3 DEF End
<1>5. QED
  BY <1>4 DEF EndOfDigits

\* A digit is worth 0 to 15.
LEMMA DigitRange ==
  ASSUME NEW ch \in HexDigits
  PROVE  DigitValue(ch) \in 0 .. 15
BY DEF DigitValue, HexDigits

\* The digits of a line are worth a natural number.
LEMMA WorthIsNatural ==
  ASSUME NEW line, NEW last, last + 1 \in Nat, NEW m \in 0 .. last + 1,
         \A k \in 0 .. m - 1 : line[k] \in HexDigits
  PROVE  \A k \in 0 .. m : DigitsWorth(line, last)[k] \in Nat
<1> DEFINE W == DigitsWorth(line, last)
           S == {n \in Nat : n <= m => W[n] \in Nat}
<1> HIDE DEF W
<1>1. 0 \in S
  BY WorthOfOneMore DEF W
<1>2. ASSUME NEW n \in Nat, n \in S PROVE n + 1 \in S
  <2>1. SUFFICES ASSUME n + 1 <= m PROVE W[n + 1] \in Nat
    OBVIOUS
  <2>2. W[n + 1] = W[n] * 16 + DigitValue(line[n])
    <3>1. n + 1 \in 1 .. last + 1 /\ (n + 1) - 1 = n
      BY <2>1
    <3>2. QED
      BY <3>1, WorthOfOneMore DEF W
  <2>3. W[n] \in Nat
    BY <1>2, <2>1
  <2>4. DigitValue(line[n]) \in 0 .. 15
    BY <2>1, DigitRange
  <2>5. QED
    BY <2>2, <2>3, <2>4
<1>3. \A n \in Nat : n \in S
  <2> HIDE DEF S
  <2>1. QED
    BY <1>1, <1>2, Induction
<1>4. QED
  BY <1>3 DEF W

\* What strtol() returns is never negative.
LEMMA StrtolIsNatural ==
  ASSUME NEW line, NEW last, last + 1 \in Nat
  PROVE  strtol(line, last) \in Nat
BY DigitsEnd, WorthIsNatural DEF strtol

\* Lines that agree on their leading digits are worth the same, however long the
\* memory behind them is.
LEMMA StrtolOfPrefix ==
  ASSUME NEW line, NEW last \in Nat,
         NEW word, NEW m \in 0 .. last, \A k \in 0 .. m - 1 : line[k] = word[k],
         line[m] \notin HexDigits
  PROVE  strtol(line, last) = strtol(word, m - 1)
<1> DEFINE V == DigitsWorth(line, last)
           W == DigitsWorth(word, m - 1)
           d == EndOfDigits(line, last)
           e == EndOfDigits(word, m - 1)
<1> HIDE DEF V, W, d, e
<1>1. (m - 1) + 1 = m /\ m \in Nat /\ last + 1 \in Nat
  OBVIOUS
<1>2. /\ d \in 0 .. last + 1 /\ \A k \in 0 .. d - 1 : line[k] \in HexDigits
      /\ d = last + 1 \/ line[d] \notin HexDigits
  BY <1>1, DigitsEnd DEF d
<1>3. /\ e \in 0 .. m /\ \A k \in 0 .. e - 1 : word[k] \in HexDigits
      /\ e = m \/ word[e] \notin HexDigits
  BY <1>1, DigitsEnd DEF e
<1>4. d = e
  <2>1. ~(d < e)
    <3>1. SUFFICES ASSUME d < e PROVE FALSE
      OBVIOUS
    <3>2. line[d] = word[d] /\ word[d] \in HexDigits /\ d # last + 1
      BY <3>1, <1>2, <1>3
    <3>3. QED
      BY <3>2, <1>2
  <2>2. ~(e < d)
    <3>1. SUFFICES ASSUME e < d PROVE FALSE
      OBVIOUS
    <3>2. line[e] \in HexDigits
      BY <3>1, <1>2, <1>3
    <3>3. e # m => line[e] = word[e]
      BY <1>3
    <3>4. QED
      BY <3>2, <3>3, <1>3
  <2>3. QED
    BY <2>1, <2>2, <1>2, <1>3
<1> DEFINE S == {n \in Nat : n <= m => V[n] = W[n]}
<1>5. 0 \in S
  BY <1>1, WorthOfOneMore DEF V, W
<1>6. ASSUME NEW n \in Nat, n \in S PROVE n + 1 \in S
  <2>1. SUFFICES ASSUME n + 1 <= m PROVE V[n + 1] = W[n + 1]
    OBVIOUS
  <2>2. n + 1 \in 1 .. last + 1 /\ n + 1 \in 1 .. (m - 1) + 1 /\ (n + 1) - 1 = n
    BY <2>1
  <2>3. V[n + 1] = V[n] * 16 + DigitValue(line[n])
    BY <1>1, <2>2, WorthOfOneMore DEF V
  <2>4. W[n + 1] = W[n] * 16 + DigitValue(word[n])
    BY <1>1, <2>2, WorthOfOneMore DEF W
  <2>5. V[n] = W[n] /\ line[n] = word[n]
    BY <1>6, <2>1
  <2>6. QED
    BY <2>3, <2>4, <2>5
<1>7. \A n \in Nat : n \in S
  <2> HIDE DEF S
  <2>1. QED
    BY <1>5, <1>6, Induction
<1>8. V[d] = W[e]
  BY <1>3, <1>4, <1>7
<1>9. QED
  BY <1>8 DEF strtol, V, W, d, e

-----------------------------------------------------------------------------
(* Types. *)

\* What check_input() makes of the line is a number, 256 if it refuses it.
LEMMA CheckedIsNatural == check_input \in Nat
<1>1. (MAX_BUFFER - 1 + MaxDel) + 1 \in Nat
  BY SizeAssumption
<1>2. QED
  BY <1>1, StrtolIsNatural DEF check_input, NoValue

LEMMA InterpolateIsNatural == \A v \in Nat : interpolate(v) \in Nat
BY DEF interpolate

LEMMA PercentIsByte == \A v \in Nat : Percent(v) \in Byte
BY DEF Percent, Byte

LEMMA ButtonValueIsNatural ==
  ASSUME input_value \in Nat, NEW n \in Buttons
  PROVE  ButtonValue(n) \in Nat
BY DEF ButtonValue, Buttons

\* Every variable keeps its type: the counter of the polls its 8 bits, the three
\* PWM channels theirs, and a DEL on an empty line writes in no strange place.
THEOREM TypeCorrect == Spec => []TypeOK
<1> USE SizeAssumption, KeyAssumption DEF TypeOK
<1>1. ASSUME Init PROVE TypeOK
  <2> USE <1>1
  <2>1. mem \in [Index -> Byte]
    <3>1. PICK m \in [Index -> Neighbours \cup {0}] : mem = m
      BY DEF Init
    <3>2. Neighbours \cup {0} \subseteq Byte
      BY DEF Byte
    <3>3. QED
      BY <3>1, <3>2
  <2>2. typed \in Seq(Byte)
    BY DEF Init
  <2>3. pwm \in [1 .. 3 -> Byte]
    BY DEF Init, Byte
  <2>4. /\ pc = "await" /\ input_value = 0 /\ duty = 0 /\ ledb = FALSE
        /\ pausems_count = 0 /\ button = 1 /\ i = 0 /\ held = 0
        /\ numBytes = 0 /\ readBytes = 0 /\ toRead = 0 /\ pass = 0 /\ dels = 0
    BY DEF Init
  <2>5. ledb \in BOOLEAN
    BY <2>4
  <2>6. QED
    BY <2>1, <2>2, <2>3, <2>4, <2>5 DEF Buttons
<1>2. ASSUME TypeOK, [Next]_vars PROVE TypeOK'
  <2> USE <1>2
  <2>0. COLON \in Byte /\ 0 \in Byte /\ 255 \in Byte
    BY DEF COLON, Byte
  <2>1. ClearBuffer(mem) \in [Index -> Byte]
    BY <2>0 DEF ClearBuffer
  <2>2. ASSUME NEW ch \in Byte, Store(ch) PROVE mem' \in [Index -> Byte]
    BY <2>2 DEF Store
  <2>3. CASE ReadOther
    <3>1. ledb' \in BOOLEAN
      BY <2>3 DEF ReadOther
    <3>2. QED
      BY <2>3, <3>1 DEF ReadOther, StartButtons, Buttons
  <2>4. CASE ReadColon
    <3>1. pwm' \in [1 .. 3 -> Byte]
      BY <2>4, PercentIsByte DEF ReadColon
    <3>2. mem' \in [Index -> Byte]
      BY <2>1, <2>4 DEF ReadColon
    <3>3. typed' \in Seq(Byte)
      BY <2>4 DEF ReadColon
    <3>4. ledb' \in BOOLEAN
      BY <2>4 DEF ReadColon
    <3>5. QED
      BY <2>4, <3>1, <3>2, <3>3, <3>4 DEF ReadColon
  <2>5. ASSUME NEW ch \in Keys, TypeChar(ch) PROVE TypeOK'
    <3>1. mem' \in [Index -> Byte]
      BY <2>2, <2>5 DEF TypeChar
    <3>2. typed' \in Seq(Byte)
      BY <2>5 DEF TypeChar
    <3>3. QED
      BY <2>5, <3>1, <3>2 DEF TypeChar
  <2>6. CASE TypeDel
    <3>1. mem' \in [Index -> Byte]
      BY <2>0, <2>2, <2>6 DEF TypeDel
    <3>2. typed' \in Seq(Byte)
      <4>1. CASE typed = << >>
        BY <2>6, <4>1 DEF TypeDel
      <4>2. CASE typed # << >>
        BY <2>6, <4>2 DEF TypeDel
      <4>3. QED
        BY <4>1, <4>2
    <3>3. QED
      BY <2>6, <3>1, <3>2 DEF TypeDel
  <2>7. CASE ReturnRead
    BY <2>7 DEF ReturnRead
  <2>8. CASE Check
    <3>1. input_value' \in Nat /\ duty' \in Nat
      BY <2>8, CheckedIsNatural, InterpolateIsNatural DEF Check
    <3>2. pwm' \in [1 .. 3 -> Byte]
      BY <2>8, PercentIsByte DEF Check
    <3>3. mem' \in [Index -> Byte]
      BY <2>1, <2>8 DEF Check
    <3>4. typed' \in Seq(Byte)
      BY <2>8 DEF Check
    <3>5. QED
      BY <2>8, <3>1, <3>2, <3>3, <3>4 DEF Check, StartButtons, Buttons
  <2>9. CASE PollDown
    <3>1. i' \in 0 .. UINT8 - 1
      BY <2>9 DEF PollDown
    <3>2. held' \in 0 .. ANTISHOCK
      BY <2>9 DEF PollDown
    <3>3. QED
      BY <2>9, <3>1, <3>2 DEF PollDown
  <2>10. CASE PollUpAwait
    BY <2>10 DEF PollUpAwait
  <2>11. CASE PollUp
    <3>1. ButtonValue(button) \in Nat
      BY ButtonValueIsNatural
    <3>2. ButtonDuty(button) \in Nat
      BY <3>1, InterpolateIsNatural DEF ButtonDuty
    <3>3. input_value' \in Nat /\ duty' \in Nat
      BY <2>11, <3>1, <3>2 DEF PollUp
    <3>4. button' \in Buttons /\ pc' \in {"button", "show"}
      BY <2>11 DEF PollUp, Buttons
    <3>5. QED
      BY <2>11, <3>3, <3>4 DEF PollUp
  <2>12. CASE Show
    <3>1. pwm' \in [1 .. 3 -> Byte]
      BY <2>12, PercentIsByte DEF Show
    <3>2. QED
      BY <2>12, <3>1 DEF Show
  <2>13. CASE EndPause
    BY <2>13 DEF EndPause
  <2>14. CASE SysTick_Handler
    BY <2>14 DEF SysTick_Handler
  <2>15. CASE UNCHANGED vars
    BY <2>15 DEF vars
  <2>16. QED
    BY <2>3, <2>4, <2>5, <2>6, <2>7, <2>8, <2>9, <2>10, <2>11, <2>12, <2>13,
       <2>14, <2>15 DEF Next, ReadKey, Line
<1>3. QED
  BY <1>1, <1>2, PTL DEF Spec

-----------------------------------------------------------------------------
(* What the line is worth. *)

\* Until a DEL is typed, the first bytes of buffer[] are the keys typed and the
\* rest of it is zero: what strtol() must stop at.
LineInv ==
  pc \in {"line", "check"} /\ dels = 0 =>
    /\ Len(typed) = Cursor /\ Len(typed) <= MAX_BUFFER
    /\ \A k \in 0 .. Len(typed) - 1 : mem[k] = typed[k + 1]
    /\ \A k \in Len(typed) .. MAX_BUFFER - 1 : mem[k] = 0

LEMMA LineKept == Spec => []LineInv
<1> USE SizeAssumption DEF LineInv, Cursor
<1>1. Init => LineInv
  BY DEF Init
<1>2. ASSUME LineInv, TypeOK, CursorInv, [Next]_vars PROVE LineInv'
  <2> USE <1>2
  <2>1. CASE ReadColon
    <3>1. typed' = << >> /\ readBytes' = 0 /\ pass' = 0
      BY <2>1 DEF ReadColon
    <3>2. \A k \in 0 .. MAX_BUFFER - 1 : mem'[k] = 0
      BY <2>1 DEF ReadColon, ClearBuffer, InBuffer, Index
    <3>3. QED
      BY <3>1, <3>2
  <2>2. ASSUME NEW ch \in Keys, TypeChar(ch) PROVE LineInv'
    <3>1. SUFFICES ASSUME dels = 0 PROVE LineInv'
      BY <2>2 DEF TypeChar
    <3>2. /\ pc = "line" /\ pass < toRead /\ pass' = pass + 1
          /\ typed' = Append(typed, ch) /\ UNCHANGED readBytes /\ Store(ch)
      BY <2>2 DEF TypeChar
    <3>3. Cursor \in 0 .. MAX_BUFFER - 1 /\ Cursor = Len(typed)
      BY <3>1, <3>2 DEF CursorInv, TypeOK
    <3>4. mem' = [mem EXCEPT ![Len(typed)] = ch] /\ mem \in [Index -> Byte]
      BY <3>2, <3>3 DEF Store, Index, TypeOK
    <3>5. Len(typed') = Len(typed) + 1 /\ typed'[Len(typed) + 1] = ch
      BY <3>2, KeyAssumption DEF TypeOK
    <3>6. \A k \in 0 .. Len(typed) - 1 : typed'[k + 1] = typed[k + 1]
      BY <3>2, KeyAssumption DEF TypeOK
    <3>7. \A k \in 0 .. MAX_BUFFER - 1 :
            mem'[k] = IF k = Len(typed) THEN ch ELSE mem[k]
      BY <3>4 DEF Index
    <3>8. \A k \in 0 .. Len(typed') - 1 : mem'[k] = typed'[k + 1]
      BY <3>1, <3>2, <3>3, <3>5, <3>6, <3>7
    <3>9. \A k \in Len(typed') .. MAX_BUFFER - 1 : mem'[k] = 0
      BY <3>1, <3>2, <3>3, <3>5, <3>7
    <3>10. QED
      BY <3>2, <3>3, <3>5, <3>8, <3>9 DEF TypeOK
  <2>3. CASE TypeDel
    BY <2>3 DEF TypeDel, TypeOK
  <2>4. CASE ReturnRead
    BY <2>4 DEF ReturnRead, TypeOK
  <2>5. CASE Check
    BY <2>5 DEF Check, StartButtons
  <2>6. ASSUME ReadOther \/ PollDown \/ PollUpAwait \/ PollUp \/ Show \/ EndPause
                 \/ SysTick_Handler \/ UNCHANGED vars
        PROVE  LineInv'
    <3>1. UNCHANGED <<lineVars, lineHistory, mem>>
      BY <2>6 DEF ReadOther, PollDown, PollUpAwait, PollUp, Show, EndPause,
         SysTick_Handler, vars
    <3>2. pc' \in {"line", "check"} => pc' = pc
      BY <2>6 DEF ReadOther, StartButtons, PollDown, PollUpAwait, PollUp, Show,
         EndPause, SysTick_Handler, vars
    <3>3. QED
      BY <3>1, <3>2
  <2>7. QED
    BY <2>1, <2>2, <2>3, <2>4, <2>5, <2>6 DEF Next, ReadKey, Line
<1>3. QED
  BY <1>1, <1>2, TypeCorrect, CursorKept, PTL DEF Spec

\* What has been read says whether the line is complete.
HalfInv ==
  /\ pc = "line" => 2 * readBytes < MAX_BUFFER
  /\ pc = "check" => 2 * readBytes >= MAX_BUFFER /\ pass = 0

\* A line is complete as soon as half of buffer[] has been read, and without a DEL
\* that is half of buffer[] typed.
THEOREM LineEnds == Spec => []LineEndsAtHalf
<1> USE SizeAssumption DEF HalfInv
<1>1. Init => HalfInv
  BY DEF Init
<1>2. ASSUME HalfInv, TypeOK, CursorInv, [Next]_vars PROVE HalfInv'
  <2> USE <1>2
  <2>1. CASE ReadColon
    BY <2>1 DEF ReadColon
  <2>2. CASE ReturnRead
    <3>1. /\ numBytes' = numBytes - pass /\ readBytes' = readBytes + pass /\ pass' = 0
          /\ pc' = IF readBytes' < numBytes' THEN "line" ELSE "check"
      BY <2>2 DEF ReturnRead
    <3>2. numBytes' + readBytes' = MAX_BUFFER /\ numBytes' \in Int /\ readBytes' \in Int
      BY <2>2, <3>1 DEF ReturnRead, CursorInv, TypeOK
    <3>3. QED
      BY <3>1, <3>2
  <2>3. ASSUME (\E ch \in Keys : TypeChar(ch)) \/ TypeDel PROVE HalfInv'
    BY <2>3 DEF TypeChar, TypeDel
  <2>4. CASE Check
    BY <2>4 DEF Check, StartButtons
  <2>5. ASSUME ReadOther \/ PollDown \/ PollUpAwait \/ PollUp \/ Show \/ EndPause
                 \/ SysTick_Handler \/ UNCHANGED vars
        PROVE  HalfInv'
    <3>1. UNCHANGED lineVars /\ (pc' \in {"line", "check"} => pc' = pc)
      BY <2>5 DEF ReadOther, StartButtons, PollDown, PollUpAwait, PollUp, Show,
         EndPause, SysTick_Handler, vars
    <3>2. QED
      BY <3>1
  <2>6. QED
    BY <2>1, <2>2, <2>3, <2>4, <2>5 DEF Next, ReadKey, Line
<1>3. HalfInv /\ LineInv /\ TypeOK => LineEndsAtHalf
  BY DEF LineInv, LineEndsAtHalf, Cursor, TypeOK
<1>4. QED
  BY <1>1, <1>2, <1>3, LineKept, CursorKept, TypeCorrect, PTL DEF Spec

\* A line without DEL that does not fill buffer[] is converted as it was typed.
LEMMA LineConverted ==
  ASSUME LineInv, TypeOK, pc = "check", dels = 0, Len(typed) < MAX_BUFFER
  PROVE  strtol(mem, MAX_BUFFER - 1 + MaxDel) = ValueOf(typed)
<1> DEFINE last == MAX_BUFFER - 1 + MaxDel
           m    == Len(typed)
           word == [k \in 0 .. Len(typed) - 1 |-> typed[k + 1]]
<1>1. last \in Nat /\ m \in 0 .. last /\ m \in 0 .. MAX_BUFFER - 1
  BY SizeAssumption DEF TypeOK
<1>2. \A k \in 0 .. m - 1 : mem[k] = word[k]
  BY DEF LineInv
<1>3. mem[m] \notin HexDigits
  <2>1. mem[m] = 0
    BY <1>1 DEF LineInv
  <2>2. QED
    BY <2>1 DEF HexDigits
<1>4. strtol(mem, last) = strtol(word, m - 1)
  <2> HIDE DEF last, m, word
  <2>1. QED
    BY <1>1, <1>2, <1>3, StrtolOfPrefix
<1>5. QED
  BY <1>4 DEF ValueOf

\* A value that is taken from a line without DEL, shorter than buffer[], is the
\* number typed: no byte of an earlier line or of the stack counts.
THEOREM TakesWhatIsTyped == Spec => TakenIsTyped
<1>1. ASSUME LineInv, TypeOK, [Next]_vars, pc = "check", dels = 0,
             Len(typed) < MAX_BUFFER
      PROVE  input_value' \in {input_value, ValueOf(typed)}
  <2>1. \/ input_value' = input_value
        \/ check_input # NoValue /\ input_value' = check_input
    BY <1>1 DEF Next, ReadKey, Line, ReadOther, ReadColon, TypeChar, TypeDel,
       ReturnRead, Check, PollDown, PollUpAwait, PollUp, Show, EndPause,
       SysTick_Handler, vars
  <2>2. check_input # NoValue => check_input = ValueOf(typed)
    BY <1>1, LineConverted DEF check_input
  <2>3. QED
    BY <2>1, <2>2
<1>2. LineInv /\ TypeOK /\ [Next]_vars =>
        [pc = "check" /\ dels = 0 /\ Len(typed) < MAX_BUFFER =>
           input_value' \in {input_value, ValueOf(typed)}]_vars
  BY <1>1
<1>3. QED
  BY <1>2, LineKept, TypeCorrect, PTL DEF Spec, TakenIsTyped

\* Two keys are worth less than 256.
LEMMA TwoKeysFit ==
  ASSUME NEW line \in Seq(Byte), Len(line) <= 2
  PROVE  ValueOf(line) <= 255
<1>0. PICK n \in Nat : n = Len(line)
  OBVIOUS
<1> DEFINE m    == Len(line)
           word == [k \in 0 .. Len(line) - 1 |-> line[k + 1]]
           W    == DigitsWorth(word, m - 1)
           d    == EndOfDigits(word, m - 1)
<1> HIDE DEF m, word, W, d
<1>1. m \in 0 .. 2 /\ (m - 1) + 1 = m
  BY <1>0 DEF m
<1>2. d \in 0 .. m /\ \A k \in 0 .. d - 1 : word[k] \in HexDigits
  BY <1>1, DigitsEnd DEF d
<1>3. W[0] = 0 /\ \A k \in 1 .. m : W[k] = W[k - 1] * 16 + DigitValue(word[k - 1])
  BY <1>1, WorthOfOneMore DEF W
<1>4. CASE d = 0
  BY <1>3, <1>4 DEF ValueOf, strtol, m, word, W, d
<1>5. CASE d >= 1
  <2>1. W[1] = DigitValue(word[0]) /\ DigitValue(word[0]) \in 0 .. 15
    <3>1. word[0] \in HexDigits
      BY <1>2, <1>5
    <3>2. DigitValue(word[0]) \in 0 .. 15
      BY <3>1, DigitRange
    <3>3. W[1] = W[0] * 16 + DigitValue(word[0])
      BY <1>1, <1>2, <1>3, <1>5
    <3>4. QED
      BY <1>3, <3>2, <3>3
  <2>2. CASE d = 1
    <3>1. W[1] <= 255
      BY <2>1
    <3>2. QED
      BY <2>2, <3>1 DEF ValueOf, strtol, m, word, W, d
  <2>3. CASE d = 2
    <3>1. DigitValue(word[1]) \in 0 .. 15
      BY <1>2, <2>3, DigitRange
    <3>2. W[2] = W[1] * 16 + DigitValue(word[1])
      BY <1>1, <1>2, <1>3, <2>3
    <3>3. W[2] <= 255
      <4>1. \A x, y \in 0 .. 15 : x * 16 + y <= 255
        OBVIOUS
      <4>2. W[1] \in 0 .. 15
        BY <2>1
      <4>3. QED
        BY <3>1, <3>2, <4>1, <4>2
    <3>4. QED
      BY <2>3, <3>3 DEF ValueOf, strtol, m, word, W, d
  <2>4. QED
    BY <1>1, <1>2, <1>5, <2>2, <2>3
<1>6. QED
  BY <1>1, <1>2, <1>4, <1>5

\* The value leaves the range of the prompt in one way only: a line of three keys
\* or more, one with a DEL, or one that fills buffer[].
THEOREM RangeIsKept == Spec => RangeLeftByLongLine
<1>1. ASSUME LineInv, TypeOK, [Next]_vars, input_value <= 255, input_value' > 255
      PROVE  pc = "check" /\ (dels > 0 \/ Len(typed) > 2 \/ Len(typed) = MAX_BUFFER)
  <2>1. \/ UNCHANGED input_value
        \/ pc = "check" /\ check_input # NoValue /\ input_value' = check_input
        \/ pc = "button" /\ input_value' = ButtonValue(button)
    BY <1>1 DEF Next, ReadKey, Line, ReadOther, ReadColon, TypeChar, TypeDel,
       ReturnRead, Check, PollDown, PollUpAwait, PollUp, Show, EndPause,
       SysTick_Handler, vars
  <2>2. ~(UNCHANGED input_value)
    BY <1>1 DEF TypeOK
  <2>3. ~(pc = "button" /\ input_value' = ButtonValue(button))
    BY <1>1 DEF TypeOK, Buttons, ButtonValue
  <2>4. pc = "check" /\ check_input # NoValue /\ input_value' = check_input
    BY <2>1, <2>2, <2>3
  <2>5. ASSUME dels = 0, Len(typed) <= 2, Len(typed) < MAX_BUFFER PROVE FALSE
    <3>1. check_input = ValueOf(typed)
      BY <1>1, <2>4, <2>5, LineConverted DEF check_input
    <3>2. ValueOf(typed) <= 255
      BY <1>1, <2>5, TwoKeysFit DEF TypeOK
    <3>3. QED
      BY <1>1, <2>4, <3>1, <3>2, CheckedIsNatural
  <2>6. dels \in Nat /\ Len(typed) \in Nat /\ MAX_BUFFER \in Nat
    BY <1>1, SizeAssumption DEF TypeOK
  <2>7. dels = 0 => Len(typed) <= MAX_BUFFER
    BY <1>1, <2>4 DEF LineInv
  <2>8. QED
    BY <2>4, <2>5, <2>6, <2>7
<1>2. LineInv /\ TypeOK /\ [Next]_vars =>
        [input_value <= 255 /\ input_value' > 255 =>
           pc = "check" /\ (dels > 0 \/ Len(typed) > 2 \/ Len(typed) = MAX_BUFFER)]_vars
  BY <1>1
<1>3. QED
  BY <1>2, LineKept, TypeCorrect, PTL DEF Spec, RangeLeftByLongLine
=============================================================================
