------------------------------ MODULE Readline ------------------------------
(***************************************************************************)
(* Lines typed by a person, read and echoed by readline of gcc/uart.c,     *)
(* which a program calls again and again with the same buffer (as in the   *)
(* loop of gcc/atest.c, whose braces are commented out at present).        *)
(***************************************************************************)
EXTENDS Uart

CONSTANTS
  Chars,      \* what is typed, besides CR
  LineLen,    \* len, the size of the buffer
  MaxCRs,     \* times CR is typed before the echo has caught up
  MaxAhead    \* bound: characters on the wire

CR == 13
LF == 10

\* A CR is echoed by two characters.  The others can be typed, or pasted, at
\* full line speed for ever, but FifoDepth CRs overrun the transmit FIFO if it
\* never runs empty among them.
ASSUME ReadlineAssumption ==
  /\ Chars \subseteq (1 .. 255) \ {CR, LF}
  /\ LineLen \in Nat \ {0} /\ MaxCRs \in 0 .. FifoDepth - 1 /\ MaxAhead \in Nat

VARIABLES
  c,        \* the buffer
  i,        \* the loop's index
  rpc,      \* "read", "newline" (between the two characters for a CR), "done"
  line,     \* history: the keys this call has read, CR not among them
  crs       \* how often CR has been typed since the echo last caught up

readlineVars == <<uartVars, c, i, rpc, line, crs>>

ReadlineInit ==
  /\ UartInit
  /\ c = [k \in 0 .. LineLen - 1 |-> 0]
  /\ i = 0 /\ rpc = "read" /\ line = <<>> /\ crs = 0

CaughtUp == wire_in = <<>> /\ rx = <<>> /\ tx = <<>>

Press(k) ==
  /\ Len(wire_in) < MaxAhead
  /\ HostWrite(<<k>>)
  /\ crs' = (IF CaughtUp THEN 0 ELSE crs) + (IF k = CR THEN 1 ELSE 0)
  /\ crs' <= MaxCRs
  /\ UNCHANGED <<c, i, rpc, line>>

\* One character is read and echoed: no store to the UART comes in between.
Echo(k) ==
  /\ DataReady /\ rx' = Tail(rx)
  /\ IF Len(tx) < FifoDepth THEN tx' = Append(tx, k) /\ UNCHANGED overrun
                            ELSE overrun' = TRUE /\ UNCHANGED tx
  /\ due' = Append(due, k)
  /\ UNCHANGED <<wire_in, tsr, inbox, cut>>

ReadChar ==
  /\ rpc = "read" /\ DataReady /\ Head(rx) # CR
  /\ Echo(Head(rx))
  /\ c' = [c EXCEPT ![i] = Head(rx)]
  /\ i' = i + 1
  /\ rpc' = IF i + 1 < LineLen THEN "read" ELSE "done"
  /\ line' = Append(line, Head(rx))
  /\ UNCHANGED crs

\* Mutant: the rest of the buffer stays.
ReadCR_no_fill ==
  /\ rpc = "read" /\ DataReady /\ Head(rx) = CR
  /\ Echo(CR)
  /\ c' = c
  /\ rpc' = "newline"
  /\ UNCHANGED <<i, line, crs>>

ReadCR ==
  /\ rpc = "read" /\ DataReady /\ Head(rx) = CR
  /\ Echo(CR)
  /\ c' = [j \in DOMAIN c |-> IF j >= i THEN 0 ELSE c[j]]
  /\ rpc' = "newline"
  /\ UNCHANGED <<i, line, crs>>

Newline ==
  /\ rpc = "newline"
  /\ uart_put(LF)
  /\ rpc' = "done"
  /\ UNCHANGED <<c, i, line, crs>>

\* The caller uses the line and calls readline again.
NextLine ==
  /\ rpc = "done"
  /\ i' = 0 /\ rpc' = "read" /\ line' = <<>>
  /\ UNCHANGED <<uartVars, c, crs>>

ReadlineTick ==
  /\ rpc = "read" /\ ~DataReady
  /\ inbox = <<>>
  /\ Tick
  /\ UNCHANGED <<c, i, rpc, line, crs>>

SeeEcho == HostRead(1) /\ UNCHANGED <<c, i, rpc, line, crs>>

ReadlineNext ==
  \/ ReadChar \/ ReadCR \/ Newline \/ NextLine
  \/ ReadlineTick \/ SeeEcho
  \/ \E k \in Chars \cup {CR} : Press(k)

ReadlineSpec == ReadlineInit /\ [][ReadlineNext]_readlineVars

------------------------------------------------------------------------------
(* Properties. *)

\* readline returns the line that was typed, and nothing of the lines the
\* buffer held before: 0 from its end on, unless it fills the buffer.
LineReturned ==
  rpc = "done" =>
    c = [k \in 0 .. LineLen - 1 |-> IF k < Len(line) THEN line[k + 1] ELSE 0]
=============================================================================
