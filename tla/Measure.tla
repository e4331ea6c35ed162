------------------------------ MODULE Measure ------------------------------
(***************************************************************************)
(* The measurements over the serial line: the host's testing/term.py and   *)
(* the programs gcc/quicksort.c and gcc/fact.c, each of which reads a      *)
(* switch for the return address stack and a number, works, and sends its  *)
(* results and the time it took.  quicksort.c waits for an answer to each  *)
(* element, fact.c sends all at once.                                      *)
(***************************************************************************)
EXTENDS Uart

CONSTANTS
  MaxLen,    \* bound: elements to sort, and the n of fact
  Times,     \* what the cycle counter may show
  MaxTests   \* bound: tests per behaviour

\* The sum and the time fit 32 bits.  fact.c waits for nothing while it sends
\* both.
ASSUME MeasureAssumption ==
  /\ MaxLen \in Nat \ {0} /\ MaxLen < 65536 /\ MaxTests \in Nat
  /\ \A t \in Times : t \in Nat /\ t \div 65536 < 65536
  /\ FifoDepth >= 8

VARIABLES
  prog,     \* "sort" or "fact": which program is loaded
  mpc,      \* the program: "en", "number", "work", "wait", "send", "ack"
  acc,      \* bytes of the number being read
  queue,    \* numbers still to be sent, the time last
  out,      \* bytes of the number being sent
  host,     \* the host: "idle", "results", "time"
  asked,    \* the number the host has sent
  got,      \* the results it has read,
  cnt,      \* the time it has read,
  took,     \* and the time the counter showed
  tests

measureVars == <<uartVars, prog, mpc, acc, queue, out, host, asked, got, cnt, took, tests>>

boardVars == <<mpc, acc, queue, out, took>>
hostVars == <<host, asked, got, cnt, tests>>

IntBytes(a) == <<a % 256, (a \div 256) % 256, (a \div 65536) % 256, (a \div 16777216) % 256>>
ToInt(s) == s[1] + 256 * s[2] + 65536 * s[3] + 16777216 * s[4]

\* quicksort.c sorts len, len - 1, ..., 1; fact.c adds up n, n - 1, ..., 1.
Results(n) == IF prog = "sort" THEN [i \in 1 .. n |-> i] ELSE <<(n * (n + 1)) \div 2>>

MeasureInit ==
  /\ UartInit
  /\ prog \in {"sort", "fact"}
  /\ mpc = "en" /\ acc = <<>> /\ queue = <<>> /\ out = <<>> /\ took = 0
  /\ host = "idle" /\ asked = 0 /\ got = <<>> /\ cnt = 0 /\ tests = 0

ReadEnable ==
  /\ mpc = "en"
  /\ uart_read_blocking
  /\ mpc' = "number" /\ acc' = <<>>
  /\ UNCHANGED <<prog, queue, out, took, hostVars>>

recv_int ==
  /\ mpc = "number"
  /\ uart_read_blocking
  /\ acc' = Append(acc, Head(rx))
  /\ mpc' = IF Len(acc) = 3 THEN "work" ELSE "number"
  /\ UNCHANGED <<prog, queue, out, took, hostVars>>

\* Mutants: no element is acknowledged; the time is, too.
Acked_never == FALSE
Acked_time == prog = "sort" /\ queue # <<>>

\* Only the elements of the sorted array are sent one at a time.
Acked == prog = "sort" /\ Len(queue) > 1

Work ==
  /\ mpc = "work"
  /\ \E t \in Times :
       /\ took' = t
       /\ queue' = Append(Results(ToInt(acc)), t)
  /\ mpc' = "wait"
  /\ UNCHANGED <<uartVars, prog, acc, out, hostVars>>

\* while(!tx_fifo_empty()), for an element; then send_int.
SendNext ==
  /\ mpc = "wait" /\ queue # <<>>
  /\ Acked => RoomToSend
  /\ out' = IntBytes(Head(queue))
  /\ mpc' = "send"
  /\ UNCHANGED <<uartVars, prog, acc, queue, took, hostVars>>

send_int ==
  /\ mpc = "send" /\ out # <<>>
  /\ uart_put(Head(out))
  /\ out' = Tail(out)
  /\ UNCHANGED <<prog, mpc, acc, queue, took, hostVars>>

Sent ==
  /\ mpc = "send" /\ out = <<>>
  /\ mpc' = IF Acked THEN "ack" ELSE "wait"
  /\ queue' = Tail(queue)
  /\ UNCHANGED <<uartVars, prog, acc, out, took, hostVars>>

Ack ==
  /\ mpc = "ack"
  /\ uart_read_blocking
  /\ mpc' = "wait"
  /\ UNCHANGED <<prog, acc, queue, out, took, hostVars>>

Again ==
  /\ mpc = "wait" /\ queue = <<>>
  /\ mpc' = "en"
  /\ UNCHANGED <<uartVars, prog, acc, queue, out, took, hostVars>>

Board == ReadEnable \/ recv_int \/ Work \/ SendNext \/ send_int \/ Sent \/ Ack \/ Again

\* run_test, fact_test: send_byte(en), send_int(n)
StartTest(n) ==
  /\ host = "idle" /\ tests < MaxTests
  /\ HostWrite(<<tests % 2>> \o IntBytes(n))
  /\ host' = "results" /\ asked' = n /\ got' = <<>> /\ tests' = tests + 1
  /\ UNCHANGED <<prog, boardVars, cnt>>

Complete == Len(got) = Len(Results(asked))

\* recv_byte reads four bytes; run_test answers with one.
HostResult ==
  /\ host = "results" /\ ~Complete
  /\ Len(inbox) >= 4
  /\ inbox' = SubSeq(inbox, 5, Len(inbox)) /\ due' = SubSeq(due, 5, Len(due))
  /\ wire_in' = IF prog = "sort" THEN Append(wire_in, 0) ELSE wire_in
  /\ got' = Append(got, ToInt(inbox))
  /\ UNCHANGED <<rx, tx, tsr, overrun, cut, prog, boardVars, host, asked, cnt, tests>>

HostTime ==
  /\ host = "results" /\ Complete
  /\ HostRead(4) /\ cnt' = ToInt(inbox)
  /\ host' = "idle"
  /\ UNCHANGED <<prog, boardVars, asked, got, tests>>

Host == HostResult \/ HostTime

\* Time passes while the program works or polls in vain.
MeasureTick ==
  /\ \/ mpc \in {"en", "number", "ack"} /\ ~DataReady
     \/ mpc = "wait" /\ Acked /\ ~RoomToSend
     \/ mpc = "work"
  /\ Tick
  /\ UNCHANGED <<prog, boardVars, hostVars>>

MeasureNext ==
  \/ Board \/ Host \/ MeasureTick
  \/ \E n \in 1 .. MaxLen : StartTest(n)

MeasureFairness ==
  /\ WF_measureVars(Board) /\ WF_measureVars(Host)
  /\ WF_measureVars(MeasureTick /\ (wire_in # <<>> => wire_in' # wire_in))

MeasureSpec == MeasureInit /\ [][MeasureNext]_measureVars /\ MeasureFairness

------------------------------------------------------------------------------
(* Properties. *)

\* When a test is over for the host, it has the results of what it asked for
\* and the time the board measured for it, and the board waits for the next
\* test with nothing on the way: the two have not lost step.
InStep ==
  host = "idle" /\ tests > 0 =>
    /\ got = Results(asked) /\ cnt = took
    /\ mpc \in {"en", "wait", "send"} /\ queue \in {<<>>, <<took>>} /\ out = <<>>
    /\ wire_in = <<>> /\ rx = <<>> /\ tx = <<>> /\ tsr = <<>> /\ inbox = <<>>

\* No test leaves the two waiting for each other.
TestsEnd == (host = "results") ~> (host = "idle")
=============================================================================
