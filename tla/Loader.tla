------------------------------- MODULE Loader -------------------------------
(***************************************************************************)
(* Loading a program over the serial line: the resident kernel             *)
(* (gcc/kernel.c, gcc/kboot.S) and the host's script (gcc/reprogram.py).   *)
(***************************************************************************)
EXTENDS Uart

CONSTANTS
  Magic,       \* the four bytes of 0xdeadbeef, least significant first
  Words,       \* words, as bytes, that images are made of
  MaxImage,    \* bound: words of an image
  MemWords,    \* mem_end, in words: the room for a program
  Greeting,    \* the characters of "loading program\n", and so on
  Loaded, Sad, TooLarge,
  Downloads    \* bound: downloads per behaviour

\* An image with the magic word in it ends there for the kernel, one of
\* mem_end bytes or more is refused.  The kernel asks for room in front of a
\* message only and listens behind it only: the messages fit into the FIFO,
\* and so does what arrives while it waits with Sad, and with the greeting.
ASSUME LoaderAssumption ==
  /\ Magic \in [1 .. 4 -> 0 .. 255]
  /\ Words \subseteq [1 .. 4 -> 0 .. 255] \ {Magic}
  /\ MaxImage \in Nat /\ MemWords \in Nat /\ MaxImage < MemWords
  /\ {Greeting, Loaded, Sad, TooLarge} \subseteq Seq(Nat)
  /\ Len(Loaded) \in 1 .. FifoDepth /\ Len(Sad) >= 1
  /\ Len(Greeting) \in 4 .. FifoDepth
  /\ Len(Greeting) - 4 + Len(Sad) <= FifoDepth

VARIABLES
  kpc,       \* what the kernel is doing: "print", "word", "running"
  message,   \* the string uart_print prints,
  offset,    \* how far it is,
  next,      \* and what comes then
  buf,       \* bytes of the word being read
  opened,    \* load_program has got its magic word
  ram,       \* the words stored from base_addr on
  image,     \* what the host has last downloaded
  count,     \* downloads so far
  steady     \* history: no reset since the last download, nor in the bytes
             \* before it

kernelVars == <<kpc, message, offset, next, buf, opened, ram>>
download == <<image, count, steady>>
loaderVars == <<uartVars, kernelVars, download>>

LoaderInit ==
  /\ UartInit
  /\ kpc = "print" /\ message = Greeting /\ offset = 1 /\ next = "word"
  /\ buf = <<>> /\ opened = FALSE /\ ram = <<>>
  /\ image = <<>> /\ count = 0 /\ steady = FALSE

uart_print(c, then) ==
  kpc' = "print" /\ message' = c /\ offset' = 1 /\ next' = then

\* main greets and goes on to load_program.
Start == uart_print(Greeting, "word") /\ buf' = <<>> /\ opened' = FALSE

\* Mutant: goes back to the print, not to the start of load_program.
Return_repeats ==
  /\ kpc = "print" /\ offset > Len(message)
  /\ IF next = "restart" THEN uart_print(message, "restart") /\ UNCHANGED <<buf, opened>>
     ELSE kpc' = next /\ UNCHANGED <<message, offset, next, buf, opened>>
  /\ UNCHANGED <<uartVars, ram, download>>

\* kboot.S jumps to what main returns: to 0, where the kernel begins, or to
\* the program.
Return ==
  /\ kpc = "print" /\ offset > Len(message)
  /\ IF next = "restart" THEN Start
     ELSE kpc' = next /\ UNCHANGED <<message, offset, next, buf, opened>>
  /\ UNCHANGED <<uartVars, ram, download>>

\* Only the first character waits for room.
PrintChar ==
  /\ kpc = "print" /\ offset <= Len(message)
  /\ IF offset = 1 THEN uart_put_blocking(message[1]) ELSE uart_put(message[offset])
  /\ offset' = offset + 1
  /\ UNCHANGED <<kpc, message, next, buf, opened, ram, download>>

uart_read_word ==
  /\ kpc = "word" /\ Len(buf) < Len(Magic)
  /\ uart_read_blocking
  /\ buf' = Append(buf, Head(rx))
  /\ UNCHANGED <<kpc, message, offset, next, opened, ram, download>>

Word(x) == kpc = "word" /\ buf = x /\ buf' = <<>> /\ UNCHANGED <<uartVars, download>>

\* Mutant: the address is not set back.
FirstMagic_no_reset ==
  /\ ~opened /\ Word(Magic)
  /\ opened' = TRUE /\ ram' = ram
  /\ UNCHANGED <<kpc, message, offset, next>>

FirstMagic ==
  /\ ~opened /\ Word(Magic)
  /\ opened' = TRUE /\ ram' = <<>>
  /\ UNCHANGED <<kpc, message, offset, next>>

NoMagic ==
  /\ ~opened /\ Len(buf) = Len(Magic) /\ buf # Magic /\ Word(buf)
  /\ uart_print(Sad, "restart")
  /\ UNCHANGED <<opened, ram>>

LastMagic ==
  /\ opened /\ Word(Magic)
  /\ uart_print(Loaded, "running")
  /\ UNCHANGED <<opened, ram>>

Store ==
  /\ opened /\ Len(buf) = Len(Magic) /\ buf # Magic /\ Word(buf)
  /\ ram' = Append(ram, buf)
  /\ IF Len(ram') < MemWords THEN UNCHANGED <<kpc, message, offset, next>>
                             ELSE uart_print(TooLarge, "restart")
  /\ UNCHANGED opened

load_program == uart_read_word \/ FirstMagic \/ NoMagic \/ LastMagic \/ Store

Kernel == Return \/ PrintChar \/ load_program

\* The reset button starts the kernel again and clears the UART, whatever is
\* going on.
ResetButton ==
  /\ Start
  /\ UartReset
  /\ steady' = FALSE
  /\ UNCHANGED <<ram, image, count>>

Bytes(words) ==
  [k \in 1 .. Len(words) * Len(Magic) |->
     words[((k - 1) \div Len(Magic)) + 1][((k - 1) % Len(Magic)) + 1]]

\* Nothing is on its way to the kernel or being read by it, nor has it
\* started a program: whoever starts the script can see no more than that.
Idle ==
  /\ wire_in = <<>> /\ rx = <<>> /\ next # "running"
  /\ kpc = "word" => Len(buf) < Len(Magic)

\* reprogram.py sends the magic word, the words of the file and the magic
\* word again.  Somebody may have sent a word of something else before.
Download(junk, prog) ==
  /\ count < Downloads
  /\ Idle
  /\ HostWrite(Bytes(junk \o <<Magic>> \o prog \o <<Magic>>))
  /\ image' = prog /\ count' = count + 1 /\ steady' = ~cut
  /\ UNCHANGED kernelVars

\* Time passes while the firmware polls in vain or a program runs.
Polls ==
  \/ kpc = "word" /\ Len(buf) < Len(Magic) /\ ~DataReady
  \/ kpc = "print" /\ offset = 1 /\ ~RoomToSend
  \/ kpc = "running"

ByteTime == Polls /\ inbox = <<>> /\ Tick /\ UNCHANGED <<kernelVars, download>>

HostHears == HostRead(1) /\ UNCHANGED <<kernelVars, download>>

Images == UNION {[1 .. n -> Words] : n \in 0 .. MaxImage}

LoaderNext ==
  \/ Kernel
  \/ ByteTime
  \/ HostHears
  \/ ResetButton
  \/ \E junk \in {<<>>} \cup {<<x>> : x \in Words}, prog \in Images : Download(junk, prog)

\* The kernel runs by itself, and the host's pauses end.
LoaderFairness ==
  /\ WF_loaderVars(Kernel)
  /\ WF_loaderVars(HostHears)
  /\ WF_loaderVars(ByteTime /\ (wire_in # <<>> => wire_in' # wire_in))

LoaderSpec == LoaderInit /\ [][LoaderNext]_loaderVars /\ LoaderFairness

------------------------------------------------------------------------------
(* Properties. *)

\* The program that is started is the one the host has sent, word for word:
\* nothing of an earlier download is left, nothing after it taken along, and
\* no reset in the middle of a download is felt any more once there has been
\* another one on a quiet line.
RunsWhatWasSent == ~cut /\ (kpc = "running" \/ next = "running") => ram = image

\* Every download ends with the program being started, whatever word came
\* before it, unless the reset button ends it.
DownloadsRun == steady ~> (kpc = "running" \/ ~steady)
=============================================================================
