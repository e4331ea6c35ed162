-------------------------------- MODULE Kmem --------------------------------
(***************************************************************************)
(* The kernel heap of gcc/kmem.c: a chain of chunks, each behind a header  *)
(* of eight bytes that holds its size and whether it is taken.             *)
(*                                                                         *)
(* Offsets of headers count headers (eight bytes) from KMEM_HEAD, sizes    *)
(* count bytes, and the code adds one to the other (kmem.c:49, 62, 85): a  *)
(* chunk of n bytes is followed by a header n headers, eight times n       *)
(* bytes, further on.                                                      *)
(***************************************************************************)
EXTENDS Integers

CONSTANTS
  KmemBytes,      \* KMEM_ALLOC * PAGE_SIZE
  KmemRequests    \* sizes the program asks for

ASSUME KmemAssumption ==
  /\ KmemBytes \in Nat \ {0} /\ KmemBytes % 8 = 0
  /\ KmemRequests \subseteq Nat \ {0}   \* kmalloc(0) makes a chunk the walks never leave

VARIABLES
  chunk,   \* offset of each header on the chain -> its size
  taken,   \* the offsets whose header has ATaken set
  head,    \* where coalesce stands, or Idle
  kheld    \* blocks the program holds: [base, len] in bytes from KMEM_HEAD

kmemVars == <<chunk, taken, head, kheld>>

Idle == -1

align_val(val) == val + ((8 - (val % 8)) % 8)

kmem_init ==
  /\ chunk = [h \in {0} |-> KmemBytes]
  /\ taken = {}
  /\ head = Idle
  /\ kheld = {}

\* The first free chunk that is large enough; the walk gives up at the end of
\* the region, an eighth of the way along the chain.
Candidate(h, size) ==
  /\ h \in DOMAIN chunk \ taken
  /\ 8 * h < KmemBytes
  /\ size <= chunk[h]

FirstFit(h, size) ==
  /\ Candidate(h, size)
  /\ \A g \in DOMAIN chunk : Candidate(g, size) => h <= g

\* Mutant: the chunk is not marked.
Hand_unmarked(h, sz) ==
  /\ kheld' = kheld \cup {[base |-> 8 * h + 8, len |-> sz]}
  /\ UNCHANGED <<taken, head>>

Hand(h, sz) ==
  /\ taken' = taken \cup {h}
  /\ kheld' = kheld \cup {[base |-> 8 * h + 8, len |-> sz]}
  /\ UNCHANGED head

\* Mutant: the remainder is counted without its header.
SplitChunk_rem_less_header(sz) ==
  \E h \in DOMAIN chunk :
    LET size == align_val(sz)
        next == h + size
    IN  /\ head = Idle
        /\ FirstFit(h, size)
        /\ chunk[h] - size > 8
        /\ chunk' = [g \in DOMAIN chunk \cup {next} |->
                       CASE g = next -> chunk[h] - size - 8 [] g = h -> size [] OTHER -> chunk[g]]
        /\ Hand(h, sz)

SplitChunk(sz) ==
  \E h \in DOMAIN chunk :
    LET size == align_val(sz)
        rem  == chunk[h] - size
        next == h + size
    IN  /\ head = Idle
        /\ FirstFit(h, size)
        /\ rem > 8
        /\ chunk' = [g \in DOMAIN chunk \cup {next} |->
                       CASE g = next -> rem [] g = h -> size [] OTHER -> chunk[g]]
        /\ Hand(h, sz)

WholeChunk(sz) ==
  \E h \in DOMAIN chunk :
    /\ head = Idle
    /\ FirstFit(h, align_val(sz))
    /\ chunk[h] - align_val(sz) <= 8
    /\ Hand(h, sz)
    /\ UNCHANGED chunk

kmalloc(sz) == SplitChunk(sz) \/ WholeChunk(sz)

\* kfree clears the mark and calls coalesce.
kfree(b) ==
  /\ head = Idle
  /\ taken' = taken \ {(b.base - 8) \div 8}
  /\ kheld' = kheld \ {b}
  /\ head' = 0
  /\ UNCHANGED chunk

BothFree(next) == head \notin taken /\ next \notin taken

\* One turn of coalesce's loop: a free chunk takes in a free successor, once,
\* and the walk goes on behind both.  Its end is the end of the chain.
coalesce ==
  LET next == head + chunk[head]
      both == chunk[head] + chunk[next]
      Past(h) == IF h < KmemBytes THEN h ELSE Idle
  IN  /\ head # Idle
      /\ \/ /\ next >= KmemBytes
            /\ head' = Idle
            /\ UNCHANGED chunk
         \/ /\ next < KmemBytes
            /\ BothFree(next)
            /\ chunk' = [g \in DOMAIN chunk \ {next} |-> IF g = head THEN both ELSE chunk[g]]
            /\ head' = Past(head + both)
         \/ /\ next < KmemBytes
            /\ ~BothFree(next)
            /\ head' = next
            /\ UNCHANGED chunk
      /\ UNCHANGED <<taken, kheld>>

KmemNext ==
  \/ \E sz \in KmemRequests : kmalloc(sz)
  \/ \E b \in kheld : kfree(b)
  \/ coalesce

KmemSpec == kmem_init /\ [][KmemNext]_kmemVars

------------------------------------------------------------------------------
(* Properties. *)

KmemTypeOK ==
  /\ chunk \in [DOMAIN chunk -> Nat \ {0}] /\ DOMAIN chunk \subseteq Nat
  /\ taken \subseteq DOMAIN chunk
  /\ head \in DOMAIN chunk \cup {Idle}
  /\ kheld \subseteq [base : Nat, len : Nat]

\* The walks of kmalloc and coalesce step from chunk to chunk: from the first
\* header on, each chunk leads to the next, and the last one to the end of the
\* chain, which coalesce reaches (kmalloc stops after an eighth of it).
ChainWhole ==
  /\ 0 \in DOMAIN chunk
  /\ \A h \in DOMAIN chunk :
       /\ h + chunk[h] \in DOMAIN chunk \cup {KmemBytes}
       /\ \A g \in DOMAIN chunk : h < g => h + chunk[h] <= g

\* A chunk is marked taken if and only if the program holds a block in it,
\* one that fits: merging never swallows a block in use.
TakenHeld ==
  /\ taken = {(b.base - 8) \div 8 : b \in kheld}
  /\ \A b \in kheld : /\ b.base % 8 = 0 /\ (b.base - 8) \div 8 \in DOMAIN chunk
                      /\ b.len <= chunk[(b.base - 8) \div 8]
  /\ \A b, c \in kheld : b.base = c.base => b = c

KernelUser == INSTANCE Heap WITH live <- kheld

\* A block shares no byte with a block still held, although headers and
\* blocks are measured in different units.
KmemImplements == KernelUser!Spec
=============================================================================
