-------------------------------- MODULE Rle --------------------------------
(***************************************************************************)
(* The run-length coding of the canvas: rle_compress of the master         *)
(* (server/src/master.rs), and rle_decompress of the load generator        *)
(* (client/src/main.rs) run on what it has written.  Both are modelled     *)
(* step by step: the vector loop and the scalar loop of the compressor     *)
(* share the index and the counter, and the decompressor writes into a     *)
(* buffer that may be too short.  The avx2 and the sse2 branch differ in   *)
(* LANES only.                                                             *)
(***************************************************************************)
EXTENDS Integers, Sequences

CONSTANTS
  Color,
  LANES,       \* bytes compared at once: 32 (avx2) or 16 (sse2)
  MAX_COUNT,   \* longest run of one pair: 255
  MAX_LEN      \* bound on the length of the canvas and of the buffers

ASSUME RleAssumption ==
  /\ LANES \in Nat \ {0} /\ MAX_COUNT \in Nat \ {0} /\ MAX_LEN \in Nat
  /\ Color # {}

VARIABLES
  src,          \* the canvas
  dst,          \* the compressed bytes so far
  src_idx,      \* bytes of src consumed
  color, count, \* the run in progress; when decompressing, what is left of it
  phase,        \* the loop that is running
  room,         \* length of the buffer that is decompressed into
  read_idx,     \* bytes of dst consumed
  out,          \* the part of that buffer that is written
  ends          \* history: src_idx after each pair

codeVars == <<src, dst, src_idx, ends>>
rleVars == <<src, dst, src_idx, color, count, phase, room, read_idx, out, ends>>

RleInit ==
  /\ src \in UNION {[1 .. n -> Color] : n \in 0 .. MAX_LEN}
  /\ dst = << >>
  /\ src_idx = 0
  /\ color = CHOOSE c \in Color : TRUE
  /\ count = 0
  /\ phase = "next"
  /\ room \in 0 .. MAX_LEN
  /\ read_idx = 0
  /\ out = << >>
  /\ ends = << >>

-----------------------------------------------------------------------------
(* rle_compress.                                                            *)

(* The outer loop takes the first byte of a run. *)
AfterFirst_Forgotten == src_idx
AfterFirst == src_idx + 1
NextRun ==
  /\ phase = "next"
  /\ src_idx < Len(src)
  /\ color' = src[src_idx + 1]
  /\ count' = 1
  /\ src_idx' = AfterFirst
  /\ phase' = "vector"
  /\ UNCHANGED <<src, dst, room, read_idx, out, ends>>

(* The vector loop goes on while a whole vector is left in the source and   *)
(* in the counter.                                                          *)
VectorFits_Unchecked == src_idx + LANES <= Len(src)
VectorFits == src_idx + LANES <= Len(src) /\ count + LANES <= MAX_COUNT

(* Length of the longest prefix of the vector that has the colour: the      *)
(* trailing ones of the comparison mask.                                    *)
Matching ==
  CHOOSE k \in 0 .. LANES :
    /\ \A i \in 1 .. k : src[src_idx + i] = color
    /\ k < LANES => src[src_idx + k + 1] # color

(* A vector that is not all of the colour ends the loop. *)
AfterVector_NoBreak(k) == "vector"
AfterVector(k) == IF k = LANES THEN "vector" ELSE "scalar"

VectorStep ==
  /\ phase = "vector"
  /\ VectorFits
  /\ count' = count + Matching
  /\ src_idx' = src_idx + Matching
  /\ phase' = AfterVector(Matching)
  /\ UNCHANGED <<src, dst, color, room, read_idx, out, ends>>

VectorDone ==
  /\ phase = "vector"
  /\ ~ VectorFits
  /\ phase' = "scalar"
  /\ UNCHANGED <<codeVars, color, count, room, read_idx, out>>

(* The scalar loop takes the rest. *)
ScalarGoes_OneShort ==
  src_idx < Len(src) /\ src[src_idx + 1] = color /\ count < MAX_COUNT - 1
ScalarGoes == src_idx < Len(src) /\ src[src_idx + 1] = color /\ count < MAX_COUNT

ScalarStep ==
  /\ phase = "scalar"
  /\ ScalarGoes
  /\ count' = count + 1
  /\ src_idx' = src_idx + 1
  /\ UNCHANGED <<src, dst, color, phase, room, read_idx, out, ends>>

(* count as u8, then the colour. *)
Emit ==
  /\ phase = "scalar"
  /\ ~ ScalarGoes
  /\ dst' = dst \o <<count % (MAX_COUNT + 1), color>>
  /\ ends' = Append(ends, src_idx)
  /\ phase' = "next"
  /\ UNCHANGED <<src, src_idx, color, count, room, read_idx, out>>

Compressed ==
  /\ phase = "next"
  /\ src_idx = Len(src)
  /\ phase' = "pair"
  /\ UNCHANGED <<codeVars, color, count, room, read_idx, out>>

-----------------------------------------------------------------------------
(* rle_decompress.                                                          *)

(* The outer loop goes on while a whole pair is left. *)
HasPair_OneShort == read_idx + 2 < Len(dst)
HasPair == read_idx + 1 < Len(dst)

ReadPair ==
  /\ phase = "pair"
  /\ HasPair
  /\ count' = dst[read_idx + 1]
  /\ color' = dst[read_idx + 2]
  /\ read_idx' = read_idx + 2
  /\ phase' = "write"
  /\ UNCHANGED <<codeVars, room, out>>

(* One turn of the inner loop writes a byte if there is room. *)
WriteColor ==
  /\ phase = "write"
  /\ count > 0
  /\ out' = IF Len(out) < room THEN Append(out, color) ELSE out
  /\ count' = count - 1
  /\ UNCHANGED <<codeVars, color, phase, room, read_idx>>

PairDone ==
  /\ phase = "write"
  /\ count = 0
  /\ phase' = "pair"
  /\ UNCHANGED <<codeVars, color, count, room, read_idx, out>>

Decompressed ==
  /\ phase = "pair"
  /\ ~ HasPair
  /\ phase' = "done"
  /\ UNCHANGED <<codeVars, color, count, room, read_idx, out>>

Terminated == phase = "done" /\ UNCHANGED rleVars

Compress == NextRun \/ VectorStep \/ VectorDone \/ ScalarStep \/ Emit \/ Compressed
Decompress == ReadPair \/ WriteColor \/ PairDone \/ Decompressed
RleNext == Compress \/ Decompress \/ Terminated

RleSpec == RleInit /\ [][RleNext]_rleVars /\ WF_rleVars(RleNext)

-----------------------------------------------------------------------------
(* Every variable has its type. *)
RleTypeOK ==
  /\ src \in Seq(Color) /\ dst \in Seq(Color \cup 0 .. MAX_COUNT) /\ out \in Seq(Color)
  /\ ends \in Seq(Nat)
  /\ color \in Color
  /\ {src_idx, count, room, read_idx} \subseteq Nat
  /\ phase \in {"next", "vector", "scalar", "pair", "write", "done"}

(* How much of the canvas the first k pairs stand for, and how much of it   *)
(* has been decompressed.                                                   *)
UpTo(k) == IF k = 0 THEN 0 ELSE ends[k]
Decoded == UpTo(read_idx \div 2) - (IF phase = "write" THEN count ELSE 0)

(* No index leaves its buffer: the compressed one has twice the size of the *)
(* canvas (canvas.rs:27-30), and a pair is written while a run goes on.     *)
InRun == phase \in {"vector", "scalar"}
InBounds ==
  /\ src_idx <= Len(src)
  /\ Len(dst) + (IF InRun THEN 2 ELSE 0) <= 2 * Len(src)
  /\ read_idx <= Len(dst) /\ Len(out) <= room

(* A pair is the length, as a byte, and the colour of the next stretch of   *)
(* the canvas.                                                              *)
PairsAreRuns ==
  /\ Len(dst) = 2 * Len(ends)
  /\ \A k \in 1 .. Len(ends) :
       /\ k <= ends[k] /\ ends[k] <= Len(src)
       /\ dst[2 * k - 1] \in 1 .. MAX_COUNT /\ dst[2 * k - 1] = ends[k] - UpTo(k - 1)
       /\ \A i \in UpTo(k - 1) + 1 .. ends[k] : src[i] = dst[2 * k]

(* The pairs and the run in progress stand for what has been consumed, and  *)
(* in the end for the whole canvas.                                         *)
PairsCover ==
  LET covered == UpTo(Len(ends))
  IN  /\ InRun => /\ count \in 1 .. MAX_COUNT /\ src_idx = covered + count
                  /\ \A i \in covered + 1 .. src_idx : src[i] = color
      /\ ~ InRun => src_idx = covered
      /\ phase \in {"pair", "write", "done"} => src_idx = Len(src)

(* What has been decompressed is the canvas up to there, as far as there is *)
(* room.                                                                    *)
DecodedSoFar ==
  /\ read_idx % 2 = 0
  /\ phase \in {"next", "vector", "scalar"} => read_idx = 0
  /\ phase = "write" =>
       read_idx > 0 /\ color = dst[read_idx] /\ count <= dst[read_idx - 1]
  /\ phase = "done" => read_idx = Len(dst)
  /\ Len(out) = IF Decoded < room THEN Decoded ELSE room
  /\ \A i \in 1 .. Len(out) : out[i] = src[i]

(* The loops keep this invariant: indices in bounds, and at every moment    *)
(* dst stands for what was read of src, and out for what was read of dst.   *)
LoopInv == RleTypeOK /\ InBounds /\ PairsAreRuns /\ PairsCover /\ DecodedSoFar

(* The code is as short as pairs allow, however the loops share a run: one  *)
(* pair follows another of its colour only when that one is full.           *)
LongestRuns ==
  \A k \in 1 .. Len(ends) :
    dst[2 * k - 1] < MAX_COUNT /\ ends[k] < Len(src) => src[ends[k] + 1] # dst[2 * k]

(* What is compressed decompresses to the canvas, or to as much of it as    *)
(* the buffer takes, whatever the number of lanes.                          *)
RoundTrip ==
  phase = "done" => out = SubSeq(src, 1, IF room < Len(src) THEN room ELSE Len(src))

(* An upper limit of the steps left, linear in the size of the canvas:      *)
(* eight for each pixel and two more.                                       *)
StepsLeft ==
  IF phase \in {"next", "vector", "scalar"}
  THEN 4 * (Len(src) - src_idx) + 4 * Len(src) + 2
         + CASE phase = "next" -> 0 [] phase = "scalar" -> 1 [] phase = "vector" -> 2
  ELSE 2 * (Len(src) - Decoded) + (Len(dst) - read_idx)
         + CASE phase = "done" -> 0 [] phase = "pair" -> 1 [] phase = "write" -> 2

(* Every step that changes anything comes nearer to the end, so the master  *)
(* spends a time linear in the canvas in the compressor.  (A turn that      *)
(* changes nothing, as a vector whose first byte differs would be if it did *)
(* not end its loop, master.rs:42, is what Terminates excludes.)            *)
StepsShrink == [][StepsLeft' \in Nat /\ StepsLeft' < StepsLeft]_rleVars

(* The compressor and the decompressor terminate. *)
Terminates == <>(phase = "done")
=============================================================================
