------------------------------ MODULE Buffers -------------------------------
(***************************************************************************)
(* The loops of lib/libc that fill a buffer: strlcpy, strlcat and memcpy.  *)
(*                                                                         *)
(* Strings are sequences of characters without their NUL.  Words have WS   *)
(* bytes (8 in the code).                                                  *)
(***************************************************************************)
EXTENDS Integers, Sequences

CONSTANTS WS,
          MaxLen,      \* bound: length of the strings that are copied
          Chars,       \* characters tried
          Addrs, Lens  \* addresses and lengths tried with memcpy

NUL == 41

ASSUME BuffersAssumption ==
  /\ WS \in Nat \ {0} /\ MaxLen \in Nat
  /\ Chars \subseteq Nat \ {NUL} /\ Addrs \subseteq Nat /\ Lens \subseteq Nat

VARIABLES fn,         \* "print", "parse", "env", "strlcpy", "strlcat" or "memcpy"
          arg,        \* its arguments
          libpc, buf, ret,
          dpos, spos, left     \* positions and counters of the loops

libcVars == <<fn, arg, libpc, buf, ret, dpos, spos, left>>

CharAt(q, k) == IF k > Len(q) THEN NUL ELSE q[k]

Plain == UNION {[1..k -> Chars] : k \in 0..MaxLen}

-----------------------------------------------------------------------------
NoneYet == buf = << >> /\ ret = 0 /\ libpc = "call" /\ dpos = 0 /\ spos = 0 /\ left = 0

BuffersInit ==
  /\ NoneYet
  /\ \/ fn = "strlcpy" /\ arg \in [dst : {<< >>}, src : Plain, size : 0..(MaxLen + 1)]
     \/ fn = "strlcat" /\ arg \in [dst : Plain, src : Plain, size : 0..(MaxLen + 1)]
     \/ fn = "memcpy" /\ arg \in [dst : Addrs, src : Addrs, len : Lens]

SameCall == UNCHANGED <<fn, arg>>

(* Memory of the destination: its string, then bytes of which one is the   *)
(* NUL; reading and writing outside would be an error of TLC               *)
Memory == [k \in 0..(2 * MaxLen + 2) |-> CharAt(arg.dst, k + 1)]

StrCall ==
  /\ fn \in {"strlcpy", "strlcat"} /\ libpc = "call"
  /\ buf' = Memory /\ left' = arg.size
  /\ libpc' = IF fn = "strlcat" THEN "end" ELSE IF arg.size = 0 THEN "rest" ELSE "copy"
  /\ SameCall /\ UNCHANGED <<ret, dpos, spos>>

(* Mutant: the size is the number of characters *)
Room_all(k) == k

(* --nleft *)
Room(k) == k - 1

strlcpy ==
  /\ libpc = "copy"
  /\ left' = Room(left)
  /\ IF left' = 0 THEN libpc' = "rest" /\ UNCHANGED <<buf, dpos, spos, ret>>
     ELSE /\ buf' = [buf EXCEPT ![dpos] = CharAt(arg.src, spos + 1)]
          /\ dpos' = dpos + 1 /\ spos' = spos + 1
          /\ IF buf'[dpos] = NUL THEN libpc' = "done" /\ ret' = spos ELSE UNCHANGED <<libpc, ret>>
  /\ SameCall

(* Not enough room: NUL, and on to the end of the source *)
strlcpy_rest ==
  /\ libpc = "rest" /\ libpc' = "done"
  /\ buf' = IF arg.size # 0 THEN [buf EXCEPT ![dpos] = NUL] ELSE buf
  /\ ret' = Len(arg.src)
  /\ SameCall /\ UNCHANGED <<dpos, spos, left>>

(* The end of the string in the destination, but not past its size *)
strlcat_end ==
  /\ libpc = "end"
  /\ IF left # 0 /\ buf[dpos] # NUL THEN dpos' = dpos + 1 /\ left' = left - 1 /\ UNCHANGED <<libpc, ret>>
     ELSE IF arg.size = dpos
     THEN ret' = dpos + Len(arg.src) /\ libpc' = "done" /\ UNCHANGED <<dpos, left>>
     ELSE left' = Room(arg.size - dpos) /\ ret' = dpos /\ libpc' = "append" /\ UNCHANGED dpos
  /\ SameCall /\ UNCHANGED <<buf, spos>>

strlcat ==
  /\ libpc = "append"
  /\ IF spos < Len(arg.src)
     THEN /\ spos' = spos + 1 /\ UNCHANGED <<libpc, ret>>
          /\ IF left # 0 THEN buf' = [buf EXCEPT ![dpos] = arg.src[spos + 1]] /\ dpos' = dpos + 1 /\ left' = left - 1
             ELSE UNCHANGED <<buf, dpos, left>>
     ELSE /\ buf' = [buf EXCEPT ![dpos] = NUL] /\ libpc' = "done"
          /\ ret' = ret + spos /\ UNCHANGED <<dpos, spos, left>>
  /\ SameCall

-----------------------------------------------------------------------------
(* Bytes to copy before the words *)
HeadBytes(len) ==
  IF arg.src % WS # arg.dst % WS \/ len < WS THEN len ELSE WS - (arg.src % WS)

(* memcpy, dpos bytes of which are copied: the loop has left turns to go,  *)
(* with spos bytes after it                                                *)
memcpy ==
  /\ fn = "memcpy" /\ libpc = "call"
  /\ IF arg.len = 0 \/ arg.dst = arg.src
     THEN libpc' = "done" /\ UNCHANGED <<spos, left>>
     ELSE IF arg.src % WS = 0 /\ arg.dst % WS = 0
     THEN libpc' = "words" /\ spos' = arg.len /\ left' = arg.len \div WS
     ELSE libpc' = "head" /\ left' = HeadBytes(arg.len) /\ spos' = arg.len - HeadBytes(arg.len)
  /\ SameCall /\ UNCHANGED <<buf, ret, dpos>>

CopyHead ==
  /\ libpc = "head" /\ dpos' = dpos + 1
  /\ IF left = 1 THEN libpc' = "words" /\ left' = spos \div WS ELSE left' = left - 1 /\ UNCHANGED libpc
  /\ SameCall /\ UNCHANGED <<buf, ret, spos>>

CopyWord ==
  /\ libpc = "words"
  /\ IF left = 0 THEN libpc' = "tail" /\ left' = spos % WS /\ UNCHANGED dpos
     ELSE left' = left - 1 /\ dpos' = dpos + WS /\ UNCHANGED libpc
  /\ SameCall /\ UNCHANGED <<buf, ret, spos>>

CopyTail ==
  /\ libpc = "tail"
  /\ IF left = 0 THEN libpc' = "done" /\ UNCHANGED <<dpos, left>>
     ELSE left' = left - 1 /\ dpos' = dpos + 1 /\ UNCHANGED libpc
  /\ SameCall /\ UNCHANGED <<buf, ret, spos>>

BuffersNext ==
  \/ StrCall \/ strlcpy \/ strlcpy_rest \/ strlcat_end \/ strlcat
  \/ memcpy \/ CopyHead \/ CopyWord \/ CopyTail

BuffersSpec == BuffersInit /\ [][BuffersNext]_libcVars

-----------------------------------------------------------------------------
Done(f) == fn = f /\ libpc = "done"

(* The string that is in the destination within its size *)
Given == SubSeq(arg.dst, 1, IF Len(arg.dst) < arg.size THEN Len(arg.dst) ELSE arg.size)
Whole == Given \o arg.src

(* strlcpy and strlcat leave as much as there is room for of the whole     *)
(* string, with a NUL, in the first size bytes and nothing beyond them,    *)
(* and return how long it would be.  memcpy copies each byte once and in   *)
(* order, and by words only where both addresses are aligned.              *)
BuffersExact ==
  /\ Done("strlcpy") \/ Done("strlcat") =>
       /\ ret = Len(Whole)
       /\ Len(Given) < arg.size =>
            LET k == IF Len(Whole) < arg.size THEN Len(Whole) ELSE arg.size - 1
            IN buf[k] = NUL /\ \A j \in 1..k : buf[j - 1] = Whole[j]
       /\ \A j \in DOMAIN buf : j >= arg.size => buf[j] = Memory[j]
  /\ fn = "memcpy" =>
       /\ dpos <= arg.len
       /\ libpc = "done" /\ arg.dst # arg.src => dpos = arg.len
       /\ libpc = "words" /\ left > 0 =>
            {(arg.dst + dpos) % WS, (arg.src + dpos) % WS} = {0} /\ dpos + WS <= arg.len
=============================================================================
