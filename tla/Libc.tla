-------------------------------- MODULE Libc ---------------------------------
(***************************************************************************)
(* The C library of lib/libc: the numbers of vsnprintf and strtoul with    *)
(* their user parse_env (arch/mips/setup.c).  The loops that fill a buffer *)
(* are in Buffers.                                                         *)
(*                                                                         *)
(* A character is a number: digits and letters are their value as digits,  *)
(* in either case.  Integers have LW bits (64 in the code).                *)
(***************************************************************************)
EXTENDS Buffers

CONSTANT LW

ASSUME LibcAssumption == LW \in Nat \ {0}

SPACE == 36
MINUS == 37
PLUS == 38
EQUALS == 39
PERCENT == 40
LETTER_X == 33
ULONG_MAX == 2^LW - 1
Wrapped(x) == x % 2^LW

-----------------------------------------------------------------------------
(* Numbers *)

RECURSIVE Digits(_, _)
Digits(u, base) == IF u < base THEN <<u>> ELSE Digits(u \div base, base) \o <<u % base>>

(* Exactly width digits, the high ones left out or zeroes put before them; *)
(* blanks never (flag | FLAG_ZEROPAD).  A sign comes on top.               *)
Number(x, base, width) ==
  LET u == IF x < 0 THEN -x ELSE x
      b == Digits(u, base)
  IN (IF x < 0 THEN <<MINUS>> ELSE << >>) \o
     IF width = 0 THEN b
     ELSE [j \in 1..width |-> IF width - j >= Len(b) THEN 0 ELSE b[Len(b) - (width - j)]]

(* A width is read digit by digit; what is no conversion does not reset it *)
Width(w, item) == IF item.width = 0 THEN w ELSE 10 * w + item.width

(* The text of the items of a format from the k-th on *)
RECURSIVE Text(_, _, _)
Text(fmt, k, w) ==
  IF k > Len(fmt) THEN << >>
  ELSE LET item == fmt[k]
       IN CASE item.kind = "lit" -> item.arg \o Text(fmt, k + 1, w)
            [] item.kind = "bad" ->
                 <<PERCENT>> \o item.arg \o Text(fmt, k + 1, Width(w, item))
            [] item.kind = "s" -> item.arg \o Text(fmt, k + 1, 0)
            [] item.kind = "num" ->
                 Number(item.arg, item.base, Width(w, item)) \o Text(fmt, k + 1, 0)

(* The string left by set_ch, and the result, which is size as soon as the *)
(* last byte is used, also when text and NUL just fit                      *)
set_ch(text, size) ==
  IF Len(text) + 1 >= size
  THEN [str |-> SubSeq(text, 1, size - 1), ret |-> size] ELSE [str |-> text, ret |-> Len(text)]

(* Mutant: no limit for the last digit *)
Overflow_cutoff(acc, c, base) == acc > ULONG_MAX \div base

Overflow(acc, c, base) ==
  \/ acc > ULONG_MAX \div base
  \/ acc = ULONG_MAX \div base /\ c > ULONG_MAX % base

(* The loop of strtoul; what is no digit in the base is not below it *)
RECURSIVE Accumulate(_, _, _, _, _)
Accumulate(q, k, base, acc, any) ==
  LET c == CharAt(q, k)
  IN IF c >= base THEN [acc |-> acc, any |-> any, end |-> k]
     ELSE IF any < 0 THEN Accumulate(q, k + 1, base, acc, any)
     ELSE IF Overflow(acc, c, base) THEN Accumulate(q, k + 1, base, ULONG_MAX, -1)
     ELSE Accumulate(q, k + 1, base, Wrapped(acc * base + c), 1)

RECURSIVE SkipSpace(_, _)
SkipSpace(q, k) == IF CharAt(q, k) = SPACE THEN SkipSpace(q, k + 1) ELSE k

(* Position after sign and prefix, and the base *)
Prefix(q, base) ==
  LET k  == SkipSpace(q, 1)
      k1 == IF CharAt(q, k) \in {MINUS, PLUS} THEN k + 1 ELSE k
      x  == base \in {0, 16} /\ CharAt(q, k1) = 0 /\ CharAt(q, k1 + 1) = LETTER_X
  IN [neg |-> CharAt(q, k) = MINUS, pos |-> IF x THEN k1 + 2 ELSE k1,
      base |-> IF x THEN 16 ELSE IF base # 0 THEN base ELSE IF CharAt(q, k1) = 0 THEN 8 ELSE 10]

strtoul(q, base) ==
  LET p == Prefix(q, base)
      a == Accumulate(q, p.pos, p.base, 0, 0)
  IN [val |-> IF p.neg /\ a.any > 0 THEN Wrapped(-a.acc) ELSE a.acc,
      end |-> IF a.any # 0 THEN a.end ELSE 1]

(* 0 if the strings agree up to n characters, or to their end *)
RECURSIVE strncmp(_, _, _, _)
strncmp(a, b, k, m) ==
  IF m = 0 THEN 0
  ELSE IF CharAt(a, k) # CharAt(b, k) THEN CharAt(a, k) - CharAt(b, k)
  ELSE IF CharAt(a, k) = NUL THEN 0 ELSE strncmp(a, b, k + 1, m - 1)

(* parse_ulong_option for one string, when the variable has the value v *)
parse_ulong_option(env, option, v) ==
  IF strncmp(env, option, 1, Len(option)) = 0 /\ CharAt(env, Len(option) + 1) = EQUALS
  THEN strtoul(SubSeq(env, Len(option) + 2, Len(env)), 10).val ELSE v

(* The loop of parse_env: the last setting counts *)
RECURSIVE parse_env(_, _, _, _)
parse_env(envs, option, k, v) ==
  IF k > Len(envs) THEN v
  ELSE parse_env(envs, option, k + 1, parse_ulong_option(envs[k], option, v))

-----------------------------------------------------------------------------
Nums == {[kind |-> "num", arg |-> x, base |-> b, width |-> w] :
           x \in {-2^(LW - 1), -9, -1} \cup 0..ULONG_MAX, b \in {8, 10, 16}, w \in {0, 2, 4}}
Before == {<< >>, << [kind |-> "lit", arg |-> <<SPACE>>, width |-> 0] >>,
           << [kind |-> "bad", arg |-> <<LETTER_X>>, width |-> 1] >>,
           << [kind |-> "s", arg |-> <<SPACE, SPACE>>, width |-> 3] >>}

Strings == UNION {[1..k -> {0, 1, 6, 15, LETTER_X, MINUS, SPACE}] : k \in 0..MaxLen}

(* Names of which one is a part of the other, as memsize and highmemsize *)
Names == {<<1>>, <<2, 1>>, <<1, 2>>}
Numerals == {<<7>>, <<1, 2>>}
Settings == {name \o <<EQUALS>> \o v : name \in Names, v \in Numerals} \cup Names

LibcInit ==
  \/ /\ NoneYet
     /\ \/ fn = "print" /\ arg \in [before : Before, num : Nums, size : {2, 4, 8, 20}]
                        /\ (arg.num.arg < 0 => arg.num.base = 10)
        \/ fn = "parse" /\ arg \in [str : Strings, base : {0, 8, 10, 16}]
        \/ fn = "env" /\ arg \in UNION {[1..k -> Settings] : k \in 0..2}
  \/ BuffersInit

(* The number is printed, and then read from the buffer *)
vsnprintf ==
  LET out == set_ch(Text(arg.before \o <<arg.num>>, 1, 0), arg.size)
  IN /\ fn = "print" /\ libpc = "call"
     /\ buf' = out.str /\ ret' = out.ret /\ libpc' = "read"
     /\ SameCall /\ UNCHANGED <<dpos, spos, left>>

ReadBack ==
  /\ fn = "print" /\ libpc = "read"
  /\ left' = strtoul(SubSeq(buf, Len(Text(arg.before, 1, 0)) + 1, Len(buf)), arg.num.base).val
  /\ libpc' = "done"
  /\ SameCall /\ UNCHANGED <<buf, ret, dpos, spos>>

Parse ==
  LET r == strtoul(arg.str, arg.base)
  IN /\ fn = "parse" /\ libpc = "call"
     /\ ret' = r.val /\ dpos' = r.end /\ libpc' = "done"
     /\ SameCall /\ UNCHANGED <<buf, spos, left>>

Env ==
  /\ fn = "env" /\ libpc = "call" /\ libpc' = "done"
  /\ buf' = [name \in Names |-> parse_env(arg, name, 1, 0)]
  /\ SameCall /\ UNCHANGED <<ret, dpos, spos, left>>

LibcNext ==
  \/ vsnprintf \/ ReadBack \/ Parse \/ Env
  \/ BuffersNext

-----------------------------------------------------------------------------
(* Digits from position p on, and the number they are *)
RECURSIVE Run(_, _, _)
Run(q, p, base) == IF CharAt(q, p) < base THEN 1 + Run(q, p + 1, base) ELSE 0
RECURSIVE Value(_, _, _, _)
Value(q, p, k, base) ==
  IF k = 0 THEN 0 ELSE base * Value(q, p, k - 1, base) + q[p + k - 1]

(* The width for the number, with what an unknown conversion left *)
Asked == IF arg.before # << >> /\ arg.before[1].kind = "bad"
         THEN IF arg.num.width = 0 THEN 1 ELSE 10 + arg.num.width ELSE arg.num.width
Low(u) == IF Asked = 0 \/ Asked >= LW THEN u ELSE u % arg.num.base^Asked

(* What vsnprintf has printed always ends inside the buffer, and strtoul   *)
(* reads from it the number that was printed, or as many of its low digits *)
(* as there was width for.  Of any text strtoul takes the digits of the    *)
(* base, keeps their number exact up to ULONG_MAX and stays there after    *)
(* that.  parse_env gives each variable the last setting of its own name.  *)
NumbersExact ==
  /\ Done("print") =>
       /\ Len(buf) < arg.size /\ ret <= arg.size
       /\ ret < arg.size =>
            /\ ret = Len(buf)
            /\ left = Wrapped(IF arg.num.arg < 0 THEN -Low(-arg.num.arg) ELSE Low(arg.num.arg))
  /\ Done("parse") =>
       LET p == Prefix(arg.str, arg.base)
           k == Run(arg.str, p.pos, p.base)
           v == Value(arg.str, p.pos, k, p.base)
       IN /\ ret = IF v > ULONG_MAX THEN ULONG_MAX ELSE IF p.neg THEN Wrapped(-v) ELSE v
          /\ dpos = IF k = 0 THEN 1 ELSE p.pos + k
  /\ Done("env") => \A name \in Names :
       LET set == {k \in DOMAIN arg : \E v \in Numerals : arg[k] = name \o <<EQUALS>> \o v}
       IN IF set = {} THEN buf[name] = 0
          ELSE LET k == CHOOSE k \in set : \A j \in set : j <= k
               IN arg[k] = name \o <<EQUALS>> \o Digits(buf[name], 10)

=============================================================================
