---------------------------- MODULE PuzzleTests -----------------------------
(***************************************************************************)
(* btest: every puzzle is called, with its reference from tests.c, on      *)
(* values that gen_vals makes, and the two answers are compared.  Words    *)
(* are short enough here for gen_vals' exhaustive case, so the values are  *)
(* all those of the ranges in decl.c.                                      *)
(*                                                                         *)
(* The references are stated over numbers: a long is Signed(x), and a      *)
(* float is a multiple of the smallest positive one.                       *)
(*                                                                         *)
(* Left out: the options and the score; sampling; the time limit.  The     *)
(* most negative long is no input of distinctNegation: its negation is     *)
(* undefined in the puzzle and in the reference alike.                     *)
(***************************************************************************)
EXTENDS Puzzles, Sequences

CONSTANT Few    \* bound: the words for conditional's second and third argument

ASSUME FewAssumption == Few \subseteq Word

VARIABLES
    testing,    \* the function under test, NoPuzzle before the first
    test        \* the last call: arguments, answer and reference

btestVars == <<testing, test>>

NoPuzzle == "none"

Signed(x) == Unsigned[x] - IF SignBit \in x THEN 2^Width ELSE 0
Long(n) == WordOf[n % 2^Width]
Truth(p) == IF p THEN One ELSE Zero

(* Division of C: towards zero.                                            *)
Quotient(n, d) == IF n >= 0 THEN n \div d ELSE - ((- n) \div d)

-----------------------------------------------------------------------------
test_bitMatch(x, y) == {i \in Bits : (i \in x) = (i \in y)}
test_copyLSB(x) == IF 0 \in x THEN Bits ELSE Zero
test_distinctNegation(x) == Truth(Signed(x) # - Signed(x))
test_leastBitPos(x) == IF x = Zero THEN Zero ELSE {Min(x)}
test_dividePower2(x, n) == Long(Quotient(Signed(x), 2^n))
test_conditional(x, y, z) == IF x # Zero THEN y ELSE z
test_isLessOrEqual(x, y) == Truth(Signed(x) <= Signed(y))
test_trueThreeFourths(x) == Long(Quotient(Signed(x) * 3, 4))
test_bitCount(x) == Long(Cardinality(x))
test_isPalindrome(x) ==
    Truth(\A i \in 0 .. Width \div 2 - 1 :
              (i + Width \div 2 \in x) = (Width \div 2 - 1 - i \in x))
test_integerLog2(x) == Long(Max(x \cup {-1}))

(* The magnitude of a float, in units of the smallest one; infinity takes  *)
(* the place of the number that would come after the largest, which is how *)
(* rounding to nearest treats it.                                          *)
Magnitude(uf) ==
    IF exp(uf) = 0 THEN Unsigned[frac(uf)]
    ELSE (2^FracBits + Unsigned[frac(uf)]) * 2^(exp(uf) - 1)

Value(uf) == IF SignBit \in uf THEN - Magnitude(uf) ELSE Magnitude(uf)

Magnitudes == [uf \in {v \in Word : SignBit \notin v /\ ~ IsNaN(v)} |-> Magnitude(uf)]

(* IEEE rounding: the nearest float, of two as near the one with an even   *)
(* fraction.                                                               *)
NearestFloat(m) ==
    LET Off(v) == IF Magnitudes[v] > m THEN Magnitudes[v] - m ELSE m - Magnitudes[v]
    IN CHOOSE v \in DOMAIN Magnitudes :
           \A u \in DOMAIN Magnitudes \ {v} :
               Off(v) < Off(u) \/ (Off(v) = Off(u) /\ 0 \notin v)

test_floatIsEqual(uf, ug) ==
    Truth(~ IsNaN(uf) /\ ~ IsNaN(ug) /\ Value(uf) = Value(ug))
test_floatScale4(uf) ==
    IF IsNaN(uf) THEN uf ELSE sign(uf) \cup NearestFloat(4 * Magnitude(uf))
test_floatUnsigned2Float(u) ==
    NearestFloat(Unsigned[u] * 2^(ExpBias + FracBits - 1))

-----------------------------------------------------------------------------
Puzzle == {"bitMatch", "copyLSB", "distinctNegation", "leastBitPos",
           "dividePower2", "conditional", "isLessOrEqual", "trueThreeFourths",
           "bitCount", "isPalindrome", "integerLog2", "floatIsEqual",
           "floatScale4", "floatUnsigned2Float"}

(* The values each function is tested on: gen_vals over decl.c's ranges.   *)
gen_vals(fn) ==
    CASE fn \in {"bitMatch", "isLessOrEqual", "floatIsEqual"} -> Word \X Word
      [] fn = "dividePower2" -> Word \X (0 .. Width - 2)
      [] fn = "conditional" -> Word \X Few \X Few
      [] fn = "integerLog2" ->
           {<<x>> : x \in {w \in Word : SignBit \notin w} \ {Zero}}
      [] fn = "distinctNegation" -> {<<x>> : x \in Word \ {{SignBit}}}
      [] OTHER -> {<<x>> : x \in Word}

solution_funct(fn, a) ==
    CASE fn = "bitMatch" -> bitMatch(a[1], a[2])
      [] fn = "copyLSB" -> copyLSB(a[1])
      [] fn = "distinctNegation" -> distinctNegation(a[1])
      [] fn = "leastBitPos" -> leastBitPos(a[1])
      [] fn = "dividePower2" -> dividePower2(a[1], a[2])
      [] fn = "conditional" -> conditional(a[1], a[2], a[3])
      [] fn = "isLessOrEqual" -> isLessOrEqual(a[1], a[2])
      [] fn = "trueThreeFourths" -> trueThreeFourths(a[1])
      [] fn = "bitCount" -> bitCount(a[1])
      [] fn = "isPalindrome" -> isPalindrome(a[1])
      [] fn = "integerLog2" -> integerLog2(a[1])
      [] fn = "floatIsEqual" -> floatIsEqual(a[1], a[2])
      [] fn = "floatScale4" -> floatScale4(a[1])
      [] fn = "floatUnsigned2Float" -> floatUnsigned2Float(a[1])

test_funct(fn, a) ==
    CASE fn = "bitMatch" -> test_bitMatch(a[1], a[2])
      [] fn = "copyLSB" -> test_copyLSB(a[1])
      [] fn = "distinctNegation" -> test_distinctNegation(a[1])
      [] fn = "leastBitPos" -> test_leastBitPos(a[1])
      [] fn = "dividePower2" -> test_dividePower2(a[1], a[2])
      [] fn = "conditional" -> test_conditional(a[1], a[2], a[3])
      [] fn = "isLessOrEqual" -> test_isLessOrEqual(a[1], a[2])
      [] fn = "trueThreeFourths" -> test_trueThreeFourths(a[1])
      [] fn = "bitCount" -> test_bitCount(a[1])
      [] fn = "isPalindrome" -> test_isPalindrome(a[1])
      [] fn = "integerLog2" -> test_integerLog2(a[1])
      [] fn = "floatIsEqual" -> test_floatIsEqual(a[1], a[2])
      [] fn = "floatScale4" -> test_floatScale4(a[1])
      [] fn = "floatUnsigned2Float" -> test_floatUnsigned2Float(a[1])

BtestInit == testing = NoPuzzle /\ test = <<>>

test_function(fn) ==
    /\ testing = NoPuzzle
    /\ testing' = fn
    /\ UNCHANGED test

(* test_1_arg, test_2_arg or test_3_arg, as many as the function takes.    *)
test_args(a) ==
    /\ test' = [args |-> a, r |-> solution_funct(testing, a),
                rt |-> test_funct(testing, a)]
    /\ UNCHANGED testing

BtestNext ==
    \/ \E fn \in Puzzle : test_function(fn)
    \/ /\ testing # NoPuzzle /\ test = <<>>
       /\ \E a \in gen_vals(testing) : test_args(a)

(* Every puzzle answers as its reference does, whatever the arguments: no  *)
(* carry, sign, shift amount, rounding or special float is got wrong       *)
(* (bits.c:173-531 against tests.c:56-151).                                *)
PuzzlesAreRight == test # <<>> => test.r = test.rt

=============================================================================
