------------------------------ MODULE Puzzles -------------------------------
(***************************************************************************)
(* The bit puzzles, datalab-handout/bits.c.  A word is the set of its bits *)
(* that are 1, so that & | ^ are set operations; + goes through the number *)
(* and wraps.  The 64 bits of a long, the 32 of an unsigned and the 8 and  *)
(* 23 bits of a float's exponent and fraction are constants here, and the  *)
(* numbers of the code that come from them are computed from them.         *)
(***************************************************************************)
EXTENDS Integers, FiniteSets, FiniteSetsExt

CONSTANTS
    LogWidth,   \* a word has 2^LogWidth bits (6 for a long)
    FracBits    \* bits of a float's fraction (23 of 32)

ASSUME WidthAssumption == LogWidth \in Nat \ {0} /\ FracBits \in Nat \ {0}

Width == 2^LogWidth
Bits == 0 .. Width - 1
Word == SUBSET Bits
SignBit == Width - 1

Unsigned == [x \in Word |-> MapThenSumSet(LAMBDA i : 2^i, x)]
WordOf == [n \in 0 .. 2^Width - 1 |-> {i \in Bits : (n \div 2^i) % 2 = 1}]

Not(x) == Bits \ x
Xor(x, y) == (x \ y) \cup (y \ x)
Plus(x, y) == WordOf[(Unsigned[x] + Unsigned[y]) % 2^Width]
LeftShift(x, n) == {i + n : i \in x} \cap Bits
(* >> of an unsigned, and of a long: the latter copies the sign.           *)
LogicalShift(x, n) == {i - n : i \in x} \cap Bits
RightShift(x, n) ==
    LogicalShift(x, n) \cup IF SignBit \in x THEN Width - n .. SignBit ELSE {}
Zero == {}
One == {0}
Bang(x) == IF x = Zero THEN One ELSE Zero
Negated(x) == Plus(Not(x), One)
(* 0xFF...: n ones.                                                        *)
Ones(n) == 0 .. n - 1

-----------------------------------------------------------------------------
bitMatch(x, y) ==
    LET nand == Not(x \cap y)
        first == Not(x \cap nand)
        second == Not(y \cap nand)
    IN first \cap second

copyLSB(x) == RightShift(LeftShift(x, SignBit), SignBit)

distinctNegation(x) == Bang(Bang(Xor(x, Negated(x))))

leastBitPos(x) == x \cap Negated(x)

(* 1 for a negative word.                                                  *)
Sign(x) == Bang(Bang(LeftShift(RightShift(x, SignBit), SignBit)))

(* What is added to a negative word before it is shifted by n: 2^n - 1.    *)
Bias(x, n) == Not(Plus(Not(LeftShift(Sign(x), n)), Sign(x)))

(* A bug: the shift rounds down, of negative words too.                    *)
dividePower2_NoBias(x, n) == RightShift(x, n)

dividePower2(x, n) == RightShift(Plus(x, Bias(x, n)), n)

conditional(x, y, z) ==
    LET truth == RightShift(LeftShift(Bang(Bang(x)), SignBit), SignBit)
    IN (truth \cap y) \cup (Not(truth) \cap z)

isLessOrEqual(x, y) ==
    LET diff == Bang(RightShift(Plus(y, Negated(x)), SignBit))
        sign == Xor(Bang(Bang(RightShift(x, SignBit))),
                    Bang(Bang(RightShift(y, SignBit))))
    IN (sign \cap RightShift(x, SignBit)) \cup (Bang(sign) \cap diff)

Triple(x) == Plus(Plus(x, x), x)

trueThreeFourths(x) ==
    LET mod == RightShift(Plus(Triple(x \cap Ones(2)), Bias(x, 2)), 2)
    IN Plus(Triple(RightShift(x, 2)), mod)

-----------------------------------------------------------------------------
(* mask1, mask2, ...: Mask[k] has every other group of 2^(k-1) bits set,   *)
(* each made from the one above it.                                        *)
Mask[k \in 1 .. LogWidth] ==
    IF k = LogWidth THEN Ones(2^(LogWidth - 1))
    ELSE Xor(LeftShift(Mask[k + 1], 2^(k - 1)), Mask[k + 1])

(* Groups of 2^k bits hold the number of ones that x has in them.          *)
bitCount(x) ==
    LET Counted[k \in 0 .. LogWidth] ==
          IF k = 0 THEN x
          ELSE Plus(Counted[k - 1] \cap Mask[k],
                    RightShift(Counted[k - 1], 2^(k - 1)) \cap Mask[k])
    IN Counted[LogWidth]

(* The halves of the groups of 2^k bits change places.                     *)
Swapped(x, k) ==
    LET d == 2^(k - 1)
    IN LeftShift(x \cap Mask[k], d)
         \cup (RightShift(x \cap LeftShift(Mask[k], d), d) \cap Mask[k])

isPalindrome(x) ==
    LET Reversed[k \in 1 .. LogWidth + 1] ==
          IF k = LogWidth + 1 THEN x ELSE Swapped(Reversed[k + 1], k)
    IN Bang(Xor(Reversed[1], x))

(* Bit k of the logarithm is found when those above it are: x is shifted   *)
(* by what is known and 2^k, and tested for zero.                          *)
integerLog2(x) ==
    LET Half[k \in 0 .. LogWidth] ==
          IF k = LogWidth THEN 0
          ELSE Half[k + 1] + IF RightShift(x, Half[k + 1] + 2^k) = Zero
                             THEN 0 ELSE 2^k
    IN WordOf[Half[0]]

-----------------------------------------------------------------------------
ExpBits == SignBit - FracBits
MaxExp == 2^ExpBits - 1             \* 0xFF
ExpBias == 2^(ExpBits - 1) - 1      \* 127

exp(uf) == Unsigned[LogicalShift(uf, FracBits) \cap Ones(ExpBits)]
frac(uf) == uf \cap Ones(FracBits)
sign(uf) == uf \cap {SignBit}

IsNaN(uf) == exp(uf) = MaxExp /\ frac(uf) # Zero

floatIsEqual(uf, ug) ==
    IF IsNaN(uf) \/ IsNaN(ug) THEN Zero
    ELSE IF LeftShift(uf, 1) = Zero /\ LeftShift(ug, 1) = Zero THEN One
    ELSE IF uf = ug THEN One ELSE Zero

Packed(s, e, f) == s \cup LeftShift(WordOf[e], FracBits) \cup f

floatScale4(uf) ==
    LET e == exp(uf)
        f == frac(uf)
    IN CASE e = MaxExp \/ (e = 0 /\ f = Zero) -> uf
         [] e # 0 /\ e # MaxExp ->
              IF e + 2 >= MaxExp THEN Packed(sign(uf), MaxExp, Zero)
              ELSE Packed(sign(uf), e + 2, f)
         [] OTHER ->
              IF FracBits - 1 \in f
              THEN Packed(sign(uf), e + 2, LeftShift(f, 1) \cap Ones(FracBits))
              ELSE sign(uf) \cup LeftShift(f, 2)

(* The loop that shifts u until at most its highest bit is left.           *)
Exponent(u) == IF u = Zero THEN 0 ELSE Max(u)

(* Guard, round and sticky bits: the last one that is kept, the first one  *)
(* that is not, and the others.                                            *)
RoundsUp(u, e) ==
    LET Extra == SignBit - FracBits
        g == LogicalShift({Extra}, SignBit - e) \cap u
        r == LogicalShift({Extra - 1}, SignBit - e) \cap u
        s == LogicalShift(Ones(Extra), Width - e) \cap u
    IN r # Zero /\ (s # Zero \/ g # Zero)

floatUnsigned2Float(u) ==
    LET e == Exponent(u)
        kept == IF e > FracBits
                THEN LogicalShift(u, e - FracBits) \cap Ones(FracBits)
                ELSE LeftShift(u, FracBits - e) \cap Ones(FracBits)
        bump == e > FracBits /\ RoundsUp(u, e)
        over == bump /\ kept = Ones(FracBits)
    IN Packed(Zero,
              (IF u = Zero THEN 0 ELSE e + ExpBias) + (IF over THEN 1 ELSE 0),
              IF over THEN Zero ELSE IF bump THEN Plus(kept, One) ELSE kept)

=============================================================================
