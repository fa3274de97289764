---------------------------- MODULE ConsoleProofs ----------------------------
(***************************************************************************)
(* The console, for every set of files, whatever they hold, every buffer,  *)
(* line and error limit, and every number of descriptors.                  *)
(***************************************************************************)
EXTENDS Console, FiniteSetTheorems, SequenceTheorems, WellFoundedInduction, TLAPS

Character == UNION {ToSet(Content[f]) : f \in File}

Stacked == [fd : Nat, unread : Seq(Character), buf : Seq(Character)]

Account == [allocate_cnt : Int, allocate_bytes : Int, free_cnt : Int, free_bytes : Int,
            current_bytes : Int, peak_bytes : Int, last_peak_bytes : Int]

(* So many blocks and bytes are allocated.                                 *)
Books(m, blocks, bytes) ==
    /\ m \in Account
    /\ Outstanding(m) = blocks
    /\ m.current_bytes = bytes
    /\ m.allocate_bytes - m.free_bytes = bytes
    /\ bytes <= m.peak_bytes

ConsoleTypeOK ==
    /\ IsFiniteSet(cmd_list) /\ IsFiniteSet(param_list)
    /\ buf_stack \in Seq(Stacked)
    /\ linebuf \in Seq(Character)
    /\ block_flag \in BOOLEAN /\ quit_flag \in BOOLEAN
    /\ err_cnt \in Nat /\ failed \in Nat
    /\ at \in {"select", "readline", "interpret", "done", "exit", "undefined"}

(* The errors counted are at least the lines that failed, and while lines  *)
(* are executed they are less than the limit.                              *)
ErrorsCounted ==
    /\ failed <= err_cnt /\ (failed = 0 => err_cnt = 0)
    /\ "error" \in DOMAIN param
    /\ ~limit_set => param.error = ErrLimit /\ failed <= ErrLimit
    /\ ~limit_set /\ ~quit_flag => err_cnt < ErrLimit

Descriptors(s) == {s[i].fd : i \in DOMAIN s}
EachItsOwn(s) == \A i, j \in DOMAIN s : s[i].fd = s[j].fd => i = j

(* Every file on the stack has a descriptor of its own, none of those that *)
(* log opened, and a line is read from a file.                             *)
FilesOpen ==
    /\ at = "readline" => buf_stack # <<>>
    /\ open = Descriptors(buf_stack) \cup logs /\ Descriptors(buf_stack) \cap logs = {}
    /\ EachItsOwn(buf_stack)

(* The accounts count the elements of the three lists.                     *)
ListsAllocated ==
    /\ Books(mem, Cardinality(cmd_list) + Cardinality(param_list) + Len(buf_stack),
             CmdSize * Cardinality(cmd_list) + ParamSize * Cardinality(param_list)
             + RioSize * Len(buf_stack))
    /\ cmd_list = {} => quit_flag /\ buf_stack = <<>> /\ param_list = {}

ConsoleInv == ConsoleTypeOK /\ ErrorsCounted /\ FilesOpen /\ ListsAllocated

-----------------------------------------------------------------------------
(* Sets of numbers.                                                        *)

LEMMA LeastExists ==
    ASSUME NEW T \in SUBSET Nat, T # {}
    PROVE  \E x \in T : \A y \in T : x <= y
<1>1. PICK x \in T : \A y \in T : ~(<<y, x>> \in OpToRel(<, Nat))
  BY NatLessThanWellFounded, WFMin
<1>2. \A y \in T : ~(y < x)
  BY <1>1 DEF OpToRel
<1>3. QED
  BY <1>2

LEMMA MaxOfSome ==
    ASSUME NEW n \in Nat, NEW T \in SUBSET (1 .. n), T # {}
    PROVE  /\ Max(T) \in T /\ \A y \in T : y <= Max(T)
           /\ Cardinality(T) \in Nat
           /\ Cardinality(T \ {Max(T)}) \in Nat
           /\ Cardinality(T) = Cardinality(T \ {Max(T)}) + 1
<1> DEFINE D == {n - j : j \in T}
<1>1. D \in SUBSET Nat /\ D # {}
  <2>1. \A j \in T : n - j \in Nat
    OBVIOUS
  <2>2. QED
    BY <2>1
<1>2. PICK d \in D : \A e \in D : d <= e
  BY <1>1, LeastExists
<1>3. PICK x \in T : d = n - x
  BY <1>2
<1>4. \A y \in T : y <= x
  <2>1. \A y \in T : n - x <= n - y
    BY <1>2, <1>3
  <2>2. QED
    BY <2>1
<1>5. Max(T) \in T /\ \A y \in T : y <= Max(T)
  <2>1. \A y \in T : x >= y
    BY <1>4
  <2>2. Max(T) \in T /\ \A y \in T : Max(T) >= y
    BY <2>1 DEF Max
  <2>3. QED
    BY <2>2
<1>6. IsFiniteSet(T)
  <2>1. IsFiniteSet(1 .. n)
    BY FS_Interval
  <2>2. QED
    BY <2>1, FS_Subset
<1>7. /\ IsFiniteSet(T \ {Max(T)})
      /\ Cardinality(T \ {Max(T)}) = Cardinality(T) - 1
  BY <1>5, <1>6, FS_RemoveElement
<1>8. Cardinality(T) \in Nat /\ Cardinality(T \ {Max(T)}) \in Nat
  BY <1>6, <1>7, FS_CardinalityType
<1>9. QED
  BY <1>5, <1>7, <1>8

-----------------------------------------------------------------------------
(* The accounts.                                                           *)

LEMMA AccountsAlike ==
    ASSUME NEW r \in Account, NEW s \in Account,
           r.allocate_cnt = s.allocate_cnt, r.allocate_bytes = s.allocate_bytes,
           r.free_cnt = s.free_cnt, r.free_bytes = s.free_bytes,
           r.current_bytes = s.current_bytes, r.peak_bytes = s.peak_bytes,
           r.last_peak_bytes = s.last_peak_bytes
    PROVE  r = s
<1>1. \A t \in Account :
        t = [allocate_cnt |-> t.allocate_cnt, allocate_bytes |-> t.allocate_bytes,
             free_cnt |-> t.free_cnt, free_bytes |-> t.free_bytes,
             current_bytes |-> t.current_bytes, peak_bytes |-> t.peak_bytes,
             last_peak_bytes |-> t.last_peak_bytes]
  BY DEF Account
<1>2. QED
  BY <1>1

(* The accounts after c blocks of n bytes each.                            *)
Mallocs(m, c, n) ==
    [m EXCEPT !.allocate_cnt = @ + c,
              !.allocate_bytes = @ + c * n,
              !.current_bytes = @ + c * n,
              !.peak_bytes = IF c = 0 THEN @ ELSE Larger(@, m.current_bytes + c * n),
              !.last_peak_bytes = IF c = 0 THEN @ ELSE Larger(@, m.current_bytes + c * n)]

Frees(m, c, n) ==
    [m EXCEPT !.free_cnt = @ + c,
              !.free_bytes = @ + c * n,
              !.current_bytes = @ - c * n]

LEMMA MallocFields ==
    ASSUME NEW m \in Account, NEW n \in Nat
    PROVE  LET r == malloc_or_fail(m, n)
           IN  /\ r \in Account
               /\ r.allocate_cnt = m.allocate_cnt + 1
               /\ r.allocate_bytes = m.allocate_bytes + n
               /\ r.free_cnt = m.free_cnt /\ r.free_bytes = m.free_bytes
               /\ r.current_bytes = m.current_bytes + n
               /\ r.peak_bytes = Larger(m.peak_bytes, m.current_bytes + n)
               /\ r.last_peak_bytes = Larger(m.last_peak_bytes, m.current_bytes + n)
<1> DEFINE a == m.allocate_cnt + 1
           b == m.allocate_bytes + n
           c == m.current_bytes + n
           d == Larger(m.peak_bytes, c)
           e == Larger(m.last_peak_bytes, c)
<1>1. a \in Int /\ b \in Int /\ c \in Int /\ d \in Int /\ e \in Int
  BY DEF Account, Larger
<1>2. malloc_or_fail(m, n) =
        [m EXCEPT !.allocate_cnt = a, !.allocate_bytes = b, !.current_bytes = c,
                  !.peak_bytes = d, !.last_peak_bytes = e]
  BY DEF malloc_or_fail
<1> HIDE DEF a, b, c, d, e
<1>3. malloc_or_fail(m, n) \in Account
  BY <1>1, <1>2, Zenon DEF Account
<1> USE DEF a, b, c, d, e
<1>4. QED
  BY <1>3 DEF malloc_or_fail, Account

LEMMA FreeFields ==
    ASSUME NEW m \in Account, NEW n \in Nat
    PROVE  LET r == free_block(m, n)
           IN  /\ r \in Account
               /\ r.allocate_cnt = m.allocate_cnt
               /\ r.allocate_bytes = m.allocate_bytes
               /\ r.free_cnt = m.free_cnt + 1 /\ r.free_bytes = m.free_bytes + n
               /\ r.current_bytes = m.current_bytes - n
               /\ r.peak_bytes = m.peak_bytes
               /\ r.last_peak_bytes = m.last_peak_bytes
<1> DEFINE a == m.free_cnt + 1
           b == m.free_bytes + n
           c == m.current_bytes - n
<1>1. a \in Int /\ b \in Int /\ c \in Int
  BY DEF Account
<1>2. free_block(m, n) =
        [m EXCEPT !.free_cnt = a, !.free_bytes = b, !.current_bytes = c]
  BY DEF free_block
<1> HIDE DEF a, b, c
<1>3. free_block(m, n) \in Account
  BY <1>1, <1>2, Zenon DEF Account
<1> USE DEF a, b, c
<1>4. QED
  BY <1>3 DEF free_block, Account

LEMMA MallocsFields ==
    ASSUME NEW m \in Account, NEW k \in Nat, NEW n \in Nat
    PROVE  LET r == Mallocs(m, k, n)
               new == m.current_bytes + k * n
           IN  /\ r \in Account
               /\ r.allocate_cnt = m.allocate_cnt + k
               /\ r.allocate_bytes = m.allocate_bytes + k * n
               /\ r.free_cnt = m.free_cnt /\ r.free_bytes = m.free_bytes
               /\ r.current_bytes = new
               /\ r.peak_bytes = IF k = 0 THEN m.peak_bytes ELSE Larger(m.peak_bytes, new)
               /\ r.last_peak_bytes =
                    IF k = 0 THEN m.last_peak_bytes ELSE Larger(m.last_peak_bytes, new)
<1> DEFINE p == k * n
           a == m.allocate_cnt + k
           b == m.allocate_bytes + p
           c == m.current_bytes + p
           d == IF k = 0 THEN m.peak_bytes ELSE Larger(m.peak_bytes, c)
           e == IF k = 0 THEN m.last_peak_bytes ELSE Larger(m.last_peak_bytes, c)
<1>1. p \in Nat
  OBVIOUS
<1>2. a \in Int /\ b \in Int /\ c \in Int /\ d \in Int /\ e \in Int
  <2> HIDE DEF p
  <2>1. QED
    BY <1>1 DEF Account, Larger
<1>3. Mallocs(m, k, n) =
        [m EXCEPT !.allocate_cnt = a, !.allocate_bytes = b, !.current_bytes = c,
                  !.peak_bytes = d, !.last_peak_bytes = e]
  BY DEF Mallocs
<1> HIDE DEF a, b, c, d, e
<1>4. Mallocs(m, k, n) \in Account
  BY <1>2, <1>3, Zenon DEF Account
<1>5. /\ Mallocs(m, k, n).allocate_cnt = a
      /\ Mallocs(m, k, n).allocate_bytes = b
      /\ Mallocs(m, k, n).current_bytes = c
      /\ Mallocs(m, k, n).peak_bytes = d
      /\ Mallocs(m, k, n).last_peak_bytes = e
      /\ Mallocs(m, k, n).free_cnt = m.free_cnt
      /\ Mallocs(m, k, n).free_bytes = m.free_bytes
  BY <1>3 DEF Account
<1>6. QED
  BY <1>4, <1>5 DEF a, b, c, d, e

LEMMA FreesFields ==
    ASSUME NEW m \in Account, NEW k \in Nat, NEW n \in Nat
    PROVE  LET r == Frees(m, k, n)
           IN  /\ r \in Account
               /\ r.allocate_cnt = m.allocate_cnt
               /\ r.allocate_bytes = m.allocate_bytes
               /\ r.free_cnt = m.free_cnt + k /\ r.free_bytes = m.free_bytes + k * n
               /\ r.current_bytes = m.current_bytes - k * n
               /\ r.peak_bytes = m.peak_bytes
               /\ r.last_peak_bytes = m.last_peak_bytes
<1> DEFINE p == k * n
           a == m.free_cnt + k
           b == m.free_bytes + p
           c == m.current_bytes - p
<1>1. p \in Nat
  OBVIOUS
<1>2. a \in Int /\ b \in Int /\ c \in Int
  <2> HIDE DEF p
  <2>1. QED
    BY <1>1 DEF Account
<1>3. Frees(m, k, n) = [m EXCEPT !.free_cnt = a, !.free_bytes = b, !.current_bytes = c]
  BY DEF Frees
<1> HIDE DEF a, b, c
<1>4. Frees(m, k, n) \in Account
  BY <1>2, <1>3, Zenon DEF Account
<1>5. /\ Frees(m, k, n).allocate_cnt = m.allocate_cnt
      /\ Frees(m, k, n).allocate_bytes = m.allocate_bytes
      /\ Frees(m, k, n).current_bytes = c
      /\ Frees(m, k, n).peak_bytes = m.peak_bytes
      /\ Frees(m, k, n).last_peak_bytes = m.last_peak_bytes
      /\ Frees(m, k, n).free_cnt = a
      /\ Frees(m, k, n).free_bytes = b
  BY <1>3 DEF Account
<1>6. QED
  BY <1>4, <1>5 DEF a, b, c

LEMMA MallocBooks ==
    ASSUME NEW m, NEW k \in Int, NEW b \in Int, Books(m, k, b), NEW n \in Nat
    PROVE  Books(malloc_or_fail(m, n), k + 1, b + n)
<1>1. m \in Account
  BY DEF Books
<1> DEFINE r == malloc_or_fail(m, n)
<1>2. /\ r \in Account
      /\ r.allocate_cnt = m.allocate_cnt + 1
      /\ r.allocate_bytes = m.allocate_bytes + n
      /\ r.free_cnt = m.free_cnt /\ r.free_bytes = m.free_bytes
      /\ r.current_bytes = m.current_bytes + n
      /\ r.peak_bytes = Larger(m.peak_bytes, m.current_bytes + n)
  BY <1>1, MallocFields
<1> HIDE DEF r
<1>3. Books(r, k + 1, b + n)
  BY <1>1, <1>2 DEF Books, Account, Outstanding, Larger
<1>4. QED
  BY <1>3 DEF r

LEMMA FreeBooks ==
    ASSUME NEW m, NEW k \in Int, NEW b \in Int, Books(m, k, b), NEW n \in Nat
    PROVE  Books(free_block(m, n), k - 1, b - n)
<1>1. m \in Account
  BY DEF Books
<1> DEFINE r == free_block(m, n)
<1>2. /\ r \in Account
      /\ r.allocate_cnt = m.allocate_cnt
      /\ r.allocate_bytes = m.allocate_bytes
      /\ r.free_cnt = m.free_cnt + 1 /\ r.free_bytes = m.free_bytes + n
      /\ r.current_bytes = m.current_bytes - n
      /\ r.peak_bytes = m.peak_bytes
  BY <1>1, FreeFields
<1> HIDE DEF r
<1>3. Books(r, k - 1, b - n)
  BY <1>1, <1>2 DEF Books, Account, Outstanding
<1>4. QED
  BY <1>3 DEF r

LEMMA MallocsStep ==
    ASSUME NEW m \in Account, NEW c \in Nat, NEW n \in Nat
    PROVE  /\ Mallocs(m, 0, n) = m
           /\ Mallocs(m, c + 1, n) = malloc_or_fail(Mallocs(m, c, n), n)
<1>1. (c + 1) * n = c * n + n /\ 0 * n = 0 /\ c * n \in Nat /\ c + 1 \in Nat
  OBVIOUS
<1> DEFINE one == Mallocs(m, c, n)
           two == Mallocs(m, c + 1, n)
           none == Mallocs(m, 0, n)
           next == malloc_or_fail(one, n)
<1>2. none = m
  <2>1. /\ none \in Account
        /\ none.allocate_cnt = m.allocate_cnt + 0
        /\ none.allocate_bytes = m.allocate_bytes + 0 * n
        /\ none.free_cnt = m.free_cnt /\ none.free_bytes = m.free_bytes
        /\ none.current_bytes = m.current_bytes + 0 * n
        /\ none.peak_bytes = m.peak_bytes
        /\ none.last_peak_bytes = m.last_peak_bytes
    BY MallocsFields, 0 \in Nat
  <2> HIDE DEF none
  <2>2. /\ m.allocate_cnt + 0 = m.allocate_cnt
        /\ m.allocate_bytes + 0 * n = m.allocate_bytes
        /\ m.current_bytes + 0 * n = m.current_bytes
    BY <1>1 DEF Account
  <2>3. QED
    BY <2>1, <2>2, AccountsAlike
<1>3. one \in Account /\ two \in Account
  BY <1>1, MallocsFields
<1>4. next \in Account
  <2> HIDE DEF one
  <2>1. QED
    BY <1>3, MallocFields
<1> DEFINE p == c * n
<1>5. /\ one.allocate_cnt = m.allocate_cnt + c
      /\ one.allocate_bytes = m.allocate_bytes + p
      /\ one.free_cnt = m.free_cnt /\ one.free_bytes = m.free_bytes
      /\ one.current_bytes = m.current_bytes + p
      /\ one.peak_bytes = IF c = 0 THEN m.peak_bytes ELSE Larger(m.peak_bytes, m.current_bytes + p)
      /\ one.last_peak_bytes = IF c = 0 THEN m.last_peak_bytes
                               ELSE Larger(m.last_peak_bytes, m.current_bytes + p)
  BY MallocsFields
<1>6. /\ two.allocate_cnt = m.allocate_cnt + (c + 1)
      /\ two.allocate_bytes = m.allocate_bytes + (p + n)
      /\ two.free_cnt = m.free_cnt /\ two.free_bytes = m.free_bytes
      /\ two.current_bytes = m.current_bytes + (p + n)
      /\ two.peak_bytes = Larger(m.peak_bytes, m.current_bytes + (p + n))
      /\ two.last_peak_bytes = Larger(m.last_peak_bytes, m.current_bytes + (p + n))
  <2> DEFINE p1 == (c + 1) * n
  <2>1. p1 = p + n
    BY <1>1
  <2>2. /\ two.allocate_cnt = m.allocate_cnt + (c + 1)
        /\ two.allocate_bytes = m.allocate_bytes + p1
        /\ two.free_cnt = m.free_cnt /\ two.free_bytes = m.free_bytes
        /\ two.current_bytes = m.current_bytes + p1
        /\ two.peak_bytes = IF c + 1 = 0 THEN m.peak_bytes
                            ELSE Larger(m.peak_bytes, m.current_bytes + p1)
        /\ two.last_peak_bytes = IF c + 1 = 0 THEN m.last_peak_bytes
                                 ELSE Larger(m.last_peak_bytes, m.current_bytes + p1)
    <3> DEFINE c1 == c + 1
    <3>1. c1 \in Nat
      OBVIOUS
    <3> HIDE DEF c1
    <3>2. LET r == Mallocs(m, c1, n)
          IN  /\ r.allocate_cnt = m.allocate_cnt + c1
              /\ r.allocate_bytes = m.allocate_bytes + c1 * n
              /\ r.free_cnt = m.free_cnt /\ r.free_bytes = m.free_bytes
              /\ r.current_bytes = m.current_bytes + c1 * n
              /\ r.peak_bytes = IF c1 = 0 THEN m.peak_bytes
                                ELSE Larger(m.peak_bytes, m.current_bytes + c1 * n)
              /\ r.last_peak_bytes = IF c1 = 0 THEN m.last_peak_bytes
                                     ELSE Larger(m.last_peak_bytes, m.current_bytes + c1 * n)
      BY <3>1, MallocsFields
    <3>3. QED
      BY <3>2 DEF c1
  <2> HIDE DEF p1, two, p
  <2>3. QED
    BY <2>1, <2>2
<1>7. /\ next.allocate_cnt = one.allocate_cnt + 1
      /\ next.allocate_bytes = one.allocate_bytes + n
      /\ next.free_cnt = one.free_cnt /\ next.free_bytes = one.free_bytes
      /\ next.current_bytes = one.current_bytes + n
      /\ next.peak_bytes = Larger(one.peak_bytes, one.current_bytes + n)
      /\ next.last_peak_bytes = Larger(one.last_peak_bytes, one.current_bytes + n)
  <2> HIDE DEF one
  <2>1. QED
    BY <1>3, MallocFields
<1>8. two = next
  <2>1. p \in Nat
    BY <1>1
  <2> HIDE DEF one, two, next, p
  <2>2. /\ next.allocate_cnt = two.allocate_cnt
        /\ next.allocate_bytes = two.allocate_bytes
        /\ next.free_cnt = two.free_cnt /\ next.free_bytes = two.free_bytes
        /\ next.current_bytes = two.current_bytes
    BY <1>5, <1>6, <1>7, <2>1 DEF Account
  <2>3. /\ next.peak_bytes = two.peak_bytes
        /\ next.last_peak_bytes = two.last_peak_bytes
    BY <1>5, <1>6, <1>7, <2>1 DEF Account, Larger
  <2>4. QED
    BY <1>3, <1>4, <2>2, <2>3, AccountsAlike
<1>9. QED
  BY <1>2, <1>8

LEMMA FreesStep ==
    ASSUME NEW m \in Account, NEW c \in Nat, NEW n \in Nat
    PROVE  /\ Frees(m, 0, n) = m
           /\ Frees(m, c + 1, n) = free_block(Frees(m, c, n), n)
<1>1. (c + 1) * n = c * n + n /\ 0 * n = 0 /\ c * n \in Nat /\ c + 1 \in Nat
  OBVIOUS
<1> DEFINE one == Frees(m, c, n)
           two == Frees(m, c + 1, n)
           none == Frees(m, 0, n)
           next == free_block(one, n)
<1>2. none = m
  <2>1. /\ none \in Account
        /\ none.allocate_cnt = m.allocate_cnt
        /\ none.allocate_bytes = m.allocate_bytes
        /\ none.free_cnt = m.free_cnt + 0 /\ none.free_bytes = m.free_bytes + 0 * n
        /\ none.current_bytes = m.current_bytes - 0 * n
        /\ none.peak_bytes = m.peak_bytes
        /\ none.last_peak_bytes = m.last_peak_bytes
    BY FreesFields, 0 \in Nat
  <2> HIDE DEF none
  <2>2. /\ m.free_cnt + 0 = m.free_cnt
        /\ m.free_bytes + 0 * n = m.free_bytes
        /\ m.current_bytes - 0 * n = m.current_bytes
    BY <1>1 DEF Account
  <2>3. QED
    BY <2>1, <2>2, AccountsAlike
<1>3. one \in Account /\ two \in Account
  BY <1>1, FreesFields
<1>4. next \in Account
  <2> HIDE DEF one
  <2>1. QED
    BY <1>3, FreeFields
<1> DEFINE p == c * n
<1>5. /\ one.allocate_cnt = m.allocate_cnt
      /\ one.allocate_bytes = m.allocate_bytes
      /\ one.free_cnt = m.free_cnt + c /\ one.free_bytes = m.free_bytes + p
      /\ one.current_bytes = m.current_bytes - p
      /\ one.peak_bytes = m.peak_bytes
      /\ one.last_peak_bytes = m.last_peak_bytes
  BY FreesFields
<1>6. /\ two.allocate_cnt = m.allocate_cnt
      /\ two.allocate_bytes = m.allocate_bytes
      /\ two.free_cnt = m.free_cnt + (c + 1) /\ two.free_bytes = m.free_bytes + (p + n)
      /\ two.current_bytes = m.current_bytes - (p + n)
      /\ two.peak_bytes = m.peak_bytes
      /\ two.last_peak_bytes = m.last_peak_bytes
  <2> DEFINE p1 == (c + 1) * n
  <2>1. p1 = p + n
    BY <1>1
  <2>2. /\ two.allocate_cnt = m.allocate_cnt
        /\ two.allocate_bytes = m.allocate_bytes
        /\ two.free_cnt = m.free_cnt + (c + 1) /\ two.free_bytes = m.free_bytes + p1
        /\ two.current_bytes = m.current_bytes - p1
        /\ two.peak_bytes = m.peak_bytes
        /\ two.last_peak_bytes = m.last_peak_bytes
    BY <1>1, FreesFields
  <2> HIDE DEF p1, two, p
  <2>3. QED
    BY <2>1, <2>2
<1>7. /\ next.allocate_cnt = one.allocate_cnt
      /\ next.allocate_bytes = one.allocate_bytes
      /\ next.free_cnt = one.free_cnt + 1 /\ next.free_bytes = one.free_bytes + n
      /\ next.current_bytes = one.current_bytes - n
      /\ next.peak_bytes = one.peak_bytes
      /\ next.last_peak_bytes = one.last_peak_bytes
  <2> HIDE DEF one
  <2>1. QED
    BY <1>3, FreeFields
<1>8. two = next
  <2>1. p \in Nat
    BY <1>1
  <2> HIDE DEF one, two, next, p
  <2>2. /\ next.allocate_cnt = two.allocate_cnt
        /\ next.allocate_bytes = two.allocate_bytes
        /\ next.free_cnt = two.free_cnt /\ next.free_bytes = two.free_bytes
        /\ next.current_bytes = two.current_bytes
        /\ next.peak_bytes = two.peak_bytes
        /\ next.last_peak_bytes = two.last_peak_bytes
    BY <1>5, <1>6, <1>7, <2>1 DEF Account
  <2>3. QED
    BY <1>3, <1>4, <2>2, AccountsAlike
<1>9. QED
  BY <1>2, <1>8

(* Folding the routines over any sequence counts its elements, for this is *)
(* the function that folding is defined by.                                *)
LEMMA MallocFold ==
    ASSUME NEW m \in Account, NEW len \in Nat, NEW n \in Nat
    PROVE  LET iter == CHOOSE w :
                         w = [T \in SUBSET (1 .. len) |->
                                IF T = {} THEN m ELSE malloc_or_fail(w[T \ {Max(T)}], n)]
           IN  iter[1 .. len] = Mallocs(m, len, n)
<1> DEFINE D == 1 .. len
           Body(w) == [T \in SUBSET D |-> IF T = {} THEN m
                         ELSE malloc_or_fail(w[T \ {Max(T)}], n)]
           Good == [T \in SUBSET D |-> Mallocs(m, Cardinality(T), n)]
           iter == CHOOSE w : w = Body(w)
           Wrong == {j \in 0 .. len : iter[1 .. j] # Mallocs(m, j, n)}
<1>1. SUFFICES iter[1 .. len] = Mallocs(m, len, n)
  OBVIOUS
<1>2. Good = Body(Good)
  <2> SUFFICES ASSUME NEW T \in SUBSET D PROVE Good[T] = Body(Good)[T]
    OBVIOUS
  <2>1. CASE T = {}
    BY <2>1, MallocsStep, FS_EmptySet
  <2>2. CASE T # {}
    <3>1. /\ T \ {Max(T)} \in SUBSET D
          /\ Cardinality(T \ {Max(T)}) \in Nat
          /\ Cardinality(T) = Cardinality(T \ {Max(T)}) + 1
      BY <2>2, MaxOfSome
    <3>2. Mallocs(m, Cardinality(T), n)
            = malloc_or_fail(Mallocs(m, Cardinality(T \ {Max(T)}), n), n)
      BY <3>1, MallocsStep
    <3>3. QED
      BY <2>2, <3>1, <3>2
  <2>3. QED
    BY <2>1, <2>2
<1>3. iter = Body(iter)
  <2> HIDE DEF Body, Good
  <2>1. QED
    BY <1>2
<1>4. ASSUME NEW j \in Nat, j + 1 <= len, iter[1 .. j] = Mallocs(m, j, n)
      PROVE  iter[1 .. j + 1] = Mallocs(m, j + 1, n)
  <2>1. 1 .. j + 1 \in SUBSET D /\ 1 .. j + 1 # {}
    <3>1. \A i \in 1 .. j + 1 : i \in 1 .. len
      BY ONLY j \in Nat, len \in Nat, j + 1 <= len
    <3>2. 1 \in 1 .. j + 1
      BY ONLY j \in Nat
    <3>3. QED
      BY ONLY <3>1, <3>2 DEF D
  <2>2. Max(1 .. j + 1) = j + 1
    <3>1. Max(1 .. j + 1) \in 1 .. j + 1 /\ \A y \in 1 .. j + 1 : y <= Max(1 .. j + 1)
      <4> DEFINE T == 1 .. j + 1
      <4>1. T \in SUBSET (1 .. len) /\ T # {}
        BY <2>1
      <4> HIDE DEF T
      <4>2. Max(T) \in T /\ \A y \in T : y <= Max(T)
        BY <4>1, MaxOfSome
      <4>3. QED
        BY <4>2 DEF T
    <3>2. QED
      BY <3>1
  <2>3. (1 .. j + 1) \ {j + 1} = 1 .. j
    OBVIOUS
  <2>4. Body(iter)[1 .. j + 1] = malloc_or_fail(iter[(1 .. j + 1) \ {Max(1 .. j + 1)}], n)
    <3> HIDE DEF iter
    <3>1. QED
      BY <2>1
  <2>5. iter[1 .. j + 1] = malloc_or_fail(iter[1 .. j], n)
    <3> HIDE DEF iter, Body
    <3>1. QED
      BY <1>3, <2>2, <2>3, <2>4
  <2>6. QED
    <3> HIDE DEF iter
    <3>1. QED
      BY <1>4, <2>5, MallocsStep
<1>5. iter[1 .. 0] = Mallocs(m, 0, n)
  <2>1. 1 .. 0 = {} /\ {} \in SUBSET D
    OBVIOUS
  <2>2. Body(iter)[{}] = m
    <3> HIDE DEF iter
    <3>1. QED
      BY <2>1
  <2>3. QED
    <3> HIDE DEF iter, Body
    <3>1. QED
      BY <1>3, <2>1, <2>2, MallocsStep
<1>6. Wrong = {}
  <2> SUFFICES ASSUME Wrong # {} PROVE FALSE
    OBVIOUS
  <2> HIDE DEF iter
  <2>1. PICK j \in Wrong : \A i \in Wrong : j <= i
    <3>1. Wrong \in SUBSET Nat
      OBVIOUS
    <3> HIDE DEF Wrong
    <3>2. QED
      BY <3>1, LeastExists
  <2>2. j # 0
    BY <1>5
  <2>3. PICK i \in Nat : i + 1 = j
    <3>1. j - 1 \in Nat /\ (j - 1) + 1 = j
      BY <2>1, <2>2
    <3>2. QED
      BY <3>1
  <2>4. i \in 0 .. len /\ i + 1 <= len /\ ~(j <= i)
    BY <2>1, <2>3
  <2>5. iter[1 .. i] = Mallocs(m, i, n)
    BY <2>1, <2>4
  <2>6. iter[1 .. i + 1] = Mallocs(m, i + 1, n)
    BY <1>4, <2>4, <2>5
  <2>7. iter[1 .. j] = Mallocs(m, j, n)
    BY <2>3, <2>6
  <2>8. QED
    BY <2>1, <2>7
<1>7. QED
  <2> HIDE DEF iter
  <2>1. QED
    BY <1>6

LEMMA FreeFold ==
    ASSUME NEW m \in Account, NEW len \in Nat, NEW n \in Nat
    PROVE  LET iter == CHOOSE w :
                         w = [T \in SUBSET (1 .. len) |->
                                IF T = {} THEN m ELSE free_block(w[T \ {Max(T)}], n)]
           IN  iter[1 .. len] = Frees(m, len, n)
<1> DEFINE D == 1 .. len
           Body(w) == [T \in SUBSET D |-> IF T = {} THEN m
                         ELSE free_block(w[T \ {Max(T)}], n)]
           Good == [T \in SUBSET D |-> Frees(m, Cardinality(T), n)]
           iter == CHOOSE w : w = Body(w)
           Wrong == {j \in 0 .. len : iter[1 .. j] # Frees(m, j, n)}
<1>1. SUFFICES iter[1 .. len] = Frees(m, len, n)
  OBVIOUS
<1>2. Good = Body(Good)
  <2> SUFFICES ASSUME NEW T \in SUBSET D PROVE Good[T] = Body(Good)[T]
    OBVIOUS
  <2>1. CASE T = {}
    BY <2>1, FreesStep, FS_EmptySet
  <2>2. CASE T # {}
    <3>1. /\ T \ {Max(T)} \in SUBSET D
          /\ Cardinality(T \ {Max(T)}) \in Nat
          /\ Cardinality(T) = Cardinality(T \ {Max(T)}) + 1
      BY <2>2, MaxOfSome
    <3>2. Frees(m, Cardinality(T), n)
            = free_block(Frees(m, Cardinality(T \ {Max(T)}), n), n)
      BY <3>1, FreesStep
    <3>3. QED
      BY <2>2, <3>1, <3>2
  <2>3. QED
    BY <2>1, <2>2
<1>3. iter = Body(iter)
  <2> HIDE DEF Body, Good
  <2>1. QED
    BY <1>2
<1>4. ASSUME NEW j \in Nat, j + 1 <= len, iter[1 .. j] = Frees(m, j, n)
      PROVE  iter[1 .. j + 1] = Frees(m, j + 1, n)
  <2>1. 1 .. j + 1 \in SUBSET D /\ 1 .. j + 1 # {}
    <3>1. \A i \in 1 .. j + 1 : i \in 1 .. len
      BY ONLY j \in Nat, len \in Nat, j + 1 <= len
    <3>2. 1 \in 1 .. j + 1
      BY ONLY j \in Nat
    <3>3. QED
      BY ONLY <3>1, <3>2 DEF D
  <2>2. Max(1 .. j + 1) = j + 1
    <3>1. Max(1 .. j + 1) \in 1 .. j + 1 /\ \A y \in 1 .. j + 1 : y <= Max(1 .. j + 1)
      <4> DEFINE T == 1 .. j + 1
      <4>1. T \in SUBSET (1 .. len) /\ T # {}
        BY <2>1
      <4> HIDE DEF T
      <4>2. Max(T) \in T /\ \A y \in T : y <= Max(T)
        BY <4>1, MaxOfSome
      <4>3. QED
        BY <4>2 DEF T
    <3>2. QED
      BY <3>1
  <2>3. (1 .. j + 1) \ {j + 1} = 1 .. j
    OBVIOUS
  <2>4. Body(iter)[1 .. j + 1] = free_block(iter[(1 .. j + 1) \ {Max(1 .. j + 1)}], n)
    <3> HIDE DEF iter
    <3>1. QED
      BY <2>1
  <2>5. iter[1 .. j + 1] = free_block(iter[1 .. j], n)
    <3> HIDE DEF iter, Body
    <3>1. QED
      BY <1>3, <2>2, <2>3, <2>4
  <2>6. QED
    <3> HIDE DEF iter
    <3>1. QED
      BY <1>4, <2>5, FreesStep
<1>5. iter[1 .. 0] = Frees(m, 0, n)
  <2>1. 1 .. 0 = {} /\ {} \in SUBSET D
    OBVIOUS
  <2>2. Body(iter)[{}] = m
    <3> HIDE DEF iter
    <3>1. QED
      BY <2>1
  <2>3. QED
    <3> HIDE DEF iter, Body
    <3>1. QED
      BY <1>3, <2>1, <2>2, FreesStep
<1>6. Wrong = {}
  <2> SUFFICES ASSUME Wrong # {} PROVE FALSE
    OBVIOUS
  <2> HIDE DEF iter
  <2>1. PICK j \in Wrong : \A i \in Wrong : j <= i
    <3>1. Wrong \in SUBSET Nat
      OBVIOUS
    <3> HIDE DEF Wrong
    <3>2. QED
      BY <3>1, LeastExists
  <2>2. j # 0
    BY <1>5
  <2>3. PICK i \in Nat : i + 1 = j
    <3>1. j - 1 \in Nat /\ (j - 1) + 1 = j
      BY <2>1, <2>2
    <3>2. QED
      BY <3>1
  <2>4. i \in 0 .. len /\ i + 1 <= len /\ ~(j <= i)
    BY <2>1, <2>3
  <2>5. iter[1 .. i] = Frees(m, i, n)
    BY <2>1, <2>4
  <2>6. iter[1 .. i + 1] = Frees(m, i + 1, n)
    BY <1>4, <2>4, <2>5
  <2>7. iter[1 .. j] = Frees(m, j, n)
    BY <2>3, <2>6
  <2>8. QED
    BY <2>1, <2>7
<1>7. QED
  <2> HIDE DEF iter
  <2>1. QED
    BY <1>6

LEMMA MallocsBooks ==
    ASSUME NEW m, NEW k \in Int, NEW b \in Int, Books(m, k, b), NEW c \in Nat, NEW n \in Nat
    PROVE  Books(Mallocs(m, c, n), k + c, b + c * n)
<1>1. m \in Account
  BY DEF Books
<1> DEFINE r == Mallocs(m, c, n)
           p == c * n
<1>2. p \in Nat /\ (c = 0 => p = 0)
  OBVIOUS
<1>3. /\ r \in Account
      /\ r.allocate_cnt = m.allocate_cnt + c
      /\ r.allocate_bytes = m.allocate_bytes + p
      /\ r.free_cnt = m.free_cnt /\ r.free_bytes = m.free_bytes
      /\ r.current_bytes = m.current_bytes + p
      /\ r.peak_bytes = IF c = 0 THEN m.peak_bytes ELSE Larger(m.peak_bytes, m.current_bytes + p)
  BY <1>1, MallocsFields
<1> HIDE DEF r, p
<1>4. Books(r, k + c, b + p)
  BY <1>1, <1>2, <1>3 DEF Books, Account, Outstanding, Larger
<1>5. QED
  BY <1>4 DEF r, p

LEMMA FreesBooks ==
    ASSUME NEW m, NEW k \in Int, NEW b \in Int, Books(m, k, b), NEW c \in Nat, NEW n \in Nat
    PROVE  Books(Frees(m, c, n), k - c, b - c * n)
<1>1. m \in Account
  BY DEF Books
<1> DEFINE r == Frees(m, c, n)
           p == c * n
<1>2. p \in Nat
  OBVIOUS
<1>3. /\ r \in Account
      /\ r.allocate_cnt = m.allocate_cnt
      /\ r.allocate_bytes = m.allocate_bytes
      /\ r.free_cnt = m.free_cnt + c /\ r.free_bytes = m.free_bytes + p
      /\ r.current_bytes = m.current_bytes - p
      /\ r.peak_bytes = m.peak_bytes
  BY <1>1, FreesFields
<1> HIDE DEF r, p
<1>4. Books(r, k - c, b - p)
  BY <1>1, <1>2, <1>3 DEF Books, Account, Outstanding
<1>5. QED
  BY <1>4 DEF r, p

LEMMA MallocEachIs ==
    ASSUME NEW m \in Account, NEW c \in Nat, NEW n \in Nat
    PROVE  MallocEach(m, c, n) = Mallocs(m, c, n)
<1> DEFINE iter == CHOOSE w :
                     w = [T \in SUBSET (1 .. c) |->
                            IF T = {} THEN m ELSE malloc_or_fail(w[T \ {Max(T)}], n)]
<1>1. SUFFICES iter[1 .. c] = Mallocs(m, c, n)
  BY DEF MallocEach, FoldLeft, MapThenFoldSet
<1>2. QED
  BY MallocFold

LEMMA FreeEachIs ==
    ASSUME NEW m \in Account, NEW c \in Nat, NEW n \in Nat
    PROVE  FreeEach(m, c, n) = Frees(m, c, n)
<1> DEFINE iter == CHOOSE w :
                     w = [T \in SUBSET (1 .. c) |->
                            IF T = {} THEN m ELSE free_block(w[T \ {Max(T)}], n)]
<1>1. SUFFICES iter[1 .. c] = Frees(m, c, n)
  BY DEF FreeEach, FoldLeft, MapThenFoldSet
<1>2. QED
  BY FreeFold

LEMMA StrsavedIs ==
    ASSUME NEW m \in Account, NEW T, NEW argv \in Seq(T)
    PROVE  Strsaved(m, argv) = Mallocs(m, Len(argv), WordLength + 1)
<1> DEFINE c == Len(argv)
           iter == CHOOSE w :
                     w = [U \in SUBSET (1 .. c) |->
                            IF U = {} THEN m
                            ELSE malloc_or_fail(w[U \ {Max(U)}], WordLength + 1)]
<1>1. SUFFICES iter[1 .. c] = Mallocs(m, c, WordLength + 1)
  <2>1. DOMAIN argv = 1 .. c
    OBVIOUS
  <2>2. QED
    BY <2>1 DEF Strsaved, strsave_or_fail, FoldLeft, MapThenFoldSet
<1>2. QED
  <2>1. c \in Nat /\ WordLength + 1 \in Nat
    BY DEF WordLength
  <2>2. QED
    BY <2>1, MallocFold

LEMMA StrfreedIs ==
    ASSUME NEW m \in Account, NEW T, NEW argv \in Seq(T)
    PROVE  Strfreed(m, argv) = Frees(m, Len(argv), WordLength + 1)
<1> DEFINE c == Len(argv)
           iter == CHOOSE w :
                     w = [U \in SUBSET (1 .. c) |->
                            IF U = {} THEN m
                            ELSE free_block(w[U \ {Max(U)}], WordLength + 1)]
<1>1. SUFFICES iter[1 .. c] = Frees(m, c, WordLength + 1)
  <2>1. DOMAIN argv = 1 .. c
    OBVIOUS
  <2>2. QED
    BY <2>1 DEF Strfreed, free_string, FoldLeft, MapThenFoldSet
<1>2. QED
  <2>1. c \in Nat /\ WordLength + 1 \in Nat
    BY DEF WordLength
  <2>2. QED
    BY <2>1, FreeFold

-----------------------------------------------------------------------------
(* A command and its words.                                                *)

LEMMA CountUp ==
    ASSUME NEW n \in Nat, NEW T, 0 \in T,
           \A i \in 0 .. n : i \in T /\ i + 1 <= n => i + 1 \in T
    PROVE  \A i \in 0 .. n : i \in T
<1> DEFINE Wrong == {i \in 0 .. n : i \notin T}
<1> SUFFICES ASSUME Wrong # {} PROVE FALSE
  OBVIOUS
<1>1. PICK j \in Wrong : \A i \in Wrong : j <= i
  <2>1. Wrong \in SUBSET Nat
    OBVIOUS
  <2> HIDE DEF Wrong
  <2>2. QED
    BY <2>1, LeastExists
<1>2. j # 0
  BY <1>1
<1>3. j - 1 \in 0 .. n /\ (j - 1) + 1 = j /\ ~(j <= j - 1)
  BY <1>1, <1>2
<1>4. j - 1 \in T
  BY <1>1, <1>3
<1>5. QED
  BY <1>1, <1>3, <1>4

LEMMA WordsAreThere ==
    ASSUME NEW C, NEW line \in Seq(C)
    PROVE  parse_args(line) \in Seq(C)
<1> DEFINE n == Len(line)
           D == 0 .. n
           Body(w, i) == IF i = 0 THEN <<>>
                         ELSE IF line[i] = SP THEN w[i - 1] ELSE Append(w[i - 1], line[i])
           Whole(w) == [i \in D |-> Body(w, i)]
           Good(w, k) == \A i \in 0 .. k : w[i] = Body(w, i)
           Reached == {k \in D : \E w \in [D -> Seq(C)] : Good(w, k)}
           words == CHOOSE w : w = Whole(w)
<1>1. parse_args(line) = words[n]
  BY DEF parse_args
<1>2. n \in Nat /\ n \in D
  OBVIOUS
<1>3. \A i \in 1 .. n : line[i] \in C
  OBVIOUS
<1>4. ASSUME NEW w \in [D -> Seq(C)], NEW i \in D PROVE Body(w, i) \in Seq(C)
  <2>1. CASE i = 0
    BY <2>1, EmptySeq
  <2>2. CASE i # 0
    <3>1. i - 1 \in D /\ line[i] \in C
      BY <1>3, <2>2
    <3>2. w[i - 1] \in Seq(C)
      BY <3>1
    <3>3. Append(w[i - 1], line[i]) \in Seq(C)
      BY <3>1, <3>2, AppendProperties
    <3>4. QED
      BY <2>2, <3>2, <3>3
  <2>3. QED
    BY <2>1, <2>2
<1>5. \A k \in D : k \in Reached
  <2>1. 0 \in Reached
    <3>1. [i \in D |-> <<>>] \in [D -> Seq(C)]
      BY EmptySeq
    <3>2. Good([i \in D |-> <<>>], 0)
      BY <1>2
    <3>3. 0 \in D
      BY <1>2
    <3>4. QED
      BY <3>1, <3>2, <3>3
  <2>2. ASSUME NEW k \in D, k \in Reached, k + 1 <= n PROVE k + 1 \in Reached
    <3>1. PICK w \in [D -> Seq(C)] : Good(w, k)
      BY <2>2
    <3> DEFINE e == Body(w, k + 1)
               v == [w EXCEPT ![k + 1] = e]
    <3>2. k + 1 \in D
      BY <2>2
    <3>3. e \in Seq(C)
      BY <1>4, <3>2
    <3>4. v \in [D -> Seq(C)]
      <4> HIDE DEF e
      <4>1. QED
        BY <3>2, <3>3
    <3>5. Good(v, k + 1)
      <4> SUFFICES ASSUME NEW i \in 0 .. k + 1 PROVE v[i] = Body(v, i)
        OBVIOUS
      <4>1. i \in D /\ (i # 0 => i - 1 \in D /\ i - 1 # k + 1)
        BY <2>2
      <4>2. Body(v, i) = Body(w, i)
        <5> HIDE DEF e
        <5>1. i # 0 => v[i - 1] = w[i - 1]
          BY <4>1
        <5> HIDE DEF v
        <5>2. QED
          BY <5>1
      <4>3. v[i] = Body(w, i)
        <5>1. CASE i = k + 1
          <6> HIDE DEF Body
          <6>1. QED
            BY <3>2, <5>1
        <5>2. CASE i # k + 1
          <6>1. i \in 0 .. k
            BY <5>2
          <6>2. w[i] = Body(w, i)
            BY <3>1, <6>1
          <6> HIDE DEF Body
          <6>3. QED
            BY <4>1, <5>2, <6>2
        <5>3. QED
          BY <5>1, <5>2
      <4>4. QED
        BY <4>2, <4>3
    <3> HIDE DEF v, Good
    <3>6. QED
      BY <3>2, <3>4, <3>5
  <2> HIDE DEF Reached
  <2>3. QED
    BY <1>2, <2>1, <2>2, CountUp
<1>6. PICK w \in [D -> Seq(C)] : Good(w, n)
  BY <1>2, <1>5
<1>7. w = Whole(w)
  BY <1>6
<1>8. words = Whole(words)
  <2> HIDE DEF Whole
  <2>1. QED
    BY <1>7
<1> HIDE DEF words
<1> DEFINE T == {i \in D : words[i] \in Seq(C)}
<1>9. \A i \in D : i \in T
  <2>1. 0 \in T
    <3>1. words[0] = <<>>
      BY <1>2, <1>8
    <3>2. <<>> \in Seq(C)
      BY EmptySeq
    <3>3. 0 \in D
      BY <1>2
    <3> HIDE DEF D, n
    <3>4. QED
      BY <3>1, <3>2, <3>3
  <2>2. ASSUME NEW i \in D, i \in T, i + 1 <= n PROVE i + 1 \in T
    <3>1. i + 1 \in D /\ i + 1 # 0 /\ (i + 1) - 1 = i /\ line[i + 1] \in C
      BY <1>3, <2>2
    <3>2. words[i + 1] = IF line[i + 1] = SP THEN words[i] ELSE Append(words[i], line[i + 1])
      BY <1>8, <3>1
    <3>3. words[i] \in Seq(C)
      BY <2>2
    <3>4. Append(words[i], line[i + 1]) \in Seq(C)
      BY <3>1, <3>3, AppendProperties
    <3>5. QED
      BY <3>1, <3>2, <3>3, <3>4
  <2> HIDE DEF T
  <2>3. QED
    BY <1>2, <2>1, <2>2, CountUp
<1>10. QED
  BY <1>1, <1>2, <1>9

LEMMA TimesIsCount ==
    ASSUME NEW C, NEW argv \in Seq(C)
    PROVE  Times(argv) \in Nat
<1> DEFINE T == {i \in 1 .. (Len(argv) - 1) : \A j \in 1 .. i : argv[j] = "time"}
<1>1. IsFiniteSet(1 .. (Len(argv) - 1))
  BY FS_Interval
<1>2. IsFiniteSet(T)
  BY <1>1, FS_Subset
<1>3. QED
  BY <1>2, FS_CardinalityType DEF Times

(* The blocks and bytes that parse_args leaves to interpret_cmd.           *)
Words(line) == Len(parse_args(line))

LEMMA ParsedBooks ==
    ASSUME NEW C, NEW line \in Seq(C),
           NEW m, NEW k \in Int, NEW b \in Int, Books(m, k, b)
    PROVE  /\ Words(line) \in Nat
           /\ Books(Parsed(m, line), k + 1 + Words(line), b + 10 * Words(line))
<1> DEFINE argv == parse_args(line)
           c == Len(argv)
           l == Len(line) + 2
           copied == malloc_or_fail(m, l)
           array == malloc_or_fail(copied, c * 8)
           saved == Strsaved(array, argv)
<1>1. argv \in Seq(C)
  BY WordsAreThere
<1>2. c \in Nat /\ l \in Nat /\ c * 8 \in Nat
  BY <1>1
<1>3. Parsed(m, line) = free_block(saved, l)
  BY DEF Parsed, calloc_or_fail, PointerSize
<1>4. Words(line) = c
  BY DEF Words
<1> HIDE DEF argv, c, l
<1>5. Books(copied, k + 1, b + l)
  BY <1>2, MallocBooks
<1> HIDE DEF copied
<1>6. Books(array, (k + 1) + 1, (b + l) + c * 8)
  <2>1. k + 1 \in Int /\ b + l \in Int
    BY <1>2
  <2>2. QED
    BY <1>2, <1>5, <2>1, MallocBooks
<1> HIDE DEF array
<1> DEFINE k1 == (k + 1) + 1
           b1 == (b + l) + c * 8
<1>7. k1 \in Int /\ b1 \in Int
  BY <1>2
<1>8. saved = Mallocs(array, c, 2)
  <2>1. array \in Account
    BY <1>6 DEF Books
  <2>2. QED
    BY <1>1, <2>1, StrsavedIs DEF c, WordLength
<1>9. Books(saved, k1 + c, b1 + c * 2)
  <2> HIDE DEF k1, b1, saved
  <2>0. Books(array, k1, b1)
    BY <1>6 DEF k1, b1
  <2>1. QED
    BY <1>2, <1>7, <1>8, <2>0, MallocsBooks
<1> HIDE DEF saved
<1>10. Books(free_block(saved, l), (k1 + c) - 1, (b1 + c * 2) - l)
  <2>1. k1 + c \in Int /\ b1 + c * 2 \in Int
    BY <1>2, <1>7
  <2> HIDE DEF k1, b1
  <2>2. QED
    BY <1>2, <1>9, <2>1, FreeBooks
<1>11. (k1 + c) - 1 = k + 1 + c /\ (b1 + c * 2) - l = b + 10 * c
  BY <1>2
<1>12. QED
  BY <1>2, <1>3, <1>4, <1>10, <1>11

LEMMA ForgottenBooks ==
    ASSUME NEW C, NEW line \in Seq(C), NEW m, NEW k \in Int, NEW b \in Int,
           Books(m, k + 1 + Words(line), b + 10 * Words(line))
    PROVE  Books(Forgotten(m, line), k, b)
<1> DEFINE argv == parse_args(line)
           c == Len(argv)
           freed == Frees(m, c, 2)
           k1 == k + 1 + c
           b1 == b + 10 * c
<1>1. argv \in Seq(C)
  BY WordsAreThere
<1>2. c \in Nat /\ c * 8 \in Nat
  BY <1>1
<1>3. m \in Account
  BY DEF Books
<1>4. Strfreed(m, argv) = freed
  BY <1>1, <1>3, StrfreedIs DEF WordLength
<1>5. Forgotten(m, line) = free_block(freed, c * 8)
  BY <1>4 DEF Forgotten, free_array, PointerSize
<1>6. Books(m, k1, b1) /\ k1 \in Int /\ b1 \in Int
  BY <1>2 DEF Words
<1> HIDE DEF argv, c
<1>7. Books(freed, k1 - c, b1 - c * 2)
  <2> HIDE DEF k1, b1
  <2>1. QED
    BY <1>2, <1>6, FreesBooks
<1> HIDE DEF freed
<1>8. Books(free_block(freed, c * 8), (k1 - c) - 1, (b1 - c * 2) - c * 8)
  <2>1. k1 - c \in Int /\ b1 - c * 2 \in Int
    BY <1>2
  <2> HIDE DEF k1, b1
  <2>2. QED
    BY <1>2, <1>7, <2>1, FreeBooks
<1>9. (k1 - c) - 1 = k /\ (b1 - c * 2) - c * 8 = b
  BY <1>2
<1>10. QED
  BY <1>5, <1>8, <1>9

-----------------------------------------------------------------------------
(* The stack of files.                                                      *)

LEMMA OpenedTop ==
    ASSUME NEW f \in File, NEW fd \in Nat, ConsoleAssumption
    PROVE  Reader(f, fd) \in Stacked
<1>1. Content[f] \in Seq(ToSet(Content[f]))
  BY DEF ConsoleAssumption
<1>2. ToSet(Content[f]) \subseteq Character
  BY DEF Character
<1>3. Content[f] \in Seq(Character)
  BY <1>1, <1>2
<1>4. <<>> \in Seq(Character)
  BY EmptySeq
<1>5. QED
  BY <1>3, <1>4 DEF Reader, Stacked

LEMMA ReadTop ==
    ASSUME NEW s \in Seq(Stacked), s # <<>>, NEW u \in Seq(Character), NEW b \in Seq(Character),
           NEW t, t = [s EXCEPT ![1] = [fd |-> s[1].fd, unread |-> u, buf |-> b]]
    PROVE  /\ t \in Seq(Stacked) /\ Len(t) = Len(s) /\ t # <<>>
           /\ Descriptors(t) = Descriptors(s)
           /\ EachItsOwn(s) => EachItsOwn(t)
<1> DEFINE r == [fd |-> s[1].fd, unread |-> u, buf |-> b]
<1>1. 1 \in 1 .. Len(s) /\ s[1] \in Stacked
  <2>1. Len(s) \in Nat \ {0}
    BY EmptySeq
  <2>2. QED
    BY <2>1, ElementOfSeq
<1>2. r \in Stacked /\ r.fd = s[1].fd
  BY <1>1 DEF Stacked
<1> HIDE DEF r
<1>3. /\ t \in Seq(Stacked) /\ Len(t) = Len(s)
      /\ \A j \in 1 .. Len(s) : t[j] = IF j = 1 THEN r ELSE s[j]
  <2>1. t = [s EXCEPT ![1] = r]
    BY DEF r
  <2>2. QED
    BY <1>1, <1>2, <2>1, ExceptSeq
<1>4. \A j \in 1 .. Len(s) : t[j].fd = s[j].fd
  BY <1>2, <1>3
<1>5. DOMAIN t = 1 .. Len(s) /\ DOMAIN s = 1 .. Len(s)
  BY <1>3
<1>6. t # <<>>
  BY <1>1, <1>3
<1>7. QED
  BY <1>3, <1>4, <1>5, <1>6 DEF Descriptors, EachItsOwn

LEMMA PoppedTop ==
    ASSUME NEW s \in Seq(Stacked), s # <<>>, EachItsOwn(s)
    PROVE  /\ Tail(s) \in Seq(Stacked) /\ Len(Tail(s)) = Len(s) - 1 /\ Len(s) \in Nat
           /\ Descriptors(Tail(s)) = Descriptors(s) \ {Head(s).fd}
           /\ EachItsOwn(Tail(s))
<1> DEFINE t == Tail(s)
<1>1. /\ t \in Seq(Stacked) /\ Len(t) = Len(s) - 1
      /\ \A i \in 1 .. Len(t) : t[i] = s[i + 1]
  BY HeadTailProperties
<1>2. Len(s) \in Nat /\ Len(s) > 0 /\ Head(s) = s[1]
  BY EmptySeq
<1>3. DOMAIN t = 1 .. (Len(s) - 1) /\ DOMAIN s = 1 .. Len(s)
  BY <1>1, <1>2
<1> HIDE DEF t
<1>4. \A i \in 1 .. (Len(s) - 1) : t[i] = s[i + 1] /\ i + 1 \in 1 .. Len(s) /\ i + 1 # 1
  BY <1>1, <1>2
<1>5. \A i \in 1 .. Len(s) : i # 1 => i - 1 \in 1 .. (Len(s) - 1) /\ (i - 1) + 1 = i
  BY <1>2
<1>6. EachItsOwn(t)
  <2> SUFFICES ASSUME NEW i \in 1 .. (Len(s) - 1), NEW j \in 1 .. (Len(s) - 1),
                      t[i].fd = t[j].fd
               PROVE  i = j
    BY <1>3 DEF EachItsOwn
  <2>1. s[i + 1].fd = s[j + 1].fd /\ i + 1 \in DOMAIN s /\ j + 1 \in DOMAIN s
    BY <1>3, <1>4
  <2>2. i + 1 = j + 1
    BY <2>1 DEF EachItsOwn
  <2>3. QED
    BY <2>2
<1>7. Descriptors(t) = Descriptors(s) \ {s[1].fd}
  <2>1. ASSUME NEW d \in Descriptors(t) PROVE d \in Descriptors(s) \ {s[1].fd}
    <3>1. PICK i \in 1 .. (Len(s) - 1) : d = t[i].fd
      BY <1>3, <2>1 DEF Descriptors
    <3>2. d = s[i + 1].fd /\ i + 1 \in DOMAIN s /\ i + 1 # 1 /\ 1 \in DOMAIN s
      BY <1>2, <1>3, <1>4, <3>1
    <3>3. d # s[1].fd
      BY <3>2 DEF EachItsOwn
    <3>4. QED
      BY <3>2, <3>3 DEF Descriptors
  <2>2. ASSUME NEW d \in Descriptors(s) \ {s[1].fd} PROVE d \in Descriptors(t)
    <3>1. PICK i \in 1 .. Len(s) : d = s[i].fd
      BY <1>3, <2>2 DEF Descriptors
    <3>2. i # 1
      BY <2>2, <3>1
    <3>3. i - 1 \in 1 .. (Len(s) - 1) /\ t[i - 1] = s[i]
      BY <1>4, <1>5, <3>2
    <3>4. QED
      BY <1>3, <3>1, <3>3 DEF Descriptors
  <2>3. QED
    BY <2>1, <2>2
<1>8. QED
  BY <1>1, <1>2, <1>6, <1>7 DEF t

LEMMA PushedTop ==
    ASSUME NEW s \in Seq(Stacked), NEW r \in Stacked, EachItsOwn(s), r.fd \notin Descriptors(s)
    PROVE  /\ <<r>> \o s \in Seq(Stacked) /\ Len(<<r>> \o s) = Len(s) + 1 /\ Len(s) \in Nat
           /\ Descriptors(<<r>> \o s) = Descriptors(s) \cup {r.fd}
           /\ EachItsOwn(<<r>> \o s)
<1> DEFINE t == <<r>> \o s
<1>1. Len(s) \in Nat /\ DOMAIN s = 1 .. Len(s)
  OBVIOUS
<1>2. /\ t \in Seq(Stacked) /\ Len(t) = Len(s) + 1
      /\ \A i \in 1 .. Len(s) + 1 : t[i] = IF i = 1 THEN r ELSE s[i - 1]
  <2>1. <<r>> \in Seq(Stacked) /\ Len(<<r>>) = 1 /\ <<r>>[1] = r
    OBVIOUS
  <2>2. /\ t \in Seq(Stacked) /\ Len(t) = 1 + Len(s)
        /\ \A i \in 1 .. 1 + Len(s) : t[i] = IF i <= 1 THEN <<r>>[i] ELSE s[i - 1]
    BY <2>1, ConcatProperties
  <2> HIDE DEF t
  <2>3. \A i \in 1 .. Len(s) + 1 : t[i] = IF i = 1 THEN r ELSE s[i - 1]
    <3> SUFFICES ASSUME NEW i \in 1 .. Len(s) + 1 PROVE t[i] = IF i = 1 THEN r ELSE s[i - 1]
      OBVIOUS
    <3>1. i \in 1 .. 1 + Len(s) /\ (i <= 1 => i = 1)
      BY <1>1
    <3>2. QED
      BY <2>1, <2>2, <3>1
  <2>4. QED
    BY <1>1, <2>2, <2>3
<1> HIDE DEF t
<1>3. DOMAIN t = 1 .. Len(s) + 1
  BY <1>1, <1>2
<1>4. \A i \in 1 .. Len(s) + 1 : i = 1 \/ (i - 1 \in 1 .. Len(s) /\ t[i] = s[i - 1])
  BY <1>1, <1>2
<1>5. t[1] = r /\ 1 \in 1 .. Len(s) + 1
  BY <1>1, <1>2
<1>6. EachItsOwn(t)
  <2> SUFFICES ASSUME NEW i \in 1 .. Len(s) + 1, NEW j \in 1 .. Len(s) + 1, t[i].fd = t[j].fd
               PROVE  i = j
    BY <1>3 DEF EachItsOwn
  <2>1. \A k \in 1 .. Len(s) + 1 : k = 1 \/ t[k].fd \in Descriptors(s)
    BY <1>1, <1>4 DEF Descriptors
  <2>2. CASE i = 1 \/ j = 1
    BY <1>5, <2>1, <2>2
  <2>3. CASE i # 1 /\ j # 1
    <3>1. /\ i - 1 \in DOMAIN s /\ j - 1 \in DOMAIN s
          /\ s[i - 1].fd = s[j - 1].fd
      BY <1>1, <1>4, <2>3
    <3>2. i - 1 = j - 1
      BY <3>1 DEF EachItsOwn
    <3>3. QED
      BY <3>2
  <2>4. QED
    BY <2>2, <2>3
<1>7. Descriptors(t) = Descriptors(s) \cup {r.fd}
  <2>1. ASSUME NEW d \in Descriptors(t) PROVE d \in Descriptors(s) \cup {r.fd}
    <3>1. PICK i \in 1 .. Len(s) + 1 : d = t[i].fd
      BY <1>3, <2>1 DEF Descriptors
    <3>2. QED
      BY <1>1, <1>4, <1>5, <3>1 DEF Descriptors
  <2>2. ASSUME NEW d \in Descriptors(s) PROVE d \in Descriptors(t)
    <3>1. PICK i \in 1 .. Len(s) : d = s[i].fd
      BY <1>1, <2>2 DEF Descriptors
    <3>2. i + 1 \in 1 .. Len(s) + 1 /\ i + 1 # 1 /\ (i + 1) - 1 = i
      BY <1>1
    <3>3. t[i + 1] = s[i]
      BY <1>2, <3>2
    <3>4. QED
      BY <1>3, <3>1, <3>2, <3>3 DEF Descriptors
  <2>3. r.fd \in Descriptors(t)
    BY <1>3, <1>5 DEF Descriptors
  <2>4. QED
    BY <2>1, <2>2, <2>3
<1>8. QED
  BY <1>1, <1>2, <1>6, <1>7 DEF t

LEMMA EmptyStack == Descriptors(<<>>) = {} /\ EachItsOwn(<<>>)
  BY DEF Descriptors, EachItsOwn

(* A descriptor for every file.                                             *)
LEMMA DescriptorsCounted ==
    ASSUME NEW s \in Seq(Stacked), EachItsOwn(s)
    PROVE  Cardinality(Descriptors(s)) = Len(s)
<1> DEFINE f == [i \in 1 .. Len(s) |-> s[i].fd]
<1>1. DOMAIN s = 1 .. Len(s) /\ Len(s) \in Nat
  OBVIOUS
<1>2. f \in [1 .. Len(s) -> Descriptors(s)]
  BY <1>1 DEF Descriptors
<1>3. \A i, j \in 1 .. Len(s) : f[i] = f[j] => i = j
  BY <1>1 DEF EachItsOwn
<1>4. \A d \in Descriptors(s) : \E i \in 1 .. Len(s) : f[i] = d
  BY <1>1 DEF Descriptors
<1> HIDE DEF f
<1>5. f \in Bijection(1 .. Len(s), Descriptors(s))
  BY <1>2, <1>3, <1>4 DEF Bijection, Injection, Surjection, IsInjective
<1>6. ExistsBijection(1 .. Len(s), Descriptors(s))
  BY <1>5 DEF ExistsBijection
<1>7. QED
  BY <1>1, <1>6, FS_CountingElements

-----------------------------------------------------------------------------
(* The accounts of the lists.                                               *)

Blocks(a, b, c) == a + b + c
Bytes(a, b, c) == CmdSize * a + ParamSize * b + RioSize * c

LEMMA InitBooks ==
    ASSUME NEW a \in Nat, NEW b \in Nat
    PROVE  Books(malloc_or_fail(MallocEach(MallocEach(NothingAllocated, a, CmdSize),
                                           b, ParamSize), RioSize),
                 Blocks(a, b, 1), Bytes(a, b, 1))
<1> DEFINE z == NothingAllocated
           x == MallocEach(z, a, CmdSize)
           y == MallocEach(x, b, ParamSize)
<1>1. z \in Account
  BY DEF NothingAllocated, Account
<1>2. Books(z, 0, 0)
  BY <1>1 DEF NothingAllocated, Books, Outstanding
<1> HIDE DEF z
<1>3. x = Mallocs(z, a, 32)
  BY <1>1, MallocEachIs DEF CmdSize
<1>4. Books(x, 0 + a, 0 + a * 32)
  <2> HIDE DEF x
  <2>1. QED
    BY <1>2, <1>3, MallocsBooks
<1> HIDE DEF x
<1>5. y = Mallocs(x, b, 40)
  BY <1>4, MallocEachIs DEF ParamSize, Books
<1>6. Books(y, (0 + a) + b, (0 + a * 32) + b * 40)
  <2> DEFINE k == 0 + a
             l == 0 + a * 32
  <2>1. k \in Int /\ l \in Int
    OBVIOUS
  <2>2. Books(x, k, l)
    BY <1>4
  <2> HIDE DEF y, k, l
  <2>3. Books(y, k + b, l + b * 40)
    BY <1>5, <2>1, <2>2, MallocsBooks
  <2>4. QED
    BY <2>3 DEF k, l
<1> HIDE DEF y
<1>7. Books(malloc_or_fail(y, 8224), ((0 + a) + b) + 1, ((0 + a * 32) + b * 40) + 8224)
  <2> DEFINE k == (0 + a) + b
             l == (0 + a * 32) + b * 40
  <2>1. k \in Int /\ l \in Int
    OBVIOUS
  <2>2. Books(y, k, l)
    BY <1>6
  <2> HIDE DEF k, l
  <2>3. Books(malloc_or_fail(y, 8224), k + 1, l + 8224)
    BY <2>1, <2>2, MallocBooks
  <2>4. QED
    BY <2>3 DEF k, l
<1>8. /\ ((0 + a) + b) + 1 = Blocks(a, b, 1)
      /\ ((0 + a * 32) + b * 40) + 8224 = Bytes(a, b, 1)
  BY DEF Blocks, Bytes, CmdSize, ParamSize, RioSize
<1>9. QED
  BY <1>7, <1>8 DEF x, y, z, RioSize

LEMMA FreeListsBooks ==
    ASSUME NEW a \in Nat, NEW b \in Nat, NEW c \in Nat, NEW m, NEW k \in Int, NEW l \in Int,
           Books(m, k + Blocks(a, b, c), l + Bytes(a, b, c))
    PROVE  Books(FreeEach(FreeEach(FreeEach(m, a, CmdSize), b, ParamSize), c, RioSize), k, l)
<1> DEFINE x == FreeEach(m, a, CmdSize)
           y == FreeEach(x, b, ParamSize)
           z == FreeEach(y, c, RioSize)
           k0 == k + Blocks(a, b, c)
           l0 == l + Bytes(a, b, c)
           k1 == k0 - a
           l1 == l0 - a * 32
           k2 == k1 - b
           l2 == l1 - b * 40
           k3 == k2 - c
           l3 == l2 - c * 8224
<1>1. /\ k0 \in Int /\ l0 \in Int /\ k1 \in Int /\ l1 \in Int
      /\ k2 \in Int /\ l2 \in Int /\ k3 = k /\ l3 = l
  BY DEF Blocks, Bytes, CmdSize, ParamSize, RioSize
<1>2. Books(m, k0, l0)
  OBVIOUS
<1>3. x = Frees(m, a, 32)
  BY <1>2, FreeEachIs DEF CmdSize, Books
<1>4. Books(x, k1, l1)
  <2> HIDE DEF x, k0, l0
  <2>1. QED
    BY <1>1, <1>2, <1>3, FreesBooks
<1> HIDE DEF x
<1>5. y = Frees(x, b, 40)
  BY <1>4, FreeEachIs DEF ParamSize, Books
<1>6. Books(y, k2, l2)
  <2> HIDE DEF y, k1, l1
  <2>1. QED
    BY <1>1, <1>4, <1>5, FreesBooks
<1> HIDE DEF y
<1>7. z = Frees(y, c, 8224)
  BY <1>6, FreeEachIs DEF RioSize, Books
<1>8. Books(z, k3, l3)
  <2> HIDE DEF z, k2, l2
  <2>1. QED
    BY <1>1, <1>6, <1>7, FreesBooks
<1>9. QED
  <2> HIDE DEF k3, l3
  <2>1. QED
    BY <1>1, <1>8 DEF x, y, z

-----------------------------------------------------------------------------
(* The invariant holds at the start, and every step keeps it.               *)

LEMMA ListsFinite ==
    ASSUME ConsoleInv
    PROVE  /\ Cardinality(cmd_list) \in Nat /\ Cardinality(param_list) \in Nat
           /\ Len(buf_stack) \in Nat
  BY FS_CardinalityType DEF ConsoleInv, ConsoleTypeOK

LEMMA InitInv ==
    ASSUME ConsoleAssumption, ConsoleInit
    PROVE  ConsoleInv
<1>1. IsFiniteSet(cmd_list) /\ IsFiniteSet(param_list) /\ cmd_list # {}
  <2>1. IsFiniteSet(Builtin) /\ IsFiniteSet({"verbose", "error", "echo"})
    <3>1. \A T, x : IsFiniteSet(T) => IsFiniteSet(T \cup {x})
      BY FS_AddElement
    <3>2. \A x, y, z : IsFiniteSet({x, y, z})
      <4> TAKE x, y, z
      <4>1. {x} = {} \cup {x} /\ {x, y} = {x} \cup {y} /\ {x, y, z} = {x, y} \cup {z}
        OBVIOUS
      <4>2. IsFiniteSet({} \cup {x})
        BY <3>1, FS_EmptySet, Zenon
      <4>3. IsFiniteSet({x})
        BY <4>1, <4>2, Zenon
      <4>4. IsFiniteSet({x} \cup {y})
        BY <3>1, <4>3, Zenon
      <4>5. IsFiniteSet({x, y})
        BY <4>1, <4>4, Zenon
      <4>6. IsFiniteSet({x, y} \cup {z})
        BY <3>1, <4>5, Zenon
      <4>7. QED
        BY <4>1, <4>6, Zenon
    <3>3. Builtin = (({"help", "option", "quit"} \cup {"source", "log", "time"}) \cup {"#"})
      BY DEF Builtin
    <3>4. IsFiniteSet({"help", "option", "quit"} \cup {"source", "log", "time"})
      BY <3>2, FS_Union
    <3>5. IsFiniteSet(Builtin)
      BY <3>1, <3>3, <3>4
    <3>6. QED
      BY <3>2, <3>5
  <2>2. IsFiniteSet(Op)
    BY DEF ConsoleAssumption
  <2>3. IsFiniteSet(Builtin \cup Op)
    BY <2>1, <2>2, FS_Union
  <2>4. QED
    BY <2>1, <2>3 DEF ConsoleInit, Builtin
<1>2. PICK f \in File : buf_stack = <<Reader(f, 0)>>
  BY DEF ConsoleInit
<1>3. /\ buf_stack \in Seq(Stacked) /\ Len(buf_stack) = 1 /\ buf_stack # <<>>
      /\ DOMAIN buf_stack = {1} /\ buf_stack[1].fd = 0
  <2>1. Reader(f, 0) \in Stacked
    BY OpenedTop
  <2>2. Reader(f, 0).fd = 0
    BY DEF Reader
  <2>3. QED
    BY <1>2, <2>1, <2>2
<1>4. ConsoleTypeOK
  BY <1>1, <1>3, EmptySeq DEF ConsoleInit, ConsoleTypeOK
<1>5. ErrorsCounted
  BY DEF ConsoleInit, ErrorsCounted, ConsoleAssumption
<1>6. FilesOpen
  BY <1>3 DEF ConsoleInit, FilesOpen, Descriptors, EachItsOwn
<1>7. ListsAllocated
  <2> DEFINE a == Cardinality(cmd_list)
             b == Cardinality(param_list)
  <2>1. a \in Nat /\ b \in Nat
    BY <1>1, FS_CardinalityType
  <2>2. mem = malloc_or_fail(MallocEach(MallocEach(NothingAllocated, a, CmdSize),
                                        b, ParamSize), RioSize)
    BY DEF ConsoleInit
  <2> HIDE DEF a, b
  <2>3. Books(mem, Blocks(a, b, 1), Bytes(a, b, 1))
    BY <2>1, <2>2, InitBooks
  <2>4. QED
    BY <1>1, <1>3, <2>3 DEF ListsAllocated, a, b, Blocks, Bytes
<1>8. QED
  BY <1>4, <1>5, <1>6, <1>7 DEF ConsoleInv

(* What readline takes from the buffer.                                     *)
LEMMA TakenEnds ==
    ASSUME NEW C, NEW b \in Seq(C), b # <<>>, NEW T
    PROVE  \E n \in 1 .. Len(b) :
              (n \in T \/ n = Len(b)) /\ \A j \in 1 .. (n - 1) : j \notin T
<1> DEFINE Ends == {i \in 1 .. Len(b) : i \in T \/ i = Len(b)}
<1>1. Len(b) \in Nat \ {0}
  BY EmptySeq
<1>2. Ends \in SUBSET Nat /\ Len(b) \in Ends
  <2>1. \A i \in Ends : i \in Nat
    OBVIOUS
  <2>2. QED
    BY <1>1, <2>1
<1>3. PICK n \in Ends : \A i \in Ends : n <= i
  BY <1>2, LeastExists
<1>4. \A j \in 1 .. (n - 1) : j \notin T
  <2> SUFFICES ASSUME NEW j \in 1 .. (n - 1), j \in T PROVE FALSE
    OBVIOUS
  <2>1. j \in 1 .. Len(b) /\ ~(n <= j)
    BY <1>1, <1>3
  <2>2. QED
    BY <1>3, <2>1
<1>5. QED
  BY <1>3, <1>4

LEMMA StackRead ==
    ASSUME ConsoleInv, NEW t \in Seq(Stacked), buf_stack' = t, t # <<>>,
           Len(t) = Len(buf_stack), Descriptors(t) = Descriptors(buf_stack), EachItsOwn(t),
           linebuf' \in Seq(Character), at' \in {"readline", "interpret"},
           UNCHANGED <<tableVars, open, logVars, mem, block_flag, quit_flag, err_cnt, historyVars>>
    PROVE  ConsoleInv'
<1>1. buf_stack # <<>>
  <2>1. Len(t) # 0
    BY EmptySeq
  <2>2. QED
    BY <2>1
<1> USE DEF tableVars, listVars, logVars, historyVars
<1>2. ConsoleTypeOK'
  BY DEF ConsoleInv, ConsoleTypeOK
<1>3. ErrorsCounted'
  BY DEF ConsoleInv, ErrorsCounted
<1>4. FilesOpen'
  BY DEF ConsoleInv, FilesOpen
<1>5. ListsAllocated'
  BY <1>1 DEF ConsoleInv, ListsAllocated
<1>6. QED
  BY <1>2, <1>3, <1>4, <1>5 DEF ConsoleInv

LEMMA TopOfStack ==
    ASSUME ConsoleInv, at = "readline"
    PROVE  /\ buf_stack \in Seq(Stacked) /\ buf_stack # <<>> /\ EachItsOwn(buf_stack)
           /\ Head(buf_stack) = buf_stack[1] /\ buf_stack[1] \in Stacked
           /\ 1 \in DOMAIN buf_stack
<1>1. buf_stack \in Seq(Stacked) /\ buf_stack # <<>> /\ EachItsOwn(buf_stack)
  BY DEF ConsoleInv, ConsoleTypeOK, FilesOpen
<1>2. Len(buf_stack) \in Nat \ {0}
  BY <1>1, EmptySeq
<1>3. buf_stack[1] \in Stacked
  BY <1>1, <1>2, ElementOfSeq
<1>4. QED
  BY <1>1, <1>2, <1>3

LEMMA TakeCharsInv ==
    ASSUME ConsoleAssumption, ConsoleInv, TakeChars
    PROVE  ConsoleInv'
<1> DEFINE top == Head(buf_stack)
           room == LineLimit - Len(linebuf)
           ends == {i \in DOMAIN top.buf : top.buf[i] = NL}
           n == CHOOSE i \in 1 .. Len(top.buf) :
                  /\ i \in ends \/ i = room \/ i = Len(top.buf)
                  /\ \A j \in 1 .. (i - 1) : j \notin ends /\ j # room
           b == SubSeq(top.buf, n + 1, Len(top.buf))
           l == IF n \in ends THEN n - 1 ELSE n
           t == [buf_stack EXCEPT ![1] =
                   [fd |-> buf_stack[1].fd, unread |-> buf_stack[1].unread, buf |-> b]]
<1>1. /\ at = "readline" /\ top.buf # <<>>
      /\ linebuf' = linebuf \o SubSeq(top.buf, 1, l)
      /\ buf_stack' = [buf_stack EXCEPT ![1].buf = SubSeq(@, n + 1, Len(@))]
      /\ at' \in {"readline", "interpret"}
      /\ UNCHANGED <<tableVars, open, logVars, mem, block_flag, quit_flag, err_cnt, historyVars>>
  BY DEF TakeChars
<1>2. /\ buf_stack \in Seq(Stacked) /\ buf_stack # <<>> /\ EachItsOwn(buf_stack)
      /\ top = buf_stack[1] /\ top \in Stacked /\ 1 \in DOMAIN buf_stack
  BY <1>1, TopOfStack
<1>3. top.buf \in Seq(Character) /\ top.unread \in Seq(Character)
  BY <1>2 DEF Stacked
<1>4. n \in 1 .. Len(top.buf)
  <2> DEFINE B == top.buf
  <2>1. B \in Seq(Character) /\ B # <<>>
    BY <1>1, <1>3
  <2> HIDE DEF B, ends, room
  <2>2. \E i \in 1 .. Len(B) : /\ i \in ends \cup {room} \/ i = Len(B)
                              /\ \A j \in 1 .. (i - 1) : j \notin ends \cup {room}
    BY <2>1, TakenEnds
  <2> USE DEF B
  <2> HIDE DEF top
  <2>3. \E i \in 1 .. Len(top.buf) : /\ i \in ends \/ i = room \/ i = Len(top.buf)
                                    /\ \A j \in 1 .. (i - 1) : j \notin ends /\ j # room
    BY <2>2
  <2>4. QED
    BY <2>3
<1> HIDE DEF n, ends, room
<1>5. l \in 0 .. Len(top.buf) /\ Len(top.buf) \in Nat
  BY <1>3, <1>4
<1>6. \A i \in 1 .. Len(top.buf) : top.buf[i] \in Character
  BY <1>3
<1> HIDE DEF l
<1>7. SubSeq(top.buf, 1, l) \in Seq(Character) /\ b \in Seq(Character)
  <2> HIDE DEF top
  <2>1. \A i \in 1 .. l : top.buf[i] \in Character
    BY <1>5, <1>6
  <2>2. \A i \in n + 1 .. Len(top.buf) : top.buf[i] \in Character
    BY <1>4, <1>6
  <2>3. SubSeq(top.buf, 1, l) \in Seq(Character)
    BY <1>5, <2>1, SubSeqProperties
  <2>4. n + 1 \in Int /\ Len(top.buf) \in Int
    BY <1>4, <1>5
  <2>5. b \in Seq(Character)
    BY <2>2, <2>4, SubSeqProperties
  <2>6. QED
    BY <2>3, <2>5
<1>8. linebuf' \in Seq(Character)
  BY <1>1, <1>7, ConcatProperties DEF ConsoleInv, ConsoleTypeOK
<1>9. buf_stack' = t
  <2> HIDE DEF n
  <2>1. buf_stack' = [buf_stack EXCEPT ![1] = [buf_stack[1] EXCEPT !.buf = b]]
    BY <1>1, <1>2
  <2>2. [buf_stack[1] EXCEPT !.buf = b]
          = [fd |-> buf_stack[1].fd, unread |-> buf_stack[1].unread, buf |-> b]
    <3>1. PICK x, y, z : buf_stack[1] = [fd |-> x, unread |-> y, buf |-> z]
      BY <1>2 DEF Stacked
    <3> HIDE DEF b
    <3>2. QED
      BY <3>1
  <2>3. QED
    BY <2>1, <2>2
<1> HIDE DEF b
<1>10. /\ t \in Seq(Stacked) /\ Len(t) = Len(buf_stack) /\ t # <<>>
       /\ Descriptors(t) = Descriptors(buf_stack) /\ EachItsOwn(t)
  BY <1>2, <1>3, <1>7, ReadTop
<1> HIDE DEF t
<1>11. QED
  BY <1>1, <1>8, <1>9, <1>10, StackRead

LEMMA RefillInv ==
    ASSUME ConsoleAssumption, ConsoleInv, Refill
    PROVE  ConsoleInv'
<1> DEFINE top == Head(buf_stack)
<1>1. PICK n \in 1 .. Buffer :
          /\ n <= Len(top.unread)
          /\ buf_stack' = [buf_stack EXCEPT ![1] =
                [fd |-> top.fd,
                 unread |-> SubSeq(top.unread, n + 1, Len(top.unread)),
                 buf |-> SubSeq(top.unread, 1, n)]]
  BY DEF Refill
<1>2. /\ at = "readline"
      /\ UNCHANGED <<tableVars, open, logVars, mem, linebuf, block_flag, quit_flag,
                     err_cnt, at, historyVars>>
  BY DEF Refill
<1>3. /\ buf_stack \in Seq(Stacked) /\ buf_stack # <<>> /\ EachItsOwn(buf_stack)
      /\ top = buf_stack[1] /\ top \in Stacked /\ 1 \in DOMAIN buf_stack
  BY <1>2, TopOfStack
<1> DEFINE b == SubSeq(top.unread, 1, n)
           u == SubSeq(top.unread, n + 1, Len(top.unread))
           t == [buf_stack EXCEPT ![1] = [fd |-> buf_stack[1].fd, unread |-> u, buf |-> b]]
<1>4. top.unread \in Seq(Character) /\ Len(top.unread) \in Nat
  BY <1>3 DEF Stacked
<1>5. b \in Seq(Character) /\ u \in Seq(Character)
  <2> HIDE DEF top
  <2>1. \A i \in 1 .. Len(top.unread) : top.unread[i] \in Character
    BY <1>4
  <2>2. Buffer \in Nat
    BY DEF ConsoleAssumption
  <2>3. n \in Int /\ n + 1 \in Int /\ Len(top.unread) \in Int
    BY <1>4, <2>2
  <2>4. \A i \in 1 .. n : top.unread[i] \in Character
    BY <1>1, <1>4, <2>1, <2>3
  <2>5. \A i \in n + 1 .. Len(top.unread) : top.unread[i] \in Character
    BY <1>1, <1>4, <2>1, <2>2
  <2>6. QED
    BY <2>3, <2>4, <2>5, SubSeqProperties
<1>6. buf_stack' = t
  BY <1>1, <1>3
<1> HIDE DEF b, u
<1>7. /\ t \in Seq(Stacked) /\ Len(t) = Len(buf_stack) /\ t # <<>>
      /\ Descriptors(t) = Descriptors(buf_stack) /\ EachItsOwn(t)
  BY <1>3, <1>5, ReadTop
<1> HIDE DEF t
<1>8. linebuf' \in Seq(Character) /\ at' \in {"readline", "interpret"}
  BY <1>2 DEF ConsoleInv, ConsoleTypeOK
<1>9. UNCHANGED <<tableVars, open, logVars, mem, block_flag, quit_flag, err_cnt, historyVars>>
  BY <1>2
<1>10. QED
  BY <1>6, <1>7, <1>8, <1>9, StackRead

LEMMA EndOfFileInv ==
    ASSUME ConsoleAssumption, ConsoleInv, EndOfFile
    PROVE  ConsoleInv'
<1> DEFINE t == Tail(buf_stack)
           a == Cardinality(cmd_list)
           b == Cardinality(param_list)
           c == Len(buf_stack)
<1>1. /\ at = "readline" /\ at' \in {"select", "interpret"}
      /\ buf_stack' = t /\ open' = open \ {Head(buf_stack).fd}
      /\ mem' = free_block(mem, RioSize)
      /\ UNCHANGED <<tableVars, logVars, linebuf, block_flag, quit_flag, err_cnt, historyVars>>
  BY DEF EndOfFile, pop_file
<1>2. buf_stack \in Seq(Stacked) /\ buf_stack # <<>> /\ EachItsOwn(buf_stack)
  BY <1>1, TopOfStack
<1>3. /\ t \in Seq(Stacked) /\ Len(t) = c - 1 /\ c \in Nat
      /\ Descriptors(t) = Descriptors(buf_stack) \ {Head(buf_stack).fd}
      /\ EachItsOwn(t)
  BY <1>2, PoppedTop
<1>4. a \in Nat /\ b \in Nat
  BY ListsFinite
<1> HIDE DEF t
<1>5. Books(mem', (a + b + c) - 1, (CmdSize * a + ParamSize * b + RioSize * c) - RioSize)
  <2> DEFINE k == a + b + c
             l == CmdSize * a + ParamSize * b + RioSize * c
  <2>1. Books(mem, k, l)
    BY DEF ConsoleInv, ListsAllocated
  <2>2. k \in Int /\ l \in Int /\ RioSize \in Nat
    BY <1>3, <1>4 DEF CmdSize, ParamSize, RioSize
  <2> HIDE DEF k, l
  <2>3. Books(free_block(mem, RioSize), k - 1, l - RioSize)
    BY <2>1, <2>2, FreeBooks
  <2>4. QED
    BY <1>1, <2>3 DEF k, l
<1>6. ListsAllocated'
  <2> USE DEF tableVars, listVars
  <2>1. /\ Cardinality(cmd_list') = a /\ Cardinality(param_list') = b /\ Len(buf_stack') = c - 1
    BY <1>1, <1>3
  <2> HIDE DEF a, b, c
  <2>2. /\ a + b + (c - 1) = (a + b + c) - 1
        /\ CmdSize * a + ParamSize * b + RioSize * (c - 1)
             = (CmdSize * a + ParamSize * b + RioSize * c) - RioSize
    BY <1>3, <1>4 DEF CmdSize, ParamSize, RioSize
  <2>3. cmd_list # {}
    BY <1>2 DEF ConsoleInv, ListsAllocated
  <2>4. cmd_list' # {}
    BY <1>1, <2>3
  <2>5. QED
    BY <1>5, <2>1, <2>2, <2>4 DEF ListsAllocated
<1> USE DEF tableVars, listVars, logVars, historyVars
<1>7. ConsoleTypeOK'
  BY <1>1, <1>3 DEF ConsoleInv, ConsoleTypeOK
<1>8. ErrorsCounted'
  BY <1>1 DEF ConsoleInv, ErrorsCounted
<1>9. FilesOpen'
  <2>1. Head(buf_stack).fd \in Descriptors(buf_stack)
    BY <1>1, TopOfStack DEF Descriptors
  <2>2. /\ open' = open \ {Head(buf_stack).fd} /\ logs' = logs
        /\ open = Descriptors(buf_stack) \cup logs /\ Descriptors(buf_stack) \cap logs = {}
    BY <1>1 DEF ConsoleInv, FilesOpen
  <2>3. open' = Descriptors(t) \cup logs' /\ Descriptors(t) \cap logs' = {}
    BY <1>3, <2>1, <2>2
  <2>4. QED
    BY <1>1, <1>3, <2>3 DEF FilesOpen
<1>10. QED
  BY <1>6, <1>7, <1>8, <1>9 DEF ConsoleInv

(* The steps that touch neither the lists nor the errors.                   *)
LEMMA NothingElseInv ==
    ASSUME ConsoleInv,
           UNCHANGED <<tableVars, inputVars, mem, err_cnt, historyVars>>,
           linebuf' \in Seq(Character), block_flag' \in BOOLEAN,
           quit_flag' \in BOOLEAN, quit_flag => quit_flag',
           at' \in {"select", "readline", "interpret", "done", "exit", "undefined"},
           at' = "readline" => buf_stack # <<>>
    PROVE  ConsoleInv'
<1> USE DEF tableVars, listVars, inputVars, logVars, historyVars
<1>1. ConsoleTypeOK'
  BY DEF ConsoleInv, ConsoleTypeOK
<1>2. ErrorsCounted'
  BY DEF ConsoleInv, ErrorsCounted
<1>3. FilesOpen'
  BY DEF ConsoleInv, FilesOpen
<1>4. ListsAllocated'
  BY DEF ConsoleInv, ListsAllocated
<1>5. QED
  BY <1>1, <1>2, <1>3, <1>4 DEF ConsoleInv

LEMMA SimpleInv ==
    ASSUME ConsoleInv,
           cmd_select \/ SkipLine \/ MallocFails \/ EventClosesLog \/ unblock_console
    PROVE  ConsoleInv'
<1>1. CASE cmd_select
  <2>1. buf_stack # <<>>
    BY <1>1 DEF cmd_select, read_ready, cmd_done
  <2>2. linebuf' \in Seq(Character)
    BY <1>1, EmptySeq DEF cmd_select
  <2>3. QED
    BY <1>1, <2>1, <2>2, NothingElseInv DEF cmd_select, ConsoleInv, ConsoleTypeOK
<1>2. CASE SkipLine \/ MallocFails \/ EventClosesLog
  BY <1>2, NothingElseInv DEF SkipLine, MallocFails, EventClosesLog, ConsoleInv, ConsoleTypeOK
<1>3. CASE unblock_console
  BY <1>3, NothingElseInv DEF unblock_console, ConsoleInv, ConsoleTypeOK, FilesOpen
<1>4. QED
  BY <1>1, <1>2, <1>3

LEMMA finish_cmdInv ==
    ASSUME ConsoleInv, finish_cmd
    PROVE  ConsoleInv'
<1>1. CASE quit_flag
  <2>1. /\ UNCHANGED <<tableVars, inputVars, mem, err_cnt, historyVars, linebuf, block_flag>>
        /\ quit_flag' = TRUE /\ at' = "done"
    BY <1>1 DEF finish_cmd, tableVars
  <2>2. QED
    BY <2>1, NothingElseInv DEF ConsoleInv, ConsoleTypeOK
<1>2. CASE ~quit_flag
  <2> DEFINE a == Cardinality(cmd_list)
             b == Cardinality(param_list)
             c == Len(buf_stack)
  <2>1. /\ Release /\ mem' = FreeLists(mem) /\ quit_flag' = TRUE /\ at' = "done"
        /\ UNCHANGED <<param, linebuf, block_flag, err_cnt, historyVars>>
    BY <1>2 DEF finish_cmd
  <2>2. a \in Nat /\ b \in Nat /\ c \in Nat
    BY ListsFinite
  <2>3. Books(mem, 0 + Blocks(a, b, c), 0 + Bytes(a, b, c))
    <3>1. Books(mem, Blocks(a, b, c), Bytes(a, b, c))
      BY DEF ConsoleInv, ListsAllocated, Blocks, Bytes
    <3>2. /\ 0 + Blocks(a, b, c) = Blocks(a, b, c)
          /\ 0 + Bytes(a, b, c) = Bytes(a, b, c)
      BY <2>2 DEF Blocks, Bytes, CmdSize, ParamSize, RioSize
    <3>3. QED
      BY <3>1, <3>2
  <2>4. Books(mem', 0, 0)
    <3>1. mem' = FreeEach(FreeEach(FreeEach(mem, a, CmdSize), b, ParamSize), c, RioSize)
      BY <2>1 DEF FreeLists
    <3> HIDE DEF a, b, c
    <3>2. QED
      BY <2>2, <2>3, <3>1, FreeListsBooks
  <2>5. QED
    <3>1. /\ cmd_list' = {} /\ param_list' = {} /\ buf_stack' = <<>>
      /\ open' = logs /\ logs' = logs
      BY <2>1 DEF Release, Reading, logVars, ConsoleInv, FilesOpen, Descriptors
    <3> USE DEF historyVars
    <3>2. ConsoleTypeOK'
      BY <2>1, <3>1, FS_EmptySet, EmptySeq DEF ConsoleInv, ConsoleTypeOK
    <3>3. ErrorsCounted'
      BY <2>1 DEF ConsoleInv, ErrorsCounted
    <3>4. FilesOpen'
      BY <2>1, <3>1, EmptyStack DEF FilesOpen
    <3>5. ListsAllocated'
      <4>1. Cardinality(cmd_list') = 0 /\ Cardinality(param_list') = 0 /\ Len(buf_stack') = 0
        BY <3>1, FS_EmptySet
      <4>2. 0 + 0 + 0 = 0 /\ CmdSize * 0 + ParamSize * 0 + RioSize * 0 = 0
        BY DEF CmdSize, ParamSize, RioSize
      <4>3. QED
        BY <2>1, <2>4, <3>1, <4>1, <4>2 DEF ListsAllocated
    <3>6. QED
      BY <3>2, <3>3, <3>4, <3>5 DEF ConsoleInv
<1>3. QED
  BY <1>1, <1>2

LEMMA InterpretErrors ==
    ASSUME ConsoleInv, ConsoleAssumption, NEW ok \in BOOLEAN, NEW np, NEW m,
           InterpretWith(ok, np, m), "error" \in DOMAIN np,
           ~limit_set' => ~limit_set /\ np.error = ErrLimit
    PROVE  /\ ErrorsCounted' /\ err_cnt' \in Nat /\ failed' \in Nat
           /\ quit_flag' \in BOOLEAN /\ ~quit_flag
           /\ at' = "select" /\ linebuf' = linebuf /\ linebuf \in Seq(Character)
           /\ mem' = Forgotten(m, linebuf)
<1> DEFINE argv == parse_args(linebuf)
           t == Times(argv)
           n == IF ok THEN 0 ELSE t + 1
<1>1. linebuf \in Seq(Character) /\ err_cnt \in Nat /\ failed \in Nat /\ quit_flag \in BOOLEAN
  BY DEF ConsoleInv, ConsoleTypeOK
<1>2. t \in Nat
  BY <1>1, WordsAreThere, TimesIsCount
<1>3. /\ err_cnt' = err_cnt + n
      /\ quit_flag' = (quit_flag \/ (n > 0 /\ err_cnt' >= np.error))
      /\ ~quit_flag /\ param' = np /\ at' = "select" /\ linebuf' = linebuf
      /\ failed' = failed + (IF ok THEN 0 ELSE 1)
      /\ mem' = Forgotten(m, linebuf)
  BY DEF InterpretWith, record_error
<1> HIDE DEF t
<1>4. ErrLimit \in Nat
  BY DEF ConsoleAssumption
<1>5. /\ failed <= err_cnt /\ (failed = 0 => err_cnt = 0)
      /\ ~limit_set => failed <= ErrLimit /\ err_cnt < ErrLimit
  BY <1>3 DEF ConsoleInv, ErrorsCounted
<1>6. quit_flag' \in BOOLEAN
  BY <1>1, <1>3
<1>7. ErrorsCounted'
  <2>1. failed' <= err_cnt' /\ (failed' = 0 => err_cnt' = 0)
    BY <1>1, <1>2, <1>3, <1>5
  <2>2. "error" \in DOMAIN param' /\ (~limit_set' => param'.error = ErrLimit)
    BY <1>3
  <2>3. ~limit_set' => failed' <= ErrLimit
    BY <1>1, <1>3, <1>4, <1>5
  <2>4. ~limit_set' /\ ~quit_flag' => err_cnt' < ErrLimit
    <3> SUFFICES ASSUME ~limit_set', ~quit_flag' PROVE err_cnt' < ErrLimit
      OBVIOUS
    <3>1. np.error = ErrLimit
      OBVIOUS
    <3>2. ~(n > 0 /\ err_cnt' >= np.error)
      <4> HIDE DEF n
      <4>1. QED
        BY <1>3
    <3>3. n = 0 \/ ~(err_cnt' >= ErrLimit)
      <4>1. n \in Nat
        BY <1>2
      <4> HIDE DEF n
      <4>2. QED
        BY <3>1, <3>2, <4>1
    <3>4. err_cnt' \in Nat
      BY <1>1, <1>2, <1>3
    <3>5. QED
      BY <1>1, <1>3, <1>4, <1>5, <3>3, <3>4
  <2>5. QED
    BY <2>1, <2>2, <2>3, <2>4 DEF ErrorsCounted
<1>8. err_cnt' \in Nat /\ failed' \in Nat
  BY <1>1, <1>2, <1>3
<1>9. QED
  BY <1>1, <1>3, <1>6, <1>7, <1>8

LEMMA LineBooks ==
    ASSUME NEW C, NEW line \in Seq(C), NEW m, NEW k \in Int, NEW b \in Int, Books(m, k, b)
    PROVE  Books(Forgotten(Parsed(m, line), line), k, b)
<1> DEFINE p == Parsed(m, line)
<1>1. Books(p, k + 1 + Words(line), b + 10 * Words(line))
  BY ParsedBooks
<1> HIDE DEF p
<1>2. Books(Forgotten(p, line), k, b)
  BY <1>1, ForgottenBooks
<1>3. QED
  BY <1>2 DEF p

(* log may open a descriptor.                                              *)
LogsKept ==
    \/ UNCHANGED <<open, logs>>
    \/ \E fd \in Fd \ open : open' = open \cup {fd} /\ logs' = logs \cup {fd}

LEMMA InterpretInv ==
    ASSUME ConsoleInv, ConsoleAssumption, NEW ok \in BOOLEAN, NEW np,
           Interpret(ok, np), "error" \in DOMAIN np,
           ~limit_set' => ~limit_set /\ np.error = ErrLimit,
           UNCHANGED <<listVars, buf_stack>>, LogsKept, block_flag' \in BOOLEAN
    PROVE  ConsoleInv'
<1> DEFINE m == Parsed(mem, linebuf)
<1>1. InterpretWith(ok, np, m)
  BY DEF Interpret
<1> HIDE DEF m
<1>2. /\ ErrorsCounted' /\ err_cnt' \in Nat /\ failed' \in Nat
      /\ quit_flag' \in BOOLEAN /\ ~quit_flag
      /\ at' = "select" /\ linebuf' = linebuf /\ linebuf \in Seq(Character)
      /\ mem' = Forgotten(m, linebuf)
  BY <1>1, InterpretErrors
<1> USE DEF listVars
<1>3. ConsoleTypeOK'
  BY <1>2 DEF ConsoleInv, ConsoleTypeOK
<1>4. FilesOpen'
  <2>1. Descriptors(buf_stack') = Descriptors(buf_stack) /\ EachItsOwn(buf_stack')
    BY DEF ConsoleInv, FilesOpen
  <2>2. QED
    BY <1>2, <2>1 DEF ConsoleInv, FilesOpen, LogsKept
<1>5. ListsAllocated'
  <2> DEFINE k == Cardinality(cmd_list) + Cardinality(param_list) + Len(buf_stack)
             l == CmdSize * Cardinality(cmd_list) + ParamSize * Cardinality(param_list)
                  + RioSize * Len(buf_stack)
  <2>1. Books(mem, k, l)
    BY DEF ConsoleInv, ListsAllocated
  <2>2. k \in Int /\ l \in Int
    BY ListsFinite DEF CmdSize, ParamSize, RioSize
  <2> HIDE DEF k, l
  <2>3. Books(mem', k, l)
    BY <1>2, <2>1, <2>2, LineBooks DEF m
  <2>4. cmd_list # {}
    BY <1>2 DEF ConsoleInv, ListsAllocated
  <2>5. QED
    BY <2>3, <2>4 DEF ListsAllocated, k, l
<1>6. QED
  BY <1>2, <1>3, <1>4, <1>5 DEF ConsoleInv

LEMMA SameParamsInv ==
    ASSUME ConsoleInv, ConsoleAssumption, Succeeds \/ Fails,
           UNCHANGED <<listVars, buf_stack, limit_set>>, LogsKept, block_flag' \in BOOLEAN
    PROVE  ConsoleInv'
<1>1. /\ "error" \in DOMAIN param
      /\ ~limit_set' => ~limit_set /\ param.error = ErrLimit
  BY DEF ConsoleInv, ErrorsCounted
<1>2. CASE Succeeds
  <2>1. TRUE \in BOOLEAN /\ Interpret(TRUE, param)
    BY <1>2 DEF Succeeds
  <2>2. QED
    BY <1>1, <2>1, InterpretInv
<1>3. CASE Fails
  <2>1. FALSE \in BOOLEAN /\ Interpret(FALSE, param)
    BY <1>3 DEF Fails
  <2>2. QED
    BY <1>1, <2>1, InterpretInv
<1>4. QED
  BY <1>2, <1>3

LEMMA CommandInv ==
    ASSUME ConsoleInv, ConsoleAssumption, DoesNothing \/ Unknown \/ Operation
    PROVE  ConsoleInv'
<1>1. block_flag \in BOOLEAN
  BY DEF ConsoleInv, ConsoleTypeOK
<1>2. /\ Succeeds \/ Fails
      /\ UNCHANGED <<listVars, buf_stack, limit_set>> /\ LogsKept
      /\ block_flag' \in BOOLEAN
  <2> USE DEF inputVars, LogsKept, logVars
  <2>1. CASE DoesNothing
    BY <1>1, <2>1 DEF DoesNothing
  <2>2. CASE Unknown
    BY <1>1, <2>2 DEF Unknown
  <2>3. CASE Operation
    <3>1. (Command[1] \in AsyncOp) \in BOOLEAN
      OBVIOUS
    <3>2. QED
      BY <2>3, <3>1 DEF Operation
  <2>4. QED
    BY <2>1, <2>2, <2>3
<1>3. QED
  BY <1>2, SameParamsInv

LEMMA do_option_cmdInv ==
    ASSUME ConsoleInv, ConsoleAssumption, do_option_cmd
    PROVE  ConsoleInv'
<1> DEFINE ok == ~OptionsFail(Command)
           np == ParamAfter(Command)
           chosen == \E i \in OptionsSet(Command) : Command[2 * i] = "error"
<1>1. /\ Interpret(ok, np) /\ limit_set' = (limit_set \/ chosen)
      /\ UNCHANGED <<listVars, buf_stack, block_flag>> /\ LogsKept
  BY DEF do_option_cmd, inputVars, logVars, LogsKept
<1>2. ok \in BOOLEAN
  BY DEF OptionsFail
<1>3. /\ "error" \in DOMAIN param /\ (~limit_set => param.error = ErrLimit)
      /\ block_flag \in BOOLEAN
  BY DEF ConsoleInv, ConsoleTypeOK, ErrorsCounted
<1>4. "error" \in DOMAIN np
  BY <1>3 DEF ParamAfter
<1>5. ~chosen => np.error = param.error
  <2> SUFFICES ASSUME ~chosen PROVE np.error = param.error
    OBVIOUS
  <2>1. {i \in OptionsSet(Command) : Command[2 * i] = "error"} = {}
    OBVIOUS
  <2>2. QED
    BY <1>3, <2>1 DEF ParamAfter
<1>6. ~limit_set' => ~limit_set /\ np.error = ErrLimit
  BY <1>1, <1>3, <1>5
<1> HIDE DEF ok, np
<1>7. QED
  BY <1>1, <1>2, <1>3, <1>4, <1>6, InterpretInv

LEMMA do_log_cmdInv ==
    ASSUME ConsoleInv, ConsoleAssumption, do_log_cmd
    PROVE  ConsoleInv'
<1>1. UNCHANGED <<listVars, buf_stack, limit_set>> /\ block_flag' \in BOOLEAN
  BY DEF do_log_cmd, ConsoleInv, ConsoleTypeOK
<1>2. (Succeeds \/ Fails) /\ LogsKept
  BY DEF do_log_cmd, set_logfile, NewFd, logVars, LogsKept
<1>3. QED
  BY <1>1, <1>2, SameParamsInv

LEMMA do_source_cmdInv ==
    ASSUME ConsoleInv, ConsoleAssumption, do_source_cmd
    PROVE  ConsoleInv'
<1>1. CASE Fails /\ UNCHANGED inputVars
  <2>1. /\ UNCHANGED <<listVars, buf_stack, limit_set>> /\ LogsKept
        /\ block_flag' \in BOOLEAN
    BY <1>1 DEF do_source_cmd, ConsoleInv, ConsoleTypeOK, inputVars, logVars, LogsKept
  <2>2. QED
    BY <1>1, <2>1, SameParamsInv
<1>2. ASSUME push_file, InterpretWith(TRUE, param, malloc_or_fail(Parsed(mem, linebuf), RioSize))
      PROVE  ConsoleInv'
  <2> DEFINE p == Parsed(mem, linebuf)
             m == malloc_or_fail(p, RioSize)
             a == Cardinality(cmd_list)
             b == Cardinality(param_list)
             c == Len(buf_stack)
             k == a + b + c
             l == CmdSize * a + ParamSize * b + RioSize * c
             w == Words(linebuf)
  <2>1. PICK f \in File, fd \in Fd \ open :
          /\ buf_stack' = <<Reader(f, fd)>> \o buf_stack
          /\ open' = open \cup {fd}
    BY <1>2 DEF push_file, NewFd, Sources
  <2> DEFINE r == Reader(f, fd)
             t == <<r>> \o buf_stack
  <2>2. UNCHANGED <<listVars, block_flag, limit_set>>
    BY DEF do_source_cmd
  <2>3. /\ "error" \in DOMAIN param
        /\ ~limit_set' => ~limit_set /\ param.error = ErrLimit
    BY <2>2 DEF ConsoleInv, ErrorsCounted
  <2> HIDE DEF p, m
  <2>4. TRUE \in BOOLEAN /\ InterpretWith(TRUE, param, m)
    BY <1>2 DEF m, p
  <2>5. /\ ErrorsCounted' /\ err_cnt' \in Nat /\ failed' \in Nat
        /\ quit_flag' \in BOOLEAN /\ ~quit_flag
        /\ at' = "select" /\ linebuf' = linebuf /\ linebuf \in Seq(Character)
        /\ mem' = Forgotten(m, linebuf)
    BY <2>3, <2>4, InterpretErrors
  <2>6. fd \in Nat /\ r \in Stacked /\ r.fd = fd
    <3>1. fd \in Nat
      BY <2>1 DEF ConsoleAssumption
    <3>2. QED
      BY <2>1, <3>1, OpenedTop DEF Reader
  <2>7. /\ buf_stack \in Seq(Stacked) /\ EachItsOwn(buf_stack)
        /\ open = Descriptors(buf_stack) \cup logs /\ Descriptors(buf_stack) \cap logs = {}
    BY DEF ConsoleInv, ConsoleTypeOK, FilesOpen
  <2>8. buf_stack' = t /\ open' = open \cup {fd} /\ logs' = logs
    BY <1>2, <2>1 DEF push_file, logVars
  <2> HIDE DEF r
  <2>9. /\ t \in Seq(Stacked) /\ Len(t) = c + 1 /\ c \in Nat
        /\ Descriptors(t) = Descriptors(buf_stack) \cup {r.fd}
        /\ EachItsOwn(t)
    BY <2>1, <2>6, <2>7, PushedTop
  <2> HIDE DEF t
  <2> USE DEF listVars
  <2>10. ConsoleTypeOK'
    BY <2>2, <2>5, <2>8, <2>9 DEF ConsoleInv, ConsoleTypeOK
  <2>11. FilesOpen'
    BY <2>5, <2>6, <2>7, <2>8, <2>9 DEF FilesOpen
  <2>12. a \in Nat /\ b \in Nat
    BY ListsFinite
  <2>13. Books(mem, k, l) /\ k \in Int /\ l \in Int
    <3>1. Books(mem, k, l)
      BY DEF ConsoleInv, ListsAllocated
    <3> HIDE DEF a, b, c
    <3>2. QED
      BY <2>9, <2>12, <3>1 DEF CmdSize, ParamSize, RioSize
  <2> HIDE DEF k, l, w
  <2>14. Books(p, k + 1 + w, l + 10 * w) /\ w \in Nat
    BY <2>5, <2>13, ParsedBooks DEF p, w
  <2>15. Books(m, (k + 1 + w) + 1, (l + 10 * w) + RioSize)
    <3>1. k + 1 + w \in Int /\ l + 10 * w \in Int /\ RioSize \in Nat
      BY <2>13, <2>14 DEF RioSize
    <3>2. QED
      BY <2>14, <3>1, MallocBooks DEF m
  <2>16. Books(mem', k + 1, l + RioSize)
    <3> DEFINE k1 == k + 1
               l1 == l + RioSize
    <3>1. (k + 1 + w) + 1 = k1 + 1 + w /\ (l + 10 * w) + RioSize = l1 + 10 * w
      BY <2>13, <2>14 DEF RioSize
    <3>2. k1 \in Int /\ l1 \in Int
      BY <2>13 DEF RioSize
    <3>3. Books(m, k1 + 1 + w, l1 + 10 * w)
      BY <2>15, <3>1
    <3> HIDE DEF k1, l1
    <3>4. Books(Forgotten(m, linebuf), k1, l1)
      BY <2>5, <3>2, <3>3, ForgottenBooks DEF w
    <3>5. QED
      BY <2>5, <3>4 DEF k1, l1
  <2>17. ListsAllocated'
    <3>1. /\ Cardinality(cmd_list') = a /\ Cardinality(param_list') = b /\ Len(buf_stack') = c + 1
      BY <2>2, <2>8, <2>9
    <3> HIDE DEF a, b, c
    <3>2. /\ a + b + (c + 1) = k + 1
          /\ CmdSize * a + ParamSize * b + RioSize * (c + 1) = l + RioSize
      BY <2>9, <2>12 DEF k, l, CmdSize, ParamSize, RioSize
    <3>3. cmd_list' # {}
      BY <2>2, <2>5 DEF ConsoleInv, ListsAllocated
    <3>4. QED
      BY <2>16, <3>1, <3>2, <3>3 DEF ListsAllocated
  <2>18. QED
    BY <2>5, <2>10, <2>11, <2>17 DEF ConsoleInv
<1>3. QED
  BY <1>1, <1>2 DEF do_source_cmd

LEMMA do_quit_cmdInv ==
    ASSUME ConsoleInv, ConsoleAssumption, do_quit_cmd
    PROVE  ConsoleInv'
<1> DEFINE a == Cardinality(cmd_list)
           b == Cardinality(param_list)
           c == Len(buf_stack)
           p == Parsed(mem, linebuf)
           q == FreeEach(FreeEach(FreeEach(p, a, CmdSize), b, ParamSize), c, RioSize)
           w == Words(linebuf)
           t == Times(parse_args(linebuf))
<1>1. PICK ok \in BOOLEAN :
        /\ err_cnt' = err_cnt + (IF ok THEN 0 ELSE t + 1)
        /\ failed' = failed + (IF ok THEN 0 ELSE 1)
  BY DEF do_quit_cmd
<1>2. /\ ~quit_flag /\ Release /\ quit_flag' = TRUE /\ at' = "select"
      /\ mem' = Forgotten(q, linebuf)
      /\ UNCHANGED <<param, linebuf, block_flag, limit_set>>
  BY DEF do_quit_cmd, FreeLists
<1>3. linebuf \in Seq(Character) /\ err_cnt \in Nat /\ failed \in Nat
  BY DEF ConsoleInv, ConsoleTypeOK
<1>4. t \in Nat
  BY <1>3, WordsAreThere, TimesIsCount
<1> HIDE DEF t
<1>5. cmd_list' = {} /\ param_list' = {} /\ buf_stack' = <<>>
      /\ open' = logs /\ logs' = logs
  BY <1>2 DEF Release, Reading, logVars, ConsoleInv, FilesOpen, Descriptors
<1>6. ConsoleTypeOK'
  <2>1. IsFiniteSet(cmd_list') /\ IsFiniteSet(param_list') /\ buf_stack' \in Seq(Stacked)
    BY <1>5, FS_EmptySet, EmptySeq
  <2>2. err_cnt' \in Nat /\ failed' \in Nat
    BY <1>1, <1>3, <1>4
  <2>3. QED
    BY <1>2, <2>1, <2>2 DEF ConsoleInv, ConsoleTypeOK
<1>7. ErrorsCounted'
  <2>1. ErrLimit \in Nat
    BY DEF ConsoleAssumption
  <2>2. /\ failed <= err_cnt /\ (failed = 0 => err_cnt = 0)
        /\ ~limit_set => failed <= ErrLimit /\ err_cnt < ErrLimit
    BY <1>2 DEF ConsoleInv, ErrorsCounted
  <2>3. failed' <= err_cnt' /\ (failed' = 0 => err_cnt' = 0)
    BY <1>1, <1>3, <1>4, <2>2
  <2>4. ~limit_set => failed' <= ErrLimit
    BY <1>1, <1>3, <2>1, <2>2
  <2>5. QED
    BY <1>2, <2>3, <2>4 DEF ConsoleInv, ErrorsCounted
<1>8. FilesOpen'
  BY <1>2, <1>5, EmptyStack DEF FilesOpen
<1>9. a \in Nat /\ b \in Nat /\ c \in Nat
  BY ListsFinite
<1>10. Books(mem, Blocks(a, b, c), Bytes(a, b, c))
  BY DEF ConsoleInv, ListsAllocated, Blocks, Bytes
<1>11. Blocks(a, b, c) \in Int /\ Bytes(a, b, c) \in Int
  <2> HIDE DEF a, b, c
  <2>1. QED
    BY <1>9 DEF Blocks, Bytes, CmdSize, ParamSize, RioSize
<1> HIDE DEF a, b, c, w
<1>12. /\ w \in Nat
       /\ Books(p, Blocks(a, b, c) + 1 + w, Bytes(a, b, c) + 10 * w)
  BY <1>3, <1>10, <1>11, ParsedBooks DEF w
<1> HIDE DEF p
<1>13. Books(q, 0 + 1 + w, 0 + 10 * w)
  <2> DEFINE k == 0 + 1 + w
             l == 0 + 10 * w
  <2>1. /\ Blocks(a, b, c) + 1 + w = k + Blocks(a, b, c)
        /\ Bytes(a, b, c) + 10 * w = l + Bytes(a, b, c)
        /\ k \in Int /\ l \in Int
    BY <1>11, <1>12
  <2>2. Books(p, k + Blocks(a, b, c), l + Bytes(a, b, c))
    BY <1>12, <2>1
  <2> HIDE DEF k, l
  <2>3. Books(q, k, l)
    BY <1>9, <2>1, <2>2, FreeListsBooks
  <2>4. QED
    BY <2>3 DEF k, l
<1> HIDE DEF q
<1>14. Books(mem', 0, 0)
  BY <1>2, <1>3, <1>13, ForgottenBooks DEF w
<1>15. ListsAllocated'
  <2>1. Cardinality(cmd_list') = 0 /\ Cardinality(param_list') = 0 /\ Len(buf_stack') = 0
    BY <1>5, FS_EmptySet
  <2>2. 0 + 0 + 0 = 0 /\ CmdSize * 0 + ParamSize * 0 + RioSize * 0 = 0
    BY DEF CmdSize, ParamSize, RioSize
  <2>3. QED
    BY <1>2, <1>5, <1>14, <2>1, <2>2 DEF ListsAllocated
<1>16. QED
  BY <1>6, <1>7, <1>8, <1>15 DEF ConsoleInv

LEMMA NextInv ==
    ASSUME ConsoleAssumption, ConsoleInv, [ConsoleNext]_consoleVars
    PROVE  ConsoleInv'
<1>1. CASE UNCHANGED consoleVars
  <2> USE <1>1 DEF consoleVars, logVars
  <2>1. ConsoleTypeOK'
    BY DEF ConsoleInv, ConsoleTypeOK
  <2>2. ErrorsCounted'
    BY DEF ConsoleInv, ErrorsCounted
  <2>3. FilesOpen'
    BY DEF ConsoleInv, FilesOpen
  <2>4. ListsAllocated'
    BY DEF ConsoleInv, ListsAllocated
  <2>5. QED
    BY <2>1, <2>2, <2>3, <2>4 DEF ConsoleInv
<1>2. CASE readline
  BY <1>2, TakeCharsInv, RefillInv, EndOfFileInv DEF readline
<1>3. CASE cmd_select \/ unblock_console
  BY <1>3, SimpleInv
<1>4. CASE finish_cmd
  BY <1>4, finish_cmdInv
<1>5. CASE interpret_cmd
  BY <1>5, CommandInv, do_option_cmdInv, do_log_cmdInv, do_source_cmdInv, do_quit_cmdInv,
     SimpleInv DEF interpret_cmd
<1>6. QED
  BY <1>1, <1>2, <1>3, <1>4, <1>5 DEF ConsoleNext

(* The inductive invariant.                                                 *)
THEOREM ConsoleIsInv == ConsoleSpec => []ConsoleInv
<1>1. ConsoleInit => ConsoleInv
  BY ConsoleAssumption, InitInv
<1>2. ConsoleInv /\ [ConsoleNext]_consoleVars => ConsoleInv'
  BY ConsoleAssumption, NextInv
<1>3. QED
  BY <1>1, <1>2, PTL DEF ConsoleSpec

(* No more commands than the limit fail, unless a file sets the option.     *)
THEOREM ErrorsAreLimitedAlways == ConsoleSpec => []ErrorsAreLimited
<1>1. ConsoleInv => ErrorsAreLimited
  BY DEF ConsoleInv, ConsoleTypeOK, ErrorsCounted, ErrorsAreLimited
<1>2. QED
  BY <1>1, ConsoleIsInv, PTL

(* At the end everything on the lists is given back, or the error limit    *)
(* was reached.                                                            *)
GivenBack ==
    /\ at = "done" => quit_flag
    /\ quit_flag => cmd_list = {} \/ err_cnt >= param.error

LEMMA InterpretGivenBack ==
    ASSUME GivenBack, NEW ok \in BOOLEAN, NEW np, NEW m, InterpretWith(ok, np, m)
    PROVE  GivenBack'
<1> DEFINE n == IF ok THEN 0 ELSE Times(parse_args(linebuf)) + 1
<1>1. /\ quit_flag' = (quit_flag \/ (n > 0 /\ err_cnt' >= np.error))
      /\ ~quit_flag /\ param' = np /\ at' = "select"
  BY DEF InterpretWith, record_error
<1> HIDE DEF n
<1>2. QED
  BY <1>1 DEF GivenBack

LEMMA GivenBackStep ==
    ASSUME GivenBack, [ConsoleNext]_consoleVars
    PROVE  GivenBack'
<1> USE DEF tableVars, listVars, historyVars
<1>1. CASE UNCHANGED consoleVars
  BY <1>1 DEF consoleVars, GivenBack
<1>2. CASE readline \/ cmd_select \/ unblock_console \/ SkipLine \/ MallocFails \/ EventClosesLog
  <2>1. UNCHANGED <<cmd_list, param, quit_flag, err_cnt>>
    BY <1>2 DEF readline, TakeChars, Refill, EndOfFile, cmd_select, unblock_console, SkipLine,
       MallocFails, EventClosesLog
  <2>2. CASE readline
    <3>1. at' # "done"
      BY <2>2 DEF readline, TakeChars, Refill, EndOfFile
    <3>2. QED
      BY <2>1, <3>1 DEF GivenBack
  <2>3. CASE cmd_select \/ unblock_console \/ SkipLine \/ MallocFails \/ EventClosesLog
    <3>1. at' # "done"
      BY <2>3 DEF cmd_select, unblock_console, SkipLine, MallocFails, EventClosesLog
    <3>2. QED
      BY <2>1, <3>1 DEF GivenBack
  <2>4. QED
    BY <1>2, <2>2, <2>3
<1>3. CASE finish_cmd
  BY <1>3 DEF GivenBack, finish_cmd, Release
<1>4. CASE do_quit_cmd
  BY <1>4 DEF GivenBack, do_quit_cmd, Release
<1>5. CASE \E ok \in BOOLEAN : \E np, m : InterpretWith(ok, np, m)
  BY <1>5, InterpretGivenBack
<1>6. CASE DoesNothing \/ Unknown \/ Operation \/ do_log_cmd
  <2>1. Succeeds \/ Fails
    BY <1>6 DEF DoesNothing, Unknown, Operation, do_log_cmd, set_logfile
  <2>2. QED
    BY <1>5, <2>1 DEF Succeeds, Fails, Interpret
<1>7. CASE do_option_cmd
  <2>1. PICK ok \in BOOLEAN : Interpret(ok, ParamAfter(Command))
    BY <1>7 DEF do_option_cmd, OptionsFail
  <2>2. QED
    BY <1>5, <2>1 DEF Interpret
<1>8. CASE do_source_cmd
  BY <1>5, <1>8 DEF do_source_cmd, Fails, Interpret
<1>9. QED
  BY <1>1, <1>2, <1>3, <1>4, <1>6, <1>7, <1>8 DEF ConsoleNext, interpret_cmd

(* Every block is that of one element of the lists, every descriptor that  *)
(* of one file on the stack or of one log file, and at the end the lists   *)
(* are given back unless the limit of errors was reached.                  *)
THEOREM AllIsAccountedAlways == ConsoleSpec => []AllIsAccounted
<1>1. ASSUME ConsoleInv, GivenBack PROVE AllIsAccounted
  <2> DEFINE a == Cardinality(cmd_list)
             b == Cardinality(param_list)
             c == Len(buf_stack)
  <2>1. a \in Nat /\ b \in Nat /\ c \in Nat
    BY <1>1, ListsFinite
  <2>2. /\ mem \in Account /\ Outstanding(mem) = a + b + c
        /\ mem.current_bytes = 32 * a + 40 * b + 8224 * c
        /\ mem.allocate_bytes - mem.free_bytes = mem.current_bytes
        /\ mem.current_bytes <= mem.peak_bytes
    BY <1>1 DEF ConsoleInv, ListsAllocated, Books, CmdSize, ParamSize, RioSize
  <2>3. /\ open = Descriptors(buf_stack) \cup logs /\ Descriptors(buf_stack) \cap logs = {}
        /\ EachItsOwn(buf_stack) /\ buf_stack \in Seq(Stacked)
        /\ cmd_list = {} => quit_flag /\ buf_stack = <<>> /\ param_list = {}
    BY <1>1 DEF ConsoleInv, ConsoleTypeOK, FilesOpen, ListsAllocated
  <2>4. Reading = Descriptors(buf_stack) /\ Cardinality(Reading) = c
    BY <2>3, DescriptorsCounted DEF Reading, Descriptors
  <2>5. ASSUME cmd_list = {} PROVE a = 0 /\ b = 0 /\ c = 0 /\ open = logs
    <3>1. buf_stack = <<>> /\ param_list = {} /\ Cardinality({}) = 0 /\ Len(<<>>) = 0
      BY <2>3, <2>5, FS_EmptySet
    <3>2. Descriptors(buf_stack) = {}
      BY <3>1, EmptyStack
    <3>3. QED
      BY <2>3, <2>5, <3>1, <3>2
  <2> HIDE DEF a, b, c
  <2>6. BooksBalance(mem)
    BY <2>1, <2>2 DEF BooksBalance, Account
  <2>7. Outstanding(mem) = 0 <=> mem.current_bytes = 0
    BY <2>1, <2>2
  <2>8. cmd_list = {} => Outstanding(mem) = 0 /\ open = logs
    BY <2>1, <2>2, <2>5
  <2>9. at = "done" => (Outstanding(mem) = 0 /\ open = logs) \/ err_cnt >= param.error
    BY <1>1, <2>8 DEF GivenBack
  <2>10. QED
    BY <2>2, <2>3, <2>4, <2>6, <2>7, <2>9 DEF AllIsAccounted, a, b, c
<1>2. ConsoleInit => GivenBack
  BY DEF ConsoleInit, GivenBack
<1>3. ConsoleSpec => []GivenBack
  BY <1>2, GivenBackStep, PTL DEF ConsoleSpec
<1>4. QED
  BY <1>1, <1>3, ConsoleIsInv, PTL

-----------------------------------------------------------------------------
(* Chains of pieces: what the recursive definition of Lines is made of.    *)

(* A chain of pieces, each followed by what comes from its successor.       *)
Chain(n, p, x, w) ==
    /\ w[n + 1] = <<>>
    /\ \A i \in 1 .. n : w[i] = p[i] \o w[x[i]]

Onward(n) == {x \in [1 .. n -> 1 .. n + 1] : \A i \in 1 .. n : i < x[i]}

LEMMA CountDown ==
    ASSUME NEW n \in Nat, NEW T, n + 1 \in T,
           \A i \in 1 .. n : (\A j \in i + 1 .. n + 1 : j \in T) => i \in T
    PROVE  \A i \in 1 .. n + 1 : i \in T
<1> DEFINE Low == {k \in 0 .. n : \A j \in (n + 1) - k .. n + 1 : j \in T}
<1>1. 0 \in Low
  OBVIOUS
<1>2. ASSUME NEW k \in 0 .. n, k \in Low, k + 1 <= n PROVE k + 1 \in Low
  <2> DEFINE m == n - k
  <2>1. m \in 1 .. n /\ m + 1 = (n + 1) - k /\ (n + 1) - (k + 1) = m /\ k + 1 \in 0 .. n
    BY <1>2
  <2>2. \A j \in m + 1 .. n + 1 : j \in T
    BY <1>2, <2>1
  <2> HIDE DEF m
  <2>3. m \in T
    BY <2>1, <2>2
  <2>4. \A j \in m .. n + 1 : j \in T
    BY <2>1, <2>2, <2>3
  <2>5. QED
    BY <2>1, <2>4
<1> HIDE DEF Low
<1>3. \A k \in 0 .. n : k \in Low
  BY <1>1, <1>2, CountUp
<1>4. QED
  BY <1>3 DEF Low

LEMMA ChainTyped ==
    ASSUME NEW n \in Nat, NEW C, NEW p \in [1 .. n -> Seq(C)], NEW x \in Onward(n),
           NEW w, Chain(n, p, x, w)
    PROVE  \A i \in 1 .. n + 1 : w[i] \in Seq(C)
<1> DEFINE T == {i \in 1 .. n + 1 : w[i] \in Seq(C)}
<1>1. n + 1 \in T
  <2>1. n + 1 \in 1 .. n + 1 /\ w[n + 1] \in Seq(C)
    BY EmptySeq DEF Chain
  <2>2. QED
    BY <2>1
<1>2. ASSUME NEW i \in 1 .. n, \A j \in i + 1 .. n + 1 : j \in T PROVE i \in T
  <2>1. x[i] \in i + 1 .. n + 1 /\ i \in 1 .. n + 1
    BY DEF Onward
  <2>2. p[i] \in Seq(C) /\ w[x[i]] \in Seq(C)
    BY <1>2, <2>1
  <2>3. w[i] \in Seq(C)
    BY <2>2, ConcatProperties DEF Chain
  <2>4. QED
    BY <2>1, <2>3
<1> HIDE DEF T
<1>3. \A i \in 1 .. n + 1 : i \in T
  BY <1>1, <1>2, CountDown
<1>4. QED
  BY <1>3 DEF T

LEMMA ChainExists ==
    ASSUME NEW n \in Nat, NEW C, NEW p \in [1 .. n -> Seq(C)], NEW x \in Onward(n)
    PROVE  \E w \in [1 .. n + 1 -> Seq(C)] : Chain(n, p, x, w)
<1> DEFINE D == 1 .. n + 1
           Good(w, k) == w[n + 1] = <<>> /\ \A i \in (n + 1) - k .. n : w[i] = p[i] \o w[x[i]]
           Reached == {k \in 0 .. n : \E w \in [D -> Seq(C)] : Good(w, k)}
<1>1. 0 \in Reached
  <2>1. [i \in D |-> <<>>] \in [D -> Seq(C)]
    BY EmptySeq
  <2>2. Good([i \in D |-> <<>>], 0)
    <3> DEFINE w == [i \in D |-> <<>>]
    <3>1. n + 1 \in D /\ (n + 1) - 0 .. n = {}
      OBVIOUS
    <3>2. w[n + 1] = <<>>
      BY <3>1
    <3> HIDE DEF w
    <3>3. QED
      BY <3>1, <3>2
  <2>3. 0 \in 0 .. n
    OBVIOUS
  <2> HIDE DEF Good
  <2>4. QED
    BY <2>1, <2>2, <2>3
<1>2. ASSUME NEW k \in 0 .. n, k \in Reached, k + 1 <= n PROVE k + 1 \in Reached
  <2>1. PICK w \in [D -> Seq(C)] : Good(w, k)
    BY <1>2
  <2> DEFINE m == n - k
             e == p[m] \o w[x[m]]
             v == [w EXCEPT ![m] = e]
  <2>2. m \in 1 .. n /\ m + 1 = (n + 1) - k /\ (n + 1) - (k + 1) = m /\ k + 1 \in 0 .. n
    BY <1>2
  <2>3. m \in D /\ m # n + 1
    BY <2>2
  <2> HIDE DEF m
  <2>4. e \in Seq(C)
    <3>1. p[m] \in Seq(C) /\ x[m] \in D
      BY <2>2 DEF Onward
    <3>2. QED
      BY <3>1, ConcatProperties
  <2> DEFINE same == p[m] \o w[x[m]]
  <2>5. v \in [D -> Seq(C)] /\ v[m] = e /\ \A i \in D : i # m => v[i] = w[i]
    <3> HIDE DEF e
    <3>1. QED
      BY <2>3, <2>4
  <2> HIDE DEF v
  <2>6. \A i \in m .. n : v[i] = p[i] \o v[x[i]]
    <3> SUFFICES ASSUME NEW i \in m .. n PROVE v[i] = p[i] \o v[x[i]]
      OBVIOUS
    <3>1. i \in 1 .. n /\ i \in D
      BY <2>2
    <3>2. x[i] \in D /\ x[i] > i
      BY <3>1 DEF Onward
    <3>3. x[i] # m
      BY <2>2, <3>1, <3>2
    <3>4. v[x[i]] = w[x[i]]
      BY <2>5, <3>2, <3>3
    <3>5. v[i] = p[i] \o w[x[i]]
      <4>1. CASE i = m
        BY <2>5, <4>1
      <4>2. CASE i # m
        <5>1. i \in (n + 1) - k .. n
          BY <2>2, <4>2
        <5>2. w[i] = p[i] \o w[x[i]]
          BY <2>1, <5>1
        <5>3. QED
          BY <2>5, <3>1, <4>2, <5>2
      <4>3. QED
        BY <4>1, <4>2
    <3>6. QED
      BY <3>4, <3>5
  <2>7. Good(v, k + 1)
    <3>1. v[n + 1] = <<>>
      BY <2>1, <2>3, <2>5
    <3>2. QED
      BY <2>2, <2>6, <3>1
  <2> HIDE DEF Good
  <2>8. QED
    BY <2>2, <2>5, <2>7
<1> HIDE DEF Reached
<1>3. \A k \in 0 .. n : k \in Reached
  BY <1>1, <1>2, CountUp
<1>4. n \in 0 .. n /\ (n + 1) - n = 1
  OBVIOUS
<1>5. PICK w \in [D -> Seq(C)] : Good(w, n)
  <2> HIDE DEF Good
  <2>1. QED
    BY <1>3, <1>4 DEF Reached
<1>6. Chain(n, p, x, w)
  BY <1>4, <1>5 DEF Chain
<1>7. QED
  BY <1>6

(* A chain that begins after k others, and the same chain alone.            *)
ChainFrom(k, n, p, x, w) ==
    /\ w[k + (n + 1)] = <<>>
    /\ \A i \in 1 .. n : w[k + i] = p[i] \o w[k + x[i]]

LEMMA ChainsAgree ==
    ASSUME NEW n \in Nat, NEW k \in Nat, NEW p, NEW x \in Onward(n),
           NEW w, NEW v, Chain(n, p, x, v), ChainFrom(k, n, p, x, w)
    PROVE  \A i \in 1 .. n + 1 : w[k + i] = v[i]
<1> DEFINE T == {i \in 1 .. n + 1 : w[k + i] = v[i]}
<1>1. n + 1 \in T
  BY DEF Chain, ChainFrom
<1>2. ASSUME NEW i \in 1 .. n, \A j \in i + 1 .. n + 1 : j \in T PROVE i \in T
  <2>1. x[i] \in i + 1 .. n + 1 /\ i \in 1 .. n + 1
    BY DEF Onward
  <2>2. w[k + x[i]] = v[x[i]]
    BY <1>2, <2>1
  <2>3. w[k + i] = v[i]
    BY <2>2 DEF Chain, ChainFrom
  <2>4. QED
    BY <2>1, <2>3
<1> HIDE DEF T
<1>3. \A i \in 1 .. n + 1 : i \in T
  BY <1>1, <1>2, CountDown
<1>4. QED
  BY <1>3 DEF T

-----------------------------------------------------------------------------
(* The first line of a text.                                               *)

IsEnd(text, i, n) ==
    /\ n = Len(text) \/ text[n] = NL \/ n = i + LineLimit - 1
    /\ n <= i + LineLimit - 1
    /\ \A j \in i .. (n - 1) : text[j] # NL

LEMMA EndExists ==
    ASSUME ConsoleAssumption, NEW C, NEW text \in Seq(C), NEW i \in 1 .. Len(text)
    PROVE  EndOfLine(text, i) \in i .. Len(text) /\ IsEnd(text, i, EndOfLine(text, i))
<1> DEFINE T == {n \in i .. Len(text) : n = Len(text) \/ text[n] = NL \/ n = i + LineLimit - 1}
<1>1. Len(text) \in Nat /\ i \in Nat /\ LineLimit \in Nat \ {0}
  BY DEF ConsoleAssumption
<1>2. T \in SUBSET Nat /\ Len(text) \in T
  BY <1>1
<1>3. PICK n \in T : \A m \in T : n <= m
  <2> HIDE DEF T
  <2>1. QED
    BY <1>2, LeastExists
<1>4. \A j \in i .. Len(text) : j \in T => n <= j
  BY <1>3
<1>5. n <= i + LineLimit - 1
  <2>1. CASE i + LineLimit - 1 <= Len(text)
    <3>1. i + LineLimit - 1 \in i .. Len(text)
      BY <1>1, <2>1
    <3>2. QED
      BY <1>3, <3>1
  <2>2. CASE ~(i + LineLimit - 1 <= Len(text))
    BY <1>1, <1>3, <2>2
  <2>3. QED
    BY <2>1, <2>2
<1>6. \A j \in i .. (n - 1) : text[j] # NL
  <2> SUFFICES ASSUME NEW j \in i .. (n - 1), text[j] = NL PROVE FALSE
    OBVIOUS
  <2>1. j \in i .. Len(text) /\ ~(n <= j)
    BY <1>1, <1>3
  <2>2. QED
    BY <1>4, <2>1
<1>7. n \in i .. Len(text) /\ IsEnd(text, i, n)
  BY <1>3, <1>5, <1>6 DEF IsEnd
<1>8. QED
  BY <1>7 DEF EndOfLine, IsEnd

LEMMA EndIs ==
    ASSUME ConsoleAssumption, NEW C, NEW text \in Seq(C), NEW i \in 1 .. Len(text),
           NEW n \in i .. Len(text), IsEnd(text, i, n)
    PROVE  EndOfLine(text, i) = n
<1> DEFINE e == EndOfLine(text, i)
<1>1. e \in i .. Len(text) /\ IsEnd(text, i, e)
  BY EndExists
<1> HIDE DEF e
<1>2. \A a, b \in i .. Len(text) :
          IsEnd(text, i, a) /\ IsEnd(text, i, b) => ~(a < b)
  <2> SUFFICES ASSUME NEW a \in i .. Len(text), NEW b \in i .. Len(text),
                      IsEnd(text, i, a), IsEnd(text, i, b), a < b
               PROVE  FALSE
    OBVIOUS
  <2>1. a # Len(text) /\ a \in i .. (b - 1) /\ LineLimit \in Nat
    BY DEF ConsoleAssumption
  <2>2. text[a] # NL
    BY <2>1 DEF IsEnd
  <2>3. a = i + LineLimit - 1 /\ b <= i + LineLimit - 1
    BY <2>1, <2>2 DEF IsEnd
  <2>4. QED
    BY <2>1, <2>3
<1>3. ~(e < n) /\ ~(n < e)
  BY <1>1, <1>2
<1>4. QED
  BY <1>1, <1>3 DEF e

\* The line of `text` that runs from i to n, character by character.
IsLine(C, text, i, n) ==
    /\ Line(text, i, n) \in Seq(C)
    /\ Len(Line(text, i, n)) = (IF text[n] = NL THEN n - i ELSE (n - i) + 1)
    /\ \A j \in 1 .. Len(Line(text, i, n)) : Line(text, i, n)[j] = text[(i + j) - 1]

LEMMA LineTyped ==
    ASSUME NEW C, NEW text \in Seq(C), NEW i \in 1 .. Len(text), NEW n \in i .. Len(text)
    PROVE  IsLine(C, text, i, n)
<1> DEFINE m == IF text[n] = NL THEN n - 1 ELSE n
           s == SubSeq(text, i, m)
<1>1. m \in Int /\ i \in Int /\ i <= m + 1 /\ m <= Len(text) /\ i > 0
      /\ (m - i) + 1 = (IF text[n] = NL THEN n - i ELSE (n - i) + 1)
  OBVIOUS
<1>2. Line(text, i, n) = s
  BY DEF Line
<1> HIDE DEF m
<1>3. \A j \in i .. m : text[j] \in C
  BY <1>1
<1>4. /\ s \in Seq(C)
      /\ Len(s) = IF i <= m THEN m - i + 1 ELSE 0
      /\ \A j \in 1 .. m - i + 1 : s[j] = text[i + j - 1]
  BY <1>1, <1>3, SubSeqProperties
<1> HIDE DEF s
<1>5. Len(s) = (m - i) + 1
  BY <1>1, <1>4
<1>6. QED
  BY <1>1, <1>2, <1>4, <1>5 DEF IsLine

Pieces(text) == [i \in 1 .. Len(text) |-> <<Line(text, i, EndOfLine(text, i))>>]
Starts(text) == [i \in 1 .. Len(text) |-> EndOfLine(text, i) + 1]

LEMMA PiecesTyped ==
    ASSUME ConsoleAssumption, NEW C, NEW text \in Seq(C)
    PROVE  /\ Len(text) \in Nat
           /\ Pieces(text) \in [1 .. Len(text) -> Seq(Seq(C))]
           /\ Starts(text) \in Onward(Len(text))
<1>1. Len(text) \in Nat
  OBVIOUS
<1>2. ASSUME NEW i \in 1 .. Len(text)
      PROVE  <<Line(text, i, EndOfLine(text, i))>> \in Seq(Seq(C))
  <2>1. EndOfLine(text, i) \in i .. Len(text)
    BY EndExists
  <2>2. IsLine(C, text, i, EndOfLine(text, i))
    BY <2>1, LineTyped
  <2>3. Line(text, i, EndOfLine(text, i)) \in Seq(C)
    BY <2>2, Zenon DEF IsLine
  <2>4. QED
    BY <2>3
<1>3. ASSUME NEW i \in 1 .. Len(text)
      PROVE  EndOfLine(text, i) + 1 \in 1 .. Len(text) + 1 /\ i < EndOfLine(text, i) + 1
  <2>1. EndOfLine(text, i) \in i .. Len(text)
    BY EndExists
  <2>2. QED
    BY <1>1, <2>1
<1>4. Pieces(text) \in [1 .. Len(text) -> Seq(Seq(C))]
  BY <1>2, Zenon DEF Pieces
<1>5. Starts(text) \in [1 .. Len(text) -> 1 .. Len(text) + 1]
  BY <1>3, Zenon DEF Starts
<1>6. \A i \in 1 .. Len(text) : i < Starts(text)[i]
  BY <1>3 DEF Starts
<1>7. QED
  BY <1>1, <1>4, <1>5, <1>6 DEF Onward

LEMMA LinesChain ==
    ASSUME ConsoleAssumption, NEW C, NEW text \in Seq(C)
    PROVE  \E w : /\ Chain(Len(text), Pieces(text), Starts(text), w)
                  /\ Lines(text) = w[1] /\ w[1] \in Seq(Seq(C))
<1> DEFINE n == Len(text)
           Whole(w) == [i \in 1 .. (n + 1) |->
               IF i > n THEN <<>>
               ELSE <<Line(text, i, EndOfLine(text, i))>> \o w[EndOfLine(text, i) + 1]]
           from == CHOOSE w : w = Whole(w)
<1>1. Lines(text) = from[1]
  BY DEF Lines
<1>2. /\ n \in Nat /\ Pieces(text) \in [1 .. n -> Seq(Seq(C))] /\ Starts(text) \in Onward(n)
  BY PiecesTyped
<1>3. PICK w \in [1 .. n + 1 -> Seq(Seq(C))] : Chain(n, Pieces(text), Starts(text), w)
  <2> HIDE DEF n
  <2>1. QED
    BY <1>2, ChainExists
<1>4. w = Whole(w)
  <2>1. ASSUME NEW i \in 1 .. n + 1 PROVE w[i] = Whole(w)[i]
    <3>1. CASE i = n + 1
      BY <1>2, <1>3, <3>1 DEF Chain
    <3>2. CASE i \in 1 .. n
      <4>1. w[i] = Pieces(text)[i] \o w[Starts(text)[i]]
        BY <1>3, <3>2 DEF Chain
      <4>2. Pieces(text)[i] = <<Line(text, i, EndOfLine(text, i))>>
            /\ Starts(text)[i] = EndOfLine(text, i) + 1
        BY <3>2 DEF Pieces, Starts
      <4>3. ~(i > n)
        BY <1>2, <3>2
      <4>4. QED
        BY <4>1, <4>2, <4>3
    <3>3. QED
      BY <1>2, <3>1, <3>2
  <2>2. QED
    BY <1>3, <2>1
<1>5. from = Whole(from)
  <2> HIDE DEF Whole
  <2>1. QED
    BY <1>4
<1> HIDE DEF from
<1>6. Chain(n, Pieces(text), Starts(text), from)
  <2>1. from[n + 1] = <<>>
    BY <1>2, <1>5
  <2>2. ASSUME NEW i \in 1 .. n PROVE from[i] = Pieces(text)[i] \o from[Starts(text)[i]]
    <3>1. Pieces(text)[i] = <<Line(text, i, EndOfLine(text, i))>>
          /\ Starts(text)[i] = EndOfLine(text, i) + 1
      BY DEF Pieces, Starts
    <3>2. ~(i > n) /\ i \in 1 .. (n + 1)
      BY <1>2
    <3>3. from[i] = <<Line(text, i, EndOfLine(text, i))>> \o from[EndOfLine(text, i) + 1]
      BY <1>5, <3>2
    <3>4. QED
      BY <3>1, <3>3
  <2>3. QED
    BY <2>1, <2>2 DEF Chain
<1>7. from[1] \in Seq(Seq(C))
  <2> HIDE DEF n
  <2>1. 1 \in 1 .. n + 1
    BY <1>2
  <2>2. QED
    BY <1>2, <1>6, <2>1, ChainTyped
<1>8. QED
  BY <1>1, <1>6, <1>7

LEMMA LinesTyped ==
    ASSUME ConsoleAssumption, NEW C, NEW text \in Seq(C)
    PROVE  Lines(text) \in Seq(Seq(C))
  BY LinesChain

LEMMA LinesOfNothing ==
    ASSUME ConsoleAssumption
    PROVE  Lines(<<>>) = <<>>
<1>1. <<>> \in Seq({}) /\ Len(<<>>) = 0
  BY EmptySeq
<1>2. PICK w : Chain(0, Pieces(<<>>), Starts(<<>>), w) /\ Lines(<<>>) = w[1]
  BY <1>1, LinesChain
<1>3. QED
  BY <1>2 DEF Chain

LEMMA RestOfText ==
    ASSUME NEW C, NEW text \in Seq(C), NEW n \in 1 .. Len(text)
    PROVE  LET r == SubSeq(text, n + 1, Len(text))
           IN  /\ r \in Seq(C) /\ Len(r) = Len(text) - n /\ Len(r) \in Nat
               /\ \A i \in 1 .. Len(r) : r[i] = text[n + i]
<1> DEFINE r == SubSeq(text, n + 1, Len(text))
<1>1. Len(text) \in Nat /\ n \in Int /\ n + 1 \in Int
  OBVIOUS
<1>2. \A i \in n + 1 .. Len(text) : text[i] \in C
  BY <1>1
<1>3. /\ r \in Seq(C)
      /\ Len(r) = IF n + 1 <= Len(text) THEN Len(text) - (n + 1) + 1 ELSE 0
      /\ \A i \in 1 .. Len(text) - (n + 1) + 1 : r[i] = text[(n + 1) + i - 1]
  BY <1>1, <1>2, SubSeqProperties
<1> HIDE DEF r
<1>4. Len(r) = Len(text) - n
  BY <1>1, <1>3
<1>5. QED
  BY <1>1, <1>3, <1>4 DEF r

(* The lines of a text are its first one and those of the rest.             *)
LEMMA LinesFirst ==
    ASSUME ConsoleAssumption, NEW C, NEW text \in Seq(C),
           NEW n \in 1 .. Len(text), IsEnd(text, 1, n)
    PROVE  Lines(text) = <<Line(text, 1, n)>> \o Lines(SubSeq(text, n + 1, Len(text)))
<1> DEFINE r == SubSeq(text, n + 1, Len(text))
           l == Len(r)
<1>1. /\ r \in Seq(C) /\ l = Len(text) - n /\ l \in Nat /\ Len(text) \in Nat
      /\ \A i \in 1 .. l : r[i] = text[n + i]
  <2>1. /\ r \in Seq(C) /\ l = Len(text) - n /\ l \in Nat
        /\ \A i \in 1 .. l : r[i] = text[n + i]
    BY RestOfText, Zenon
  <2>2. QED
    BY <2>1
<1> HIDE DEF r
<1>2. PICK w : Chain(Len(text), Pieces(text), Starts(text), w) /\ Lines(text) = w[1]
  BY LinesChain
<1>3. PICK v : Chain(Len(r), Pieces(r), Starts(r), v) /\ Lines(r) = v[1]
  BY <1>1, LinesChain
<1>4. ASSUME NEW i \in 1 .. l
      PROVE  w[n + i] = Pieces(r)[i] \o w[n + Starts(r)[i]]
  <2> DEFINE e == EndOfLine(r, i)
  <2>1. e \in i .. l /\ IsEnd(r, i, e)
    BY <1>1, EndExists
  <2> HIDE DEF e
  <2>2. n + i \in 1 .. Len(text) /\ n + e \in n + i .. Len(text)
    BY <1>1, <2>1
  <2>3. IsEnd(text, n + i, n + e)
    <3>1. LineLimit \in Nat
      BY DEF ConsoleAssumption
    <3>2. \A j \in n + i .. (n + e) - 1 : text[j] # NL
      <4> SUFFICES ASSUME NEW j \in n + i .. (n + e) - 1 PROVE text[j] # NL
        OBVIOUS
      <4>1. j - n \in i .. e - 1 /\ j - n \in 1 .. l /\ n + (j - n) = j
        BY <1>1, <2>1
      <4>2. r[j - n] # NL
        BY <2>1, <4>1 DEF IsEnd
      <4>3. QED
        BY <1>1, <4>1, <4>2
    <3>3. r[e] = text[n + e]
      BY <1>1, <2>1
    <3>4. n + e <= (n + i) + LineLimit - 1
      BY <1>1, <2>1, <3>1 DEF IsEnd
    <3>5. n + e = Len(text) \/ text[n + e] = NL \/ n + e = (n + i) + LineLimit - 1
      BY <1>1, <2>1, <3>1, <3>3 DEF IsEnd
    <3>6. QED
      BY <3>2, <3>4, <3>5 DEF IsEnd
  <2>4. EndOfLine(text, n + i) = n + e
    BY <2>2, <2>3, EndIs
  <2>5. Line(text, n + i, n + e) = Line(r, i, e)
    <3>2. /\ Line(r, i, e) \in Seq(C)
          /\ Len(Line(r, i, e)) = (IF r[e] = NL THEN e - i ELSE (e - i) + 1)
          /\ \A j \in 1 .. Len(Line(r, i, e)) : Line(r, i, e)[j] = r[(i + j) - 1]
      <4>1. i \in 1 .. Len(r) /\ e \in i .. Len(r)
        BY <2>1
      <4> HIDE DEF l
      <4>2. r \in Seq(C)
        BY <1>1
      <4>3. IsLine(C, r, i, e)
        BY <4>1, <4>2, LineTyped
      <4>4. QED
        BY <4>3, Zenon DEF IsLine
    <3> DEFINE a == Line(text, n + i, n + e)
               b == Line(r, i, e)
    <3> DEFINE ni == n + i
               ne == n + e
    <3> HIDE DEF ni, ne
    <3>0. /\ Line(text, ni, ne) \in Seq(C)
          /\ Len(Line(text, ni, ne)) = (IF text[ne] = NL THEN ne - ni ELSE (ne - ni) + 1)
          /\ \A j \in 1 .. Len(Line(text, ni, ne)) : Line(text, ni, ne)[j] = text[(ni + j) - 1]
      <4>1. ni \in 1 .. Len(text) /\ ne \in ni .. Len(text)
        BY <2>2 DEF ni, ne
      <4>2. IsLine(C, text, ni, ne)
        BY <4>1, LineTyped
      <4>3. QED
        BY <4>2, Zenon DEF IsLine
    <3>1. /\ a \in Seq(C)
          /\ Len(a) = (IF text[n + e] = NL THEN (n + e) - (n + i) ELSE ((n + e) - (n + i)) + 1)
          /\ \A j \in 1 .. Len(a) : a[j] = text[((n + i) + j) - 1]
      BY <3>0, Zenon DEF ni, ne
    <3>8. /\ b \in Seq(C)
          /\ Len(b) = (IF r[e] = NL THEN e - i ELSE (e - i) + 1)
          /\ \A j \in 1 .. Len(b) : b[j] = r[(i + j) - 1]
      BY <3>2, Zenon
    <3> HIDE DEF a, b
    <3>3. r[e] = text[n + e]
      BY <1>1, <2>1
    <3>4. Len(a) = Len(b) /\ Len(b) <= (e - i) + 1
      BY <1>1, <2>1, <3>1, <3>8, <3>3
    <3>5. ASSUME NEW j \in 1 .. Len(a) PROVE a[j] = b[j]
      <4>1. (i + j) - 1 \in 1 .. l /\ n + ((i + j) - 1) = ((n + i) + j) - 1
        BY <1>1, <2>1, <3>4
      <4>2. QED
        BY <1>1, <3>1, <3>8, <3>4, <4>1
    <3>6. a = b
      BY <3>1, <3>8, <3>4, <3>5, SeqEqual
    <3>7. QED
      BY <3>6 DEF a, b
  <2>6. w[n + i] = <<Line(text, n + i, n + e)>> \o w[(n + e) + 1]
    BY <1>2, <2>2, <2>4 DEF Chain, Pieces, Starts
  <2>7. Pieces(r)[i] = <<Line(r, i, e)>> /\ Starts(r)[i] = e + 1
    BY DEF Pieces, Starts, e
  <2>8. n + (e + 1) = (n + e) + 1
    BY <1>1, <2>1
  <2>9. QED
    BY <2>5, <2>6, <2>7, <2>8
<1>5. w[n + (l + 1)] = <<>>
  <2>1. n + (l + 1) = Len(text) + 1
    BY <1>1
  <2>2. QED
    BY <1>2, <2>1 DEF Chain
<1>6. w[n + 1] = v[1]
  <2>1. Starts(r) \in Onward(l)
    BY <1>1, PiecesTyped
  <2>2. n \in Nat /\ 1 \in 1 .. l + 1
    BY <1>1
  <2> HIDE DEF l
  <2>3. Chain(l, Pieces(r), Starts(r), v)
    BY <1>3 DEF l
  <2>4. \A i \in 1 .. l + 1 : w[n + i] = v[i]
    <3>1. l \in Nat /\ n \in Nat
      BY <1>1, <2>2
    <3>2. \A i \in 1 .. l : w[n + i] = Pieces(r)[i] \o w[n + Starts(r)[i]]
      BY <1>4
    <3> DEFINE p == Pieces(r)
               x == Starts(r)
    <3>3. /\ x \in Onward(l) /\ Chain(l, p, x, v)
          /\ \A i \in 1 .. l : w[n + i] = p[i] \o w[n + x[i]]
      BY <2>1, <2>3, <3>2
    <3> HIDE DEF p, x
    <3>4. x \in Onward(l)
      BY <3>3
    <3>5. Chain(l, p, x, v)
      BY <3>3
    <3>6. \A i \in 1 .. l : w[n + i] = p[i] \o w[n + x[i]]
      BY <3>3
    <3>7. w[n + (l + 1)] = <<>>
      BY <1>5
    <3>8. ChainFrom(n, l, p, x, w)
      BY <3>6, <3>7 DEF ChainFrom
    <3>9. QED
      BY <3>1, <3>4, <3>5, <3>8, ChainsAgree
  <2>5. QED
    BY <2>2, <2>4
<1>7. w[1] = <<Line(text, 1, n)>> \o w[n + 1]
  <2>1. 1 \in 1 .. Len(text)
    BY <1>1
  <2>2. EndOfLine(text, 1) = n
    BY <2>1, EndIs
  <2>3. QED
    BY <1>2, <2>1, <2>2 DEF Chain, Pieces, Starts
<1>8. QED
  BY <1>2, <1>3, <1>6, <1>7 DEF r

(* How a sequence of sequences is flattened.                                *)
Flattened(q, w) == \A i \in 1 .. Len(q) : w[i] = IF i = 1 THEN q[i] ELSE w[i - 1] \o q[i]

LEMMA FlattenIs ==
    ASSUME NEW C, NEW q \in Seq(Seq(C)), q # <<>>
    PROVE  \E w \in [1 .. Len(q) -> Seq(C)] :
               Flattened(q, w) /\ FlattenSeq(q) = w[Len(q)]
<1> DEFINE n == Len(q)
           D == 1 .. n
           Whole(w) == [i \in D |-> IF i = 1 THEN q[i] ELSE w[i - 1] \o q[i]]
           Good(w, k) == \A i \in 1 .. k : w[i] = IF i = 1 THEN q[i] ELSE w[i - 1] \o q[i]
           Reached == {k \in 0 .. n : \E w \in [D -> Seq(C)] : Good(w, k)}
           flatten == CHOOSE w : w = Whole(w)
<1>1. n \in Nat \ {0} /\ \A i \in D : q[i] \in Seq(C)
  BY EmptySeq
<1>2. FlattenSeq(q) = flatten[n]
  BY <1>1 DEF FlattenSeq
<1>3. 0 \in Reached
  <2>1. [i \in D |-> <<>>] \in [D -> Seq(C)]
    BY EmptySeq
  <2>2. Good([i \in D |-> <<>>], 0)
    <3> DEFINE w == [i \in D |-> <<>>]
    <3>1. 1 .. 0 = {}
      OBVIOUS
    <3> HIDE DEF w
    <3>2. QED
      BY <3>1
  <2>3. 0 \in 0 .. n
    BY <1>1
  <2> HIDE DEF Good
  <2>4. QED
    BY <2>1, <2>2, <2>3
<1>4. ASSUME NEW k \in 0 .. n, k \in Reached, k + 1 <= n PROVE k + 1 \in Reached
  <2>1. PICK w \in [D -> Seq(C)] : Good(w, k)
    BY <1>4
  <2> DEFINE m == k + 1
             e == IF m = 1 THEN q[m] ELSE w[m - 1] \o q[m]
             v == [w EXCEPT ![m] = e]
  <2>2. m \in D /\ m \in 0 .. n /\ (m # 1 => m - 1 \in D)
    BY <1>1, <1>4
  <2>3. e \in Seq(C)
    BY <1>1, <2>2, ConcatProperties
  <2>4. v \in [D -> Seq(C)] /\ v[m] = e /\ \A i \in D : i # m => v[i] = w[i]
    <3> HIDE DEF e, m
    <3>1. QED
      BY <2>2, <2>3
  <2> HIDE DEF v
  <2>5. Good(v, m)
    <3> SUFFICES ASSUME NEW i \in 1 .. m
                 PROVE  v[i] = IF i = 1 THEN q[i] ELSE v[i - 1] \o q[i]
      OBVIOUS
    <3>1. i \in D /\ (i # 1 => i - 1 \in D /\ i - 1 # m)
      BY <1>1, <2>2
    <3>2. i # 1 => v[i - 1] = w[i - 1]
      BY <2>4, <3>1
    <3>3. CASE i = m
      BY <2>4, <3>2, <3>3
    <3>4. CASE i # m
      <4>1. i \in 1 .. k
        BY <2>2, <3>4
      <4>2. w[i] = IF i = 1 THEN q[i] ELSE w[i - 1] \o q[i]
        BY <2>1, <4>1
      <4>3. QED
        BY <2>4, <3>1, <3>2, <3>4, <4>2
    <3>5. QED
      BY <3>3, <3>4
  <2> HIDE DEF Good, m
  <2>6. m \in Reached
    BY <2>2, <2>4, <2>5
  <2>7. QED
    BY <2>6 DEF m
<1>5. PICK w \in [D -> Seq(C)] : Good(w, n)
  <2> HIDE DEF Reached
  <2>1. \A k \in 0 .. n : k \in Reached
    BY <1>1, <1>3, <1>4, CountUp
  <2>2. n \in 0 .. n
    BY <1>1
  <2> HIDE DEF Good
  <2>3. QED
    BY <2>1, <2>2 DEF Reached
<1>6. w = Whole(w)
  BY <1>5
<1>7. flatten = Whole(flatten)
  <2> HIDE DEF Whole
  <2>1. QED
    BY <1>6
<1> HIDE DEF flatten
<1>8. \A i \in D : flatten[i] = IF i = 1 THEN q[i] ELSE flatten[i - 1] \o q[i]
  BY <1>7
<1> DEFINE T == {i \in 0 .. n : i = 0 \/ flatten[i] \in Seq(C)}
<1>9. \A i \in 0 .. n : i \in T
  <2>1. 0 \in T
    BY <1>1
  <2>2. ASSUME NEW i \in 0 .. n, i \in T, i + 1 <= n PROVE i + 1 \in T
    <3>1. i + 1 \in D /\ i + 1 # 0 /\ (i + 1) - 1 = i /\ i + 1 \in 0 .. n
      BY <1>1, <2>2
    <3>2. flatten[i + 1] = IF i + 1 = 1 THEN q[i + 1] ELSE flatten[i] \o q[i + 1]
      BY <1>8, <3>1
    <3>3. q[i + 1] \in Seq(C)
      BY <1>1, <3>1
    <3>4. i + 1 # 1 => flatten[i] \in Seq(C)
      BY <2>2, <1>1
    <3>5. flatten[i + 1] \in Seq(C)
      BY <3>2, <3>3, <3>4, ConcatProperties
    <3>6. QED
      BY <3>1, <3>5
  <2> HIDE DEF T
  <2>3. QED
    BY <1>1, <2>1, <2>2, CountUp
<1>10. \A i \in D : flatten[i] \in Seq(C)
  <2>1. \A i \in D : i \in 0 .. n /\ i # 0
    BY <1>1
  <2>2. QED
    BY <1>9, <2>1
<1>11. flatten \in [D -> Seq(C)]
  <2>1. flatten = [i \in D |-> flatten[i]]
    BY <1>7
  <2> HIDE DEF D, Whole
  <2>2. QED
    BY <1>10, <2>1
<1>12. QED
  BY <1>2, <1>8, <1>11 DEF Flattened

LEMMA FlattenTyped ==
    ASSUME NEW C, NEW q \in Seq(Seq(C))
    PROVE  FlattenSeq(q) \in Seq(C)
<1>1. CASE q = <<>>
  BY <1>1, EmptySeq DEF FlattenSeq
<1>2. CASE q # <<>>
  <2>1. Len(q) \in Nat \ {0}
    BY <1>2, EmptySeq
  <2>2. PICK w \in [1 .. Len(q) -> Seq(C)] : FlattenSeq(q) = w[Len(q)]
    BY <1>2, FlattenIs
  <2>3. Len(q) \in 1 .. Len(q)
    BY <2>1
  <2>4. QED
    BY <2>2, <2>3
<1>3. QED
  BY <1>1, <1>2

LEMMA FlattenCons ==
    ASSUME NEW C, NEW q \in Seq(Seq(C)), NEW x \in Seq(C)
    PROVE  FlattenSeq(<<x>> \o q) = x \o FlattenSeq(q)
<1> DEFINE t == <<x>> \o q
           n == Len(q)
<1>1. /\ t \in Seq(Seq(C)) /\ Len(t) = n + 1 /\ n \in Nat /\ t # <<>>
      /\ t[1] = x /\ \A i \in 1 .. n : t[i + 1] = q[i]
  OBVIOUS
<1> HIDE DEF t
<1>2. PICK w \in [1 .. Len(t) -> Seq(C)] : Flattened(t, w) /\ FlattenSeq(t) = w[Len(t)]
  BY <1>1, FlattenIs
<1>3. w[1] = x
  BY <1>1, <1>2 DEF Flattened
<1>4. CASE q = <<>>
  <2>1. n = 0 /\ FlattenSeq(q) = <<>>
    BY <1>4 DEF FlattenSeq
  <2>2. x \o <<>> = x
    BY ConcatEmptySeq
  <2>3. QED
    BY <1>1, <1>2, <1>3, <2>1, <2>2 DEF t
<1>5. CASE q # <<>>
  <2>1. n \in Nat \ {0} /\ \A i \in 1 .. n : q[i] \in Seq(C)
    BY <1>5, EmptySeq
  <2>2. PICK v \in [1 .. n -> Seq(C)] : Flattened(q, v) /\ FlattenSeq(q) = v[n]
    BY <1>5, FlattenIs
  <2> DEFINE T == {i \in 0 .. n : i = 0 \/ w[i + 1] = x \o v[i]}
  <2>3. 0 \in T
    BY <2>1
  <2>4. ASSUME NEW i \in 0 .. n, i \in T, i + 1 <= n PROVE i + 1 \in T
    <3>1. /\ i + 1 \in 1 .. n /\ i + 1 \in 0 .. n /\ (i + 1) + 1 \in 1 .. Len(t)
          /\ (i + 1) + 1 # 1 /\ ((i + 1) + 1) - 1 = i + 1 /\ (i + 1) - 1 = i
      BY <1>1, <2>1, <2>4
    <3>2. w[(i + 1) + 1] = w[i + 1] \o q[i + 1]
      BY <1>1, <1>2, <3>1 DEF Flattened
    <3>3. v[i + 1] = IF i + 1 = 1 THEN q[i + 1] ELSE v[i] \o q[i + 1]
      BY <2>2, <3>1 DEF Flattened
    <3>4. w[(i + 1) + 1] = x \o v[i + 1]
      <4>1. CASE i = 0
        <5>1. i + 1 = 1
          BY <4>1
        <5>2. w[i + 1] = x /\ v[i + 1] = q[i + 1]
          BY <1>3, <3>3, <5>1
        <5>3. QED
          BY <3>2, <5>2
      <4>2. CASE i # 0
        <5>0. i \in 1 .. n /\ i + 1 # 1
          BY <2>1, <4>2
        <5>1. w[i + 1] = x \o v[i] /\ v[i + 1] = v[i] \o q[i + 1]
          BY <2>4, <3>3, <4>2, <5>0
        <5>2. v[i] \in Seq(C) /\ q[i + 1] \in Seq(C)
          BY <2>1, <2>2, <3>1, <5>0
        <5>3. (x \o v[i]) \o q[i + 1] = x \o (v[i] \o q[i + 1])
          <6> DEFINE y == v[i]
                     z == q[i + 1]
          <6>1. y \in Seq(C) /\ z \in Seq(C)
            BY <5>2
          <6> HIDE DEF y, z
          <6>2. (x \o y) \o z = x \o (y \o z)
            BY <6>1, ConcatAssociative
          <6>3. QED
            BY <6>2 DEF y, z
        <5>4. QED
          BY <3>2, <5>1, <5>3
      <4>3. QED
        BY <4>1, <4>2
    <3>5. QED
      BY <3>1, <3>4
  <2> HIDE DEF T
  <2>5. \A i \in 0 .. n : i \in T
    BY <2>1, <2>3, <2>4, CountUp
  <2>6. n \in 0 .. n /\ n # 0
    BY <2>1
  <2>7. w[n + 1] = x \o v[n]
    BY <2>5, <2>6 DEF T
  <2>8. QED
    BY <1>1, <1>2, <2>2, <2>7 DEF t
<1>6. QED
  BY <1>4, <1>5

-----------------------------------------------------------------------------
(* What readline makes of a line.                                          *)

Unbroken(l) == Len(l) < LineLimit /\ \A i \in 1 .. Len(l) : l[i] # NL

(* A line whose beginning, l, has been read ends with the n-th element of   *)
(* the buffer b, and u is still to be read into it.                         *)
BufferEnds(l, b, u, n) ==
    Lines(l \o (b \o u))
      = <<l \o SubSeq(b, 1, IF b[n] = NL THEN n - 1 ELSE n)>>
        \o Lines(SubSeq(b, n + 1, Len(b)) \o u)

LEMMA NextLine ==
    ASSUME ConsoleAssumption, NEW C, NEW l \in Seq(C), NEW b \in Seq(C), NEW u \in Seq(C),
           Unbroken(l), NEW n \in 1 .. Len(b), n <= LineLimit - Len(l),
           \A j \in 1 .. (n - 1) : b[j] # NL, b[n] = NL \/ n = LineLimit - Len(l)
    PROVE  BufferEnds(l, b, u, n)
<1> DEFINE bu == b \o u
           text == l \o bu
           k == Len(l)
           m == k + n
           e == IF b[n] = NL THEN n - 1 ELSE n
           taken == SubSeq(b, 1, e)
           left == SubSeq(b, n + 1, Len(b))
<1>1. /\ k \in Nat /\ Len(b) \in Nat /\ Len(u) \in Nat /\ LineLimit \in Nat /\ n \in Nat \ {0}
  BY DEF ConsoleAssumption
<1>2. /\ bu \in Seq(C) /\ Len(bu) = Len(b) + Len(u)
      /\ \A i \in 1 .. Len(b) : bu[i] = b[i]
      /\ \A i \in 1 .. Len(u) : bu[Len(b) + i] = u[i]
  <2>1. /\ bu \in Seq(C) /\ Len(bu) = Len(b) + Len(u)
        /\ \A i \in 1 .. Len(b) + Len(u) : bu[i] = IF i <= Len(b) THEN b[i] ELSE u[i - Len(b)]
    BY ConcatProperties
  <2> HIDE DEF bu
  <2>2. ASSUME NEW i \in 1 .. Len(u) PROVE bu[Len(b) + i] = u[i]
    <3>1. /\ Len(b) + i \in 1 .. Len(b) + Len(u) /\ ~(Len(b) + i <= Len(b))
          /\ (Len(b) + i) - Len(b) = i
      BY <1>1
    <3>2. QED
      BY <2>1, <3>1
  <2>3. QED
    BY <1>1, <2>1, <2>2
<1> HIDE DEF bu
<1>3. /\ text \in Seq(C) /\ Len(text) = k + (Len(b) + Len(u))
      /\ \A i \in 1 .. k : text[i] = l[i]
      /\ \A i \in 1 .. Len(b) + Len(u) : text[k + i] = bu[i]
  <2>1. /\ text \in Seq(C) /\ Len(text) = k + Len(bu)
        /\ \A i \in 1 .. k + Len(bu) : text[i] = IF i <= k THEN l[i] ELSE bu[i - k]
    BY <1>2, ConcatProperties
  <2> HIDE DEF text, k
  <2>2. ASSUME NEW i \in 1 .. Len(b) + Len(u) PROVE text[k + i] = bu[i]
    <3>1. k + i \in 1 .. k + Len(bu) /\ ~(k + i <= k) /\ (k + i) - k = i
      BY <1>1, <1>2
    <3>2. QED
      BY <2>1, <3>1
  <2>3. QED
    BY <1>1, <1>2, <2>1, <2>2 DEF k
<1>4. \A i \in 1 .. Len(b) : text[k + i] = b[i]
  BY <1>1, <1>2, <1>3
<1> HIDE DEF text
<1>5. m \in 1 .. Len(text) /\ text[m] = b[n]
  BY <1>1, <1>3, <1>4
<1>6. IsEnd(text, 1, m)
  <2>1. \A j \in 1 .. (m - 1) : text[j] # NL
    <3> SUFFICES ASSUME NEW j \in 1 .. (m - 1) PROVE text[j] # NL
      OBVIOUS
    <3>1. CASE j <= k
      <4>1. j \in 1 .. k
        BY <1>1, <3>1
      <4>2. text[j] = l[j] /\ l[j] # NL
        BY <1>3, <4>1 DEF Unbroken
      <4>3. QED
        BY <4>2
    <3>2. CASE ~(j <= k)
      <4>1. j - k \in 1 .. n - 1 /\ j - k \in 1 .. Len(b) /\ k + (j - k) = j
        BY <1>1, <3>2
      <4>2. QED
        BY <1>4, <4>1
    <3>3. QED
      BY <3>1, <3>2
  <2>2. m <= 1 + LineLimit - 1 /\ (n = LineLimit - k => m = 1 + LineLimit - 1)
    BY <1>1
  <2>3. QED
    BY <1>5, <2>1, <2>2 DEF IsEnd
<1>7. /\ taken \in Seq(C) /\ Len(taken) = e /\ e \in Nat
      /\ \A i \in 1 .. e : taken[i] = b[i]
  <2>1. e \in 0 .. Len(b)
    BY <1>1
  <2> HIDE DEF e
  <2>2. \A i \in 1 .. e : b[i] \in C
    BY <2>1
  <2>3. /\ taken \in Seq(C)
        /\ Len(taken) = IF 1 <= e THEN e - 1 + 1 ELSE 0
        /\ \A i \in 1 .. e - 1 + 1 : taken[i] = b[1 + i - 1]
    BY <2>1, <2>2, SubSeqProperties
  <2> HIDE DEF taken
  <2>4. QED
    BY <2>1, <2>3
<1>8. Line(text, 1, m) = l \o taken
  <2> DEFINE a == Line(text, 1, m)
             c == l \o taken
  <2>1. /\ a \in Seq(C)
        /\ Len(a) = (IF text[m] = NL THEN m - 1 ELSE (m - 1) + 1)
        /\ \A j \in 1 .. Len(a) : a[j] = text[(1 + j) - 1]
    <3>1. 1 \in 1 .. Len(text) /\ m \in 1 .. Len(text)
      BY <1>1, <1>5
    <3> HIDE DEF m
    <3> HIDE DEF a
    <3>2. ASSUME NEW i \in 1 .. Len(text), m \in i .. Len(text)
          PROVE  /\ Line(text, i, m) \in Seq(C)
                 /\ Len(Line(text, i, m)) = (IF text[m] = NL THEN m - i ELSE (m - i) + 1)
                 /\ \A j \in 1 .. Len(Line(text, i, m)) : Line(text, i, m)[j] = text[(i + j) - 1]
      <4>1. text \in Seq(C)
        BY <1>3
      <4> HIDE DEF k, e
      <4>2. IsLine(C, text, i, m)
        BY <3>2, <4>1, LineTyped
      <4>3. QED
        BY <4>2, Zenon DEF IsLine
    <3>3. QED
      BY <3>1, <3>2, Zenon DEF a
  <2>2. /\ c \in Seq(C) /\ Len(c) = k + e
        /\ \A i \in 1 .. k + e : c[i] = IF i <= k THEN l[i] ELSE taken[i - k]
    <3> HIDE DEF taken, e
    <3>1. QED
      BY <1>7, ConcatProperties
  <2> HIDE DEF a, c, taken
  <2>3. Len(a) = Len(c)
    BY <1>1, <1>5, <2>1, <2>2
  <2>4. e \in 0 .. Len(b)
    BY <1>1
  <2> HIDE DEF e
  <2>5. ASSUME NEW j \in 1 .. Len(a) PROVE a[j] = c[j]
    <3>1. j \in 1 .. k + e /\ a[j] = text[j]
      BY <1>1, <1>7, <2>1, <2>2, <2>3
    <3>2. CASE j <= k
      BY <1>1, <1>3, <2>2, <3>1, <3>2
    <3>3. CASE ~(j <= k)
      <4>1. j - k \in 1 .. e /\ j - k \in 1 .. Len(b) /\ k + (j - k) = j
        BY <1>1, <1>7, <2>4, <3>1, <3>3
      <4>2. c[j] = b[j - k] /\ text[k + (j - k)] = b[j - k]
        BY <1>4, <1>7, <2>2, <3>1, <3>3, <4>1
      <4>3. QED
        BY <3>1, <4>1, <4>2
    <3>4. QED
      BY <3>2, <3>3
  <2>6. a = c
    BY <2>1, <2>2, <2>3, <2>5, SeqEqual
  <2>7. QED
    BY <2>6 DEF a, c
<1>9. SubSeq(text, m + 1, Len(text)) = left \o u
  <2> DEFINE a == SubSeq(text, m + 1, Len(text))
             c == left \o u
  <2>1. /\ a \in Seq(C) /\ Len(a) = Len(text) - m /\ \A i \in 1 .. Len(a) : a[i] = text[m + i]
    <3> HIDE DEF m
    <3>1. QED
      BY <1>3, <1>5, RestOfText
  <2>2. /\ left \in Seq(C) /\ Len(left) = Len(b) - n
        /\ \A i \in 1 .. Len(left) : left[i] = b[n + i]
    BY RestOfText
  <2> HIDE DEF left
  <2>3. /\ c \in Seq(C) /\ Len(c) = Len(left) + Len(u)
        /\ \A i \in 1 .. Len(left) + Len(u) :
              c[i] = IF i <= Len(left) THEN left[i] ELSE u[i - Len(left)]
    BY <2>2, ConcatProperties
  <2> HIDE DEF a, c
  <2>4. Len(a) = Len(c)
    BY <1>1, <1>3, <2>1, <2>2, <2>3
  <2>5. ASSUME NEW j \in 1 .. Len(a) PROVE a[j] = c[j]
    <3>0. j \in Nat \ {0} /\ j <= Len(left) + Len(u) /\ Len(left) = Len(b) - n /\ Len(left) \in Nat
      BY <1>1, <2>2, <2>3, <2>4
    <3>1. j \in 1 .. Len(left) + Len(u) /\ a[j] = text[m + j] /\ m + j = k + (n + j)
          /\ n + j \in 1 .. Len(b) + Len(u)
      <4>1. m + j = k + (n + j) /\ n + j \in 1 .. Len(b) + Len(u)
        BY <1>1, <3>0
      <4>2. j \in 1 .. Len(left) + Len(u)
        BY <1>1, <3>0
      <4>3. a[j] = text[m + j]
        BY <2>1
      <4>4. QED
        BY <4>1, <4>2, <4>3
    <3>2. a[j] = bu[n + j]
      BY <1>3, <3>1
    <3>3. CASE j <= Len(left)
      <4>1. n + j \in 1 .. Len(b) /\ j \in 1 .. Len(left)
        BY <1>1, <2>2, <3>1, <3>3
      <4>2. QED
        BY <1>2, <2>2, <2>3, <3>1, <3>2, <3>3, <4>1
    <3>4. CASE ~(j <= Len(left))
      <4>1. j - Len(left) \in 1 .. Len(u) /\ Len(b) + (j - Len(left)) = n + j
        BY <1>1, <3>0, <3>4
      <4>2. bu[Len(b) + (j - Len(left))] = u[j - Len(left)]
        BY <1>2, <4>1
      <4>3. QED
        BY <2>3, <3>1, <3>2, <3>4, <4>1, <4>2
    <3>5. QED
      BY <3>3, <3>4
  <2>6. a = c
    BY <2>1, <2>3, <2>4, <2>5, SeqEqual
  <2>7. QED
    BY <2>6 DEF a, c
<1>10. Lines(text) = <<Line(text, 1, m)>> \o Lines(SubSeq(text, m + 1, Len(text)))
  <2> HIDE DEF m
  <2>1. QED
    BY <1>3, <1>5, <1>6, LinesFirst
<1>11. QED
  BY <1>8, <1>9, <1>10, Zenon DEF text, bu, BufferEnds

(* The last line of a file need not end with a newline.                     *)
LEMMA LastLine ==
    ASSUME ConsoleAssumption, NEW C, NEW l \in Seq(C), Unbroken(l), l # <<>>
    PROVE  Lines(l) = <<l>>
<1> DEFINE n == Len(l)
           none == SubSeq(l, n + 1, n)
<1>1. n \in Nat \ {0} /\ LineLimit \in Nat
  BY EmptySeq DEF ConsoleAssumption
<1>2. l[n] # NL
  BY <1>1 DEF Unbroken
<1>3. IsEnd(l, 1, n)
  BY <1>1 DEF IsEnd, Unbroken
<1>4. Line(l, 1, n) = l
  BY <1>2, SubSeqFull DEF Line
<1>5. none = <<>>
  <2>1. n + 1 \in Int /\ n \in Int /\ n < n + 1
    BY <1>1
  <2> HIDE DEF n
  <2>2. QED
    BY <2>1, SubSeqEmpty
<1>6. Lines(l) = <<Line(l, 1, n)>> \o Lines(none)
  <2>1. n \in 1 .. Len(l)
    BY <1>1
  <2>2. QED
    BY <1>3, <2>1, LinesFirst
<1> HIDE DEF none, n
<1>7. <<l>> \o <<>> = <<l>>
  BY ConcatEmptySeq
<1>8. QED
  BY <1>4, <1>5, <1>6, <1>7, LinesOfNothing

-----------------------------------------------------------------------------
(* The lines to come.                                                      *)

RestOf(r) == r.buf \o r.unread
StackLines(s) == FlattenSeq([i \in 1 .. Len(s) |-> Lines(RestOf(s[i]))])

(* Unexecuted, and the mapping of todo, of any place, line and stack.       *)
UnexecutedAt(a, l, s) ==
    (IF a = "interpret" THEN <<l>> ELSE <<>>)
    \o FlattenSeq([i \in 1 .. Len(s) |->
           Lines(IF i = 1 THEN (IF a = "readline" THEN l ELSE <<>>) \o RestOf(s[1])
                 ELSE RestOf(s[i]))])

TodoAt(q, a, l, s) == IF q \/ a \in {"exit", "undefined"} THEN <<>> ELSE UnexecutedAt(a, l, s)

Todo == IF quit_flag \/ at \in {"exit", "undefined"} THEN <<>> ELSE Unexecuted

LEMMA TodoIs ==
    /\ Todo = TodoAt(quit_flag, at, linebuf, buf_stack)
    /\ Todo' = TodoAt(quit_flag', at', linebuf', buf_stack')
<1>1. Unexecuted = UnexecutedAt(at, linebuf, buf_stack)
  BY Zenon DEF Unexecuted, UnexecutedAt, Rest, RestOf
<1>2. Unexecuted' = UnexecutedAt(at', linebuf', buf_stack')
  BY Zenon DEF Unexecuted, UnexecutedAt, Rest, RestOf
<1>3. QED
  BY <1>1, <1>2 DEF Todo, TodoAt

LEMMA RestTyped ==
    ASSUME ConsoleAssumption, NEW r \in Stacked
    PROVE  /\ r.buf \in Seq(Character) /\ r.unread \in Seq(Character)
           /\ RestOf(r) \in Seq(Character) /\ Lines(RestOf(r)) \in Seq(Seq(Character))
<1>1. r.buf \in Seq(Character) /\ r.unread \in Seq(Character)
  BY DEF Stacked
<1>2. RestOf(r) \in Seq(Character)
  BY <1>1, ConcatProperties DEF RestOf
<1>3. QED
  BY <1>1, <1>2, LinesTyped

(* The lines to come are those of the file at the top, after what has been  *)
(* read of a line, and those of the files below it.                         *)
LEMMA UnexecutedSplit ==
    ASSUME ConsoleAssumption, NEW s \in Seq(Stacked), s # <<>>, NEW l \in Seq(Character)
    PROVE  /\ Tail(s) \in Seq(Stacked) /\ s[1] \in Stacked
           /\ StackLines(Tail(s)) \in Seq(Seq(Character))
           /\ FlattenSeq([i \in 1 .. Len(s) |->
                  Lines(IF i = 1 THEN l \o RestOf(s[1]) ELSE RestOf(s[i]))])
                = Lines(l \o RestOf(s[1])) \o StackLines(Tail(s))
<1> DEFINE n == Len(s)
           t == Tail(s)
           below == [i \in 1 .. Len(t) |-> Lines(RestOf(t[i]))]
           all == [i \in 1 .. n |->
                      Lines(IF i = 1 THEN l \o RestOf(s[1]) ELSE RestOf(s[i]))]
           x == Lines(l \o RestOf(s[1]))
           built == <<x>> \o below
<1>1. n \in Nat \ {0} /\ \A i \in 1 .. n : s[i] \in Stacked
  BY EmptySeq
<1>2. t \in Seq(Stacked) /\ Len(t) = n - 1 /\ \A i \in 1 .. Len(t) : t[i] = s[i + 1]
  BY HeadTailProperties
<1> HIDE DEF t
<1>3. \A i \in 1 .. Len(t) : Lines(RestOf(t[i])) \in Seq(Seq(Character))
  BY <1>2, RestTyped, ElementOfSeq
<1>4. below \in Seq(Seq(Seq(Character))) /\ Len(below) = n - 1
      /\ \A i \in 1 .. n - 1 : below[i] = Lines(RestOf(t[i]))
  <2>1. Len(t) \in Nat
    BY <1>1, <1>2
  <2>2. below \in [1 .. Len(t) -> Seq(Seq(Character))]
    BY <1>3, Zenon
  <2>3. \A i \in 1 .. Len(t) : below[i] = Lines(RestOf(t[i]))
    OBVIOUS
  <2> HIDE DEF below
  <2>4. below \in Seq(Seq(Seq(Character))) /\ Len(below) = Len(t)
    BY <2>1, <2>2
  <2>5. QED
    BY <1>2, <2>3, <2>4
<1>5. x \in Seq(Seq(Character))
  <2>1. RestOf(s[1]) \in Seq(Character)
    BY <1>1, RestTyped
  <2>2. l \o RestOf(s[1]) \in Seq(Character)
    BY <2>1, ConcatProperties
  <2>3. QED
    BY <2>2, LinesTyped
<1>6. FlattenSeq(below) \in Seq(Seq(Character))
  <2> HIDE DEF below
  <2>1. QED
    BY <1>4, FlattenTyped
<1>7. all = built
  <2>1. all \in [1 .. n -> Seq(Seq(Character))]
    <3>1. ASSUME NEW i \in 1 .. n
          PROVE  Lines(IF i = 1 THEN l \o RestOf(s[1]) ELSE RestOf(s[i])) \in Seq(Seq(Character))
      <4>1. CASE i = 1
        BY <1>5, <4>1
      <4>2. CASE i # 1
        <5>1. Lines(RestOf(s[i])) \in Seq(Seq(Character))
          BY <1>1, RestTyped
        <5>2. QED
          BY <4>2, <5>1
      <4>3. QED
        BY <4>1, <4>2
    <3>2. QED
      BY <3>1, Zenon
  <2>2. all[1] = x /\ \A i \in 2 .. n : all[i] = Lines(RestOf(s[i]))
    BY <1>1
  <2>3. \A i \in 1 .. n - 1 : below[i] = Lines(RestOf(s[i + 1]))
    <3>1. \A i \in 1 .. n - 1 : t[i] = s[i + 1]
      BY <1>1, <1>2
    <3> HIDE DEF below, n
    <3>2. QED
      BY <1>4, <3>1
  <2> HIDE DEF all, below, x
  <2>4. all \in Seq(Seq(Seq(Character))) /\ Len(all) = n
    BY <1>1, <2>1
  <2>5. /\ built \in Seq(Seq(Seq(Character))) /\ Len(built) = n
        /\ built[1] = x /\ \A i \in 2 .. n : built[i] = below[i - 1]
    <3>1. <<x>> \in Seq(Seq(Seq(Character))) /\ Len(<<x>>) = 1 /\ <<x>>[1] = x
      BY <1>5
    <3>2. /\ built \in Seq(Seq(Seq(Character))) /\ Len(built) = 1 + (n - 1)
          /\ \A i \in 1 .. 1 + (n - 1) : built[i] = IF i <= 1 THEN <<x>>[i] ELSE below[i - 1]
      <4> DEFINE y == <<x>>
      <4>1. y \in Seq(Seq(Seq(Character))) /\ Len(y) = 1
        BY <3>1
      <4> HIDE DEF y, n
      <4>2. /\ y \o below \in Seq(Seq(Seq(Character))) /\ Len(y \o below) = 1 + (n - 1)
            /\ \A i \in 1 .. 1 + (n - 1) : (y \o below)[i] = IF i <= 1 THEN y[i] ELSE below[i - 1]
        <5>1. /\ y \o below \in Seq(Seq(Seq(Character))) /\ Len(y \o below) = Len(y) + Len(below)
              /\ \A i \in 1 .. Len(y) + Len(below) :
                     (y \o below)[i] = IF i <= Len(y) THEN y[i] ELSE below[i - Len(y)]
          <6>1. below \in Seq(Seq(Seq(Character))) /\ y \in Seq(Seq(Seq(Character)))
            BY <1>4, <4>1
          <6> HIDE DEF below
          <6>2. QED
            BY <6>1, ConcatProperties
        <5>2. Len(y) = 1 /\ Len(below) = n - 1
          BY <1>4, <4>1
        <5>3. QED
          BY <5>1, <5>2
      <4>3. QED
        BY <4>2, Zenon DEF y
    <3> HIDE DEF built
    <3>3. QED
      BY <1>1, <3>1, <3>2
  <2>6. ASSUME NEW i \in 1 .. Len(all) PROVE all[i] = built[i]
    <3>1. CASE i = 1
      BY <2>2, <2>5, <3>1
    <3>2. CASE i # 1
      <4>1. i \in 2 .. n /\ i - 1 \in 1 .. n - 1 /\ (i - 1) + 1 = i
        BY <1>1, <2>4, <3>2
      <4>2. all[i] = Lines(RestOf(s[i])) /\ built[i] = below[i - 1]
        BY <2>2, <2>5, <4>1
      <4>3. below[i - 1] = Lines(RestOf(s[i]))
        BY <2>3, <4>1
      <4>4. QED
        BY <4>2, <4>3
    <3>3. QED
      BY <3>1, <3>2
  <2> HIDE DEF built
  <2>7. /\ all \in Seq(Seq(Seq(Character))) /\ built \in Seq(Seq(Seq(Character)))
        /\ Len(all) = Len(built)
    BY <2>4, <2>5
  <2> HIDE DEF n
  <2>8. QED
    BY <2>6, <2>7, SeqEqual
<1>8. FlattenSeq(built) = x \o FlattenSeq(below)
  <2> HIDE DEF below, x
  <2>1. QED
    BY <1>4, <1>5, FlattenCons
<1>9. StackLines(t) = FlattenSeq(below)
  BY DEF StackLines
<1>10. s[1] \in Stacked
  BY <1>1
<1> HIDE DEF built, below, all, x
<1>11. FlattenSeq(all) = x \o StackLines(t)
  BY <1>7, <1>8, <1>9
<1>12. QED
  BY <1>2, <1>6, <1>9, <1>10, <1>11 DEF all, x, t

LEMMA TodoReading ==
    ASSUME ConsoleAssumption, NEW s \in Seq(Stacked), s # <<>>, NEW l \in Seq(Character)
    PROVE  TodoAt(FALSE, "readline", l, s) = Lines(l \o RestOf(s[1])) \o StackLines(Tail(s))
<1> DEFINE x == Lines(l \o RestOf(s[1])) \o StackLines(Tail(s))
           f == FlattenSeq([i \in 1 .. Len(s) |->
                    Lines(IF i = 1 THEN l \o RestOf(s[1]) ELSE RestOf(s[i]))])
<1>1. f = x
  BY UnexecutedSplit
<1>2. x \in Seq(Seq(Character))
  <2>1. StackLines(Tail(s)) \in Seq(Seq(Character)) /\ s[1] \in Stacked
    BY UnexecutedSplit
  <2>2. l \o RestOf(s[1]) \in Seq(Character)
    BY <2>1, RestTyped, ConcatProperties
  <2>3. Lines(l \o RestOf(s[1])) \in Seq(Seq(Character))
    BY <2>2, LinesTyped
  <2>4. QED
    BY <2>1, <2>3, ConcatProperties
<1>3. TodoAt(FALSE, "readline", l, s) = <<>> \o f
  BY DEF TodoAt, UnexecutedAt
<1> HIDE DEF x, f
<1>4. <<>> \o x = x
  BY <1>2, ConcatEmptySeq
<1>5. QED
  BY <1>1, <1>3, <1>4 DEF x

LEMMA NoLines == StackLines(<<>>) = <<>>
<1>1. [i \in 1 .. Len(<<>>) |-> Lines(RestOf(<<>>[i]))] = <<>>
  OBVIOUS
<1>2. QED
  BY <1>1 DEF StackLines, FlattenSeq

LEMMA TodoElsewhere ==
    ASSUME ConsoleAssumption, NEW s \in Seq(Stacked), NEW l \in Seq(Character)
    PROVE  /\ StackLines(s) \in Seq(Seq(Character))
           /\ \A a : a \notin {"readline", "interpret", "exit", "undefined"}
                     => TodoAt(FALSE, a, l, s) = StackLines(s)
           /\ TodoAt(FALSE, "interpret", l, s) = <<l>> \o StackLines(s)
           /\ s # <<>> => StackLines(s) = Lines(RestOf(s[1])) \o StackLines(Tail(s))
<1> DEFINE f == FlattenSeq([i \in 1 .. Len(s) |->
                    Lines(IF i = 1 THEN <<>> \o RestOf(s[1]) ELSE RestOf(s[i]))])
<1>1. [i \in 1 .. Len(s) |-> Lines(IF i = 1 THEN <<>> \o RestOf(s[1]) ELSE RestOf(s[i]))]
        = [i \in 1 .. Len(s) |-> Lines(RestOf(s[i]))]
  <2>1. ASSUME NEW i \in 1 .. Len(s)
        PROVE  Lines(IF i = 1 THEN <<>> \o RestOf(s[1]) ELSE RestOf(s[i])) = Lines(RestOf(s[i]))
    <3>1. RestOf(s[i]) \in Seq(Character)
      BY RestTyped, ElementOfSeq
    <3>2. <<>> \o RestOf(s[i]) = RestOf(s[i])
      BY <3>1, ConcatEmptySeq
    <3>3. QED
      BY <3>2
  <2>2. QED
    BY <2>1, Zenon
<1>2. f = StackLines(s)
  BY <1>1 DEF StackLines
<1>3. StackLines(s) \in Seq(Seq(Character))
  <2>1. CASE s = <<>>
    BY <2>1, NoLines, EmptySeq
  <2>2. CASE s # <<>>
    <3>1. /\ StackLines(Tail(s)) \in Seq(Seq(Character)) /\ s[1] \in Stacked
          /\ f = Lines(<<>> \o RestOf(s[1])) \o StackLines(Tail(s))
      BY <2>2, EmptySeq, UnexecutedSplit
    <3> HIDE DEF f
    <3>2. <<>> \o RestOf(s[1]) \in Seq(Character)
      BY <3>1, EmptySeq, RestTyped, ConcatProperties
    <3>3. Lines(<<>> \o RestOf(s[1])) \in Seq(Seq(Character))
      BY <3>2, LinesTyped
    <3>4. QED
      BY <1>2, <3>1, <3>3, ConcatProperties
  <2>3. QED
    BY <2>1, <2>2
<1>4. s # <<>> => StackLines(s) = Lines(RestOf(s[1])) \o StackLines(Tail(s))
  <2> SUFFICES ASSUME s # <<>> PROVE StackLines(s) = Lines(RestOf(s[1])) \o StackLines(Tail(s))
    OBVIOUS
  <2>1. s[1] \in Stacked /\ f = Lines(<<>> \o RestOf(s[1])) \o StackLines(Tail(s))
    BY EmptySeq, UnexecutedSplit
  <2> HIDE DEF f
  <2>2. <<>> \o RestOf(s[1]) = RestOf(s[1])
    BY <2>1, RestTyped, ConcatEmptySeq
  <2>3. QED
    BY <1>2, <2>1, <2>2
<1>5. TodoAt(FALSE, "interpret", l, s) = <<l>> \o f
  BY DEF TodoAt, UnexecutedAt
<1>6. ASSUME NEW a, a \notin {"readline", "interpret", "exit", "undefined"}
      PROVE  TodoAt(FALSE, a, l, s) = <<>> \o f
  BY <1>6 DEF TodoAt, UnexecutedAt
<1> HIDE DEF f
<1>7. <<>> \o StackLines(s) = StackLines(s)
  BY <1>3, ConcatEmptySeq
<1>8. QED
  BY <1>2, <1>3, <1>4, <1>5, <1>6, <1>7

(* The line being read is not at its end.                                   *)
LineOpen == at = "readline" => Unbroken(linebuf)

LEMMA Taken ==
    ASSUME ConsoleAssumption, ConsoleInv, LineOpen, TakeChars
    PROVE  LET b == buf_stack[1].buf
               room == LineLimit - Len(linebuf)
           IN  \E n \in 1 .. Len(b) :
                  /\ n <= room /\ \A j \in 1 .. (n - 1) : b[j] # NL
                  /\ b[n] = NL \/ n = room \/ n = Len(b)
                  /\ linebuf' = linebuf \o SubSeq(b, 1, IF b[n] = NL THEN n - 1 ELSE n)
                  /\ buf_stack' = [buf_stack EXCEPT ![1] =
                        [fd |-> buf_stack[1].fd, unread |-> buf_stack[1].unread,
                         buf |-> SubSeq(b, n + 1, Len(b))]]
                  /\ at' = IF b[n] = NL \/ n = room THEN "interpret" ELSE "readline"
<1> DEFINE b == Head(buf_stack).buf
           room == LineLimit - Len(linebuf)
           ends == {i \in DOMAIN b : b[i] = NL}
           n == CHOOSE i \in 1 .. Len(b) :
                  /\ i \in ends \/ i = room \/ i = Len(b)
                  /\ \A j \in 1 .. (i - 1) : j \notin ends /\ j # room
           left == SubSeq(b, n + 1, Len(b))
<1>1. /\ at = "readline" /\ b # <<>>
      /\ linebuf' = linebuf \o SubSeq(b, 1, IF n \in ends THEN n - 1 ELSE n)
      /\ buf_stack' = [buf_stack EXCEPT ![1].buf = SubSeq(@, n + 1, Len(@))]
      /\ at' = IF n \in ends \/ n = room THEN "interpret" ELSE "readline"
  BY DEF TakeChars
<1>2. /\ buf_stack \in Seq(Stacked) /\ Head(buf_stack) = buf_stack[1]
      /\ buf_stack[1] \in Stacked /\ 1 \in DOMAIN buf_stack
  BY <1>1, TopOfStack
<1>3. b = buf_stack[1].buf /\ b \in Seq(Character)
  BY <1>2 DEF Stacked
<1> HIDE DEF b
<1>4. /\ n \in 1 .. Len(b)
      /\ n \in ends \/ n = room \/ n = Len(b)
      /\ \A j \in 1 .. (n - 1) : j \notin ends /\ j # room
  <2> HIDE DEF ends, room
  <2>1. \E i \in 1 .. Len(b) : /\ i \in ends \cup {room} \/ i = Len(b)
                              /\ \A j \in 1 .. (i - 1) : j \notin ends \cup {room}
    BY <1>1, <1>3, TakenEnds
  <2>2. \E i \in 1 .. Len(b) : /\ i \in ends \/ i = room \/ i = Len(b)
                              /\ \A j \in 1 .. (i - 1) : j \notin ends /\ j # room
    BY <2>1
  <2>3. QED
    BY <2>2
<1> HIDE DEF n
<1>5. Len(b) \in Nat /\ Len(linebuf) \in Nat /\ LineLimit \in Nat /\ Len(linebuf) < LineLimit
  BY <1>1, <1>3 DEF ConsoleInv, ConsoleTypeOK, ConsoleAssumption, LineOpen, Unbroken
<1>6. n <= room
  <2> SUFFICES ASSUME ~(n <= room) PROVE FALSE
    OBVIOUS
  <2>1. room \in 1 .. (n - 1)
    BY <1>4, <1>5
  <2> HIDE DEF room
  <2>2. QED
    BY <1>4, <2>1
<1>7. \A j \in 1 .. Len(b) : j \in ends <=> b[j] = NL
  BY <1>3
<1> HIDE DEF ends, room
<1>8. \A j \in 1 .. (n - 1) : b[j] # NL
  <2>1. \A j \in 1 .. (n - 1) : j \in 1 .. Len(b)
    BY <1>4, <1>5
  <2>2. QED
    BY <1>4, <1>7, <2>1
<1>9. n \in ends <=> b[n] = NL
  BY <1>4, <1>7
<1>10. buf_stack' = [buf_stack EXCEPT ![1] =
          [fd |-> buf_stack[1].fd, unread |-> buf_stack[1].unread, buf |-> left]]
  <2>1. buf_stack' = [buf_stack EXCEPT ![1] = [buf_stack[1] EXCEPT !.buf = left]]
    BY <1>1, <1>2, <1>3
  <2>2. [buf_stack[1] EXCEPT !.buf = left]
          = [fd |-> buf_stack[1].fd, unread |-> buf_stack[1].unread, buf |-> left]
    <3>1. PICK x, y, z : buf_stack[1] = [fd |-> x, unread |-> y, buf |-> z]
      BY <1>2 DEF Stacked
    <3> HIDE DEF left
    <3>2. QED
      BY <3>1
  <2>3. QED
    BY <2>1, <2>2
<1>11. linebuf' = linebuf \o SubSeq(b, 1, IF b[n] = NL THEN n - 1 ELSE n)
  BY <1>1, <1>9
<1>12. at' = IF b[n] = NL \/ n = room THEN "interpret" ELSE "readline"
  BY <1>1, <1>9
<1>13. b[n] = NL \/ n = room \/ n = Len(b)
  BY <1>4, <1>9
<1>14. QED
  BY <1>3, <1>4, <1>6, <1>8, <1>10, <1>11, <1>12, <1>13 DEF room, left

LEMMA AllTaken ==
    ASSUME NEW C, NEW l \in Seq(C), NEW b \in Seq(C), NEW u \in Seq(C), b # <<>>
    PROVE  /\ SubSeq(b, 1, Len(b)) = b /\ SubSeq(b, Len(b) + 1, Len(b)) = <<>>
           /\ (l \o b) \o (<<>> \o u) = l \o (b \o u)
<1>1. <<>> \o u = u /\ (l \o b) \o u = l \o (b \o u)
  BY ConcatEmptySeq, ConcatAssociative
<1>2. SubSeq(b, 1, Len(b)) = b
  BY SubSeqFull
<1>3. SubSeq(b, Len(b) + 1, Len(b)) = <<>>
  <2> DEFINE n == Len(b)
  <2>1. n + 1 \in Int /\ n \in Int /\ n < n + 1
    OBVIOUS
  <2> HIDE DEF n
  <2>2. SubSeq(b, n + 1, n) = <<>>
    BY <2>1, SubSeqEmpty
  <2>3. QED
    BY <2>2 DEF n
<1>4. QED
  BY <1>1, <1>2, <1>3

LEMMA LineOpenKept ==
    ASSUME ConsoleAssumption, ConsoleInv, LineOpen, ConsoleNext \/ UNCHANGED consoleVars
    PROVE  LineOpen'
<1>1. CASE cmd_select
  <2>1. linebuf' = <<>> /\ LineLimit \in Nat \ {0}
    BY <1>1 DEF cmd_select, ConsoleAssumption
  <2>2. Len(<<>>) = 0 /\ 1 .. 0 = {}
    OBVIOUS
  <2>3. QED
    BY <2>1, <2>2 DEF LineOpen, Unbroken
<1>2. CASE TakeChars
  <2> DEFINE b == buf_stack[1].buf
             room == LineLimit - Len(linebuf)
  <2>0. at = "readline" /\ buf_stack[1] \in Stacked /\ b # <<>>
    <3>1. at = "readline"
      BY <1>2 DEF TakeChars
    <3>2. Head(buf_stack) = buf_stack[1] /\ buf_stack[1] \in Stacked
      BY <3>1, TopOfStack
    <3>3. QED
      BY <1>2, <3>1, <3>2 DEF TakeChars
  <2>1. b \in Seq(Character) /\ linebuf \in Seq(Character) /\ Unbroken(linebuf)
    BY <2>0 DEF Stacked, ConsoleInv, ConsoleTypeOK, LineOpen
  <2>2. PICK n \in 1 .. Len(b) :
          /\ n <= room /\ \A j \in 1 .. (n - 1) : b[j] # NL
          /\ b[n] = NL \/ n = room \/ n = Len(b)
          /\ linebuf' = linebuf \o SubSeq(b, 1, IF b[n] = NL THEN n - 1 ELSE n)
          /\ at' = IF b[n] = NL \/ n = room THEN "interpret" ELSE "readline"
    BY <1>2, Taken
  <2> SUFFICES ASSUME at' = "readline" PROVE Unbroken(linebuf')
    BY DEF LineOpen
  <2>3. b[n] # NL /\ n # room /\ n = Len(b)
    BY <2>2
  <2>4. linebuf' = linebuf \o b
    BY <2>0, <2>1, <2>2, <2>3, EmptySeq, AllTaken
  <2> HIDE DEF b
  <2>5. /\ Len(linebuf') = Len(linebuf) + Len(b)
        /\ \A i \in 1 .. Len(linebuf) + Len(b) :
               linebuf'[i] = IF i <= Len(linebuf) THEN linebuf[i] ELSE b[i - Len(linebuf)]
    BY <2>1, <2>4, ConcatProperties
  <2>6. Len(linebuf) \in Nat /\ Len(b) \in Nat /\ LineLimit \in Nat
    BY <2>1 DEF ConsoleAssumption
  <2>7. \A j \in 1 .. Len(b) : b[j] # NL
    BY <2>2, <2>3, <2>6
  <2>8. Len(linebuf') < LineLimit
    <3>1. n <= LineLimit - Len(linebuf) /\ n # LineLimit - Len(linebuf) /\ n = Len(b)
      BY <2>2, <2>3
    <3>2. Len(linebuf) + Len(b) < LineLimit
      BY <2>6, <3>1
    <3>3. QED
      BY <2>5, <3>2
  <2>9. ASSUME NEW i \in 1 .. Len(linebuf') PROVE linebuf'[i] # NL
    <3>1. i \in 1 .. Len(linebuf) + Len(b)
      BY <2>5
    <3>2. CASE i <= Len(linebuf)
      <4>1. i \in 1 .. Len(linebuf)
        BY <2>6, <3>1, <3>2
      <4>2. QED
        BY <2>1, <2>5, <3>1, <3>2, <4>1 DEF Unbroken
    <3>3. CASE ~(i <= Len(linebuf))
      <4>1. i - Len(linebuf) \in 1 .. Len(b)
        BY <2>6, <3>1, <3>3
      <4>2. QED
        BY <2>5, <2>7, <3>1, <3>3, <4>1
    <3>4. QED
      BY <3>2, <3>3
  <2>10. QED
    BY <2>8, <2>9 DEF Unbroken
<1>3. CASE Refill \/ unblock_console \/ UNCHANGED consoleVars
  BY <1>3 DEF Refill, unblock_console, consoleVars, LineOpen
<1>4. CASE EndOfFile \/ interpret_cmd \/ finish_cmd
  <2>1. at' # "readline"
    BY <1>4 DEF EndOfFile, interpret_cmd, DoesNothing, Unknown, Operation, do_option_cmd,
         do_log_cmd, set_logfile, do_source_cmd, do_quit_cmd, SkipLine, MallocFails,
         EventClosesLog, Succeeds, Fails, Interpret, InterpretWith, finish_cmd
  <2>2. QED
    BY <2>1 DEF LineOpen
<1>5. QED
  BY <1>1, <1>2, <1>3, <1>4 DEF ConsoleNext, readline

-----------------------------------------------------------------------------
(* Every step runs a line, stops, or leaves the lines to come as they are. *)

LEMMA Typing ==
    ASSUME ConsoleInv
    PROVE  /\ buf_stack \in Seq(Stacked) /\ linebuf \in Seq(Character) /\ quit_flag \in BOOLEAN
  BY DEF ConsoleInv, ConsoleTypeOK

(* Nothing is to come of a console that is to quit, or has exited.          *)
LEMMA NothingToCome ==
    ASSUME NEW q, NEW a, NEW l, NEW s, q \/ a \in {"exit", "undefined"}
    PROVE  TodoAt(q, a, l, s) = <<>>
  BY DEF TodoAt

LEMMA SelectMaps ==
    ASSUME ConsoleAssumption, ConsoleInv, cmd_select
    PROVE  UNCHANGED <<Todo, ran>>
<1>1. /\ at = "select" /\ at' = "readline" /\ linebuf' = <<>>
      /\ UNCHANGED <<buf_stack, quit_flag, ran>>
  BY DEF cmd_select, inputVars, historyVars
<1>2. buf_stack # <<>>
  BY DEF cmd_select, read_ready, cmd_done
<1>3. buf_stack \in Seq(Stacked) /\ linebuf \in Seq(Character) /\ quit_flag \in BOOLEAN
  BY Typing
<1>4. CASE quit_flag
  <2>1. Todo = <<>> /\ Todo' = <<>>
    BY <1>1, <1>4, TodoIs, NothingToCome
  <2>2. QED
    BY <1>1, <2>1
<1>5. CASE ~quit_flag
  <2> DEFINE s == buf_stack
  <2>1. Todo = TodoAt(FALSE, "select", linebuf, s) /\ Todo' = TodoAt(FALSE, "readline", <<>>, s)
    BY <1>1, <1>3, <1>5, TodoIs
  <2>2. s \in Seq(Stacked) /\ s # <<>> /\ s[1] \in Stacked /\ <<>> \in Seq(Character)
    BY <1>2, <1>3, EmptySeq, UnexecutedSplit
  <2> HIDE DEF s
  <2>3. Todo = StackLines(s) /\ StackLines(s) = Lines(RestOf(s[1])) \o StackLines(Tail(s))
    <3>1. /\ \A a : a \notin {"readline", "interpret", "exit", "undefined"} =>
                 TodoAt(FALSE, a, linebuf, s) = StackLines(s)
          /\ StackLines(s) = Lines(RestOf(s[1])) \o StackLines(Tail(s))
      BY <1>3, <2>2, TodoElsewhere
    <3>2. QED
      BY <2>1, <3>1
  <2>4. Todo' = Lines(<<>> \o RestOf(s[1])) \o StackLines(Tail(s))
    BY <2>1, <2>2, TodoReading
  <2>5. <<>> \o RestOf(s[1]) = RestOf(s[1])
    BY <2>2, RestTyped, ConcatEmptySeq
  <2>6. QED
    BY <1>1, <2>3, <2>4, <2>5
<1>6. QED
  BY <1>3, <1>4, <1>5

Regrouped(x, y, z) == (x \o y) \o z = x \o (y \o z)

LEMMA Regroup ==
    ASSUME NEW C, NEW x \in Seq(C), NEW y \in Seq(C), NEW z \in Seq(C)
    PROVE  Regrouped(x, y, z)
  BY ConcatAssociative DEF Regrouped

(* The file at the top has been read on.                                    *)
LEMMA TopReplaced ==
    ASSUME NEW s \in Seq(Stacked), s # <<>>, NEW u \in Seq(Character), NEW b \in Seq(Character),
           NEW t, t = [s EXCEPT ![1] = [fd |-> s[1].fd, unread |-> u, buf |-> b]]
    PROVE  /\ t \in Seq(Stacked) /\ t # <<>> /\ Tail(t) = Tail(s)
           /\ t[1].buf = b /\ t[1].unread = u
<1> DEFINE r == [fd |-> s[1].fd, unread |-> u, buf |-> b]
<1>1. 1 \in 1 .. Len(s) /\ Len(s) \in Nat
  BY EmptySeq
<1>2. t \in Seq(Stacked) /\ t # <<>> /\ Len(t) = Len(s)
  BY ReadTop
<1>3. r.buf = b /\ r.unread = u
  OBVIOUS
<1> HIDE DEF r
<1>4. t = [s EXCEPT ![1] = r]
  BY DEF r
<1>5. t[1] = r /\ \A i \in 2 .. Len(s) : t[i] = s[i]
  BY <1>1, <1>4
<1>6. Tail(t) = Tail(s)
  <2>1. /\ Tail(t) \in Seq(Stacked) /\ Len(Tail(t)) = Len(t) - 1
        /\ \A i \in 1 .. Len(Tail(t)) : Tail(t)[i] = t[i + 1]
    BY <1>2, HeadTailProperties
  <2>2. /\ Tail(s) \in Seq(Stacked) /\ Len(Tail(s)) = Len(s) - 1
        /\ \A i \in 1 .. Len(Tail(s)) : Tail(s)[i] = s[i + 1]
    BY HeadTailProperties
  <2> DEFINE x == Tail(t)
             y == Tail(s)
  <2>3. x \in Seq(Stacked) /\ y \in Seq(Stacked) /\ Len(x) = Len(y)
    BY <1>2, <2>1, <2>2
  <2>4. ASSUME NEW i \in 1 .. Len(x) PROVE x[i] = y[i]
    <3>1. i + 1 \in 2 .. Len(s) /\ i \in 1 .. Len(y)
      BY <1>1, <2>2, <2>3
    <3>2. QED
      BY <1>5, <2>1, <2>2, <3>1
  <2> HIDE DEF x, y
  <2>5. x = y
    BY <2>3, <2>4, SeqEqual
  <2>6. QED
    BY <2>5 DEF x, y
<1>7. QED
  BY <1>2, <1>3, <1>5, <1>6

LEMMA TakeMaps ==
    ASSUME ConsoleAssumption, ConsoleInv, LineOpen, TakeChars
    PROVE  UNCHANGED <<Todo, ran>>
<1> DEFINE s == buf_stack
           l == linebuf
           b == s[1].buf
           u == s[1].unread
           room == LineLimit - Len(l)
<1>1. at = "readline" /\ ran' = ran /\ quit_flag' = quit_flag
  BY DEF TakeChars, historyVars
<1>2. s \in Seq(Stacked) /\ s # <<>> /\ s[1] \in Stacked /\ Head(s) = s[1]
  BY <1>1, TopOfStack
<1>3. l \in Seq(Character) /\ quit_flag \in BOOLEAN /\ Unbroken(l)
  BY <1>1, Typing DEF LineOpen
<1>4. b \in Seq(Character) /\ u \in Seq(Character) /\ RestOf(s[1]) = b \o u
  BY <1>2, RestTyped DEF RestOf
<1>5. PICK n \in 1 .. Len(b) :
          /\ n <= room /\ \A j \in 1 .. (n - 1) : b[j] # NL
          /\ b[n] = NL \/ n = room \/ n = Len(b)
          /\ linebuf' = l \o SubSeq(b, 1, IF b[n] = NL THEN n - 1 ELSE n)
          /\ buf_stack' = [s EXCEPT ![1] =
                [fd |-> s[1].fd, unread |-> u, buf |-> SubSeq(b, n + 1, Len(b))]]
          /\ at' = IF b[n] = NL \/ n = room THEN "interpret" ELSE "readline"
  BY Taken
<1>6. CASE quit_flag
  <2>1. Todo = <<>> /\ Todo' = <<>>
    BY <1>1, <1>6, TodoIs, NothingToCome
  <2>2. QED
    BY <1>1, <2>1
<1>7. CASE ~quit_flag
  <2> DEFINE left == SubSeq(b, n + 1, Len(b))
             taken == SubSeq(b, 1, IF b[n] = NL THEN n - 1 ELSE n)
             k == l \o taken
             t == [s EXCEPT ![1] = [fd |-> s[1].fd, unread |-> u, buf |-> left]]
             below == StackLines(Tail(s))
  <2>1. Todo = TodoAt(FALSE, "readline", l, s) /\ Todo' = TodoAt(FALSE, at', k, t)
    BY <1>1, <1>3, <1>5, <1>7, TodoIs
  <2>2. Todo = Lines(l \o (b \o u)) \o below
    BY <1>2, <1>3, <1>4, <2>1, TodoReading
  <2>3. left \in Seq(Character)
    BY <1>4, RestOfText
  <2>4. k \in Seq(Character)
    <3>1. linebuf' \in Seq(Character)
      BY TakeCharsInv DEF ConsoleInv, ConsoleTypeOK
    <3>2. QED
      BY <1>5, <3>1
  <2>5. below \in Seq(Seq(Character))
    BY <1>2, EmptySeq, UnexecutedSplit
  <2>6. t \in Seq(Stacked) /\ t # <<>> /\ RestOf(t[1]) = left \o u /\ Tail(t) = Tail(s)
    <3>1. t = [s EXCEPT ![1] = [fd |-> s[1].fd, unread |-> u, buf |-> left]]
      OBVIOUS
    <3> HIDE DEF s, b, u, left, t
    <3>2. /\ t \in Seq(Stacked) /\ t # <<>> /\ Tail(t) = Tail(s)
          /\ t[1].buf = left /\ t[1].unread = u
      <4>1. s \in Seq(Stacked) /\ s # <<>> /\ u \in Seq(Character)
        BY <1>2, <1>4
      <4>2. QED
        BY <2>3, <3>1, <4>1, TopReplaced
    <3>3. QED
      BY <3>2 DEF RestOf
  <2>7. CASE b[n] = NL \/ n = room
    <3>1. at' = "interpret"
      BY <1>5, <2>7
    <3>2. Lines(l \o (b \o u)) = <<k>> \o Lines(left \o u)
      <4> HIDE DEF b, u, l
      <4>1. n <= LineLimit - Len(l) /\ (b[n] = NL \/ n = LineLimit - Len(l))
            /\ \A j \in 1 .. (n - 1) : b[j] # NL
        BY <1>5, <2>7
      <4>2. Lines(l \o (b \o u))
              = <<l \o SubSeq(b, 1, IF b[n] = NL THEN n - 1 ELSE n)>>
                \o Lines(SubSeq(b, n + 1, Len(b)) \o u)
        <5> HIDE DEF left, taken, k, t, below, room, s
        <5>1. l \in Seq(Character) /\ b \in Seq(Character) /\ u \in Seq(Character) /\ Unbroken(l)
          BY <1>3, <1>4
        <5>2. n \in 1 .. Len(b)
          OBVIOUS
        <5>3. BufferEnds(l, b, u, n)
          BY <4>1, <5>1, <5>2, NextLine
        <5>4. QED
          BY <5>3, Zenon DEF BufferEnds
      <4>3. QED
        BY <4>2, Zenon
    <3> HIDE DEF s, l, b, u, left, taken, k, t
    <3>3. /\ Todo' = <<k>> \o StackLines(t)
          /\ StackLines(t) = Lines(RestOf(t[1])) \o StackLines(Tail(t))
      BY <2>1, <2>4, <2>6, <3>1, TodoElsewhere
    <3>4. StackLines(t) = Lines(left \o u) \o below
      BY <2>6, <3>3
    <3>5. <<k>> \in Seq(Seq(Character))
      BY <2>4
    <3>6. Lines(left \o u) \in Seq(Seq(Character))
      <4>1. left \o u \in Seq(Character)
        BY <1>4, <2>3, ConcatProperties
      <4>2. QED
        BY <4>1, LinesTyped
    <3>7. (<<k>> \o Lines(left \o u)) \o below = <<k>> \o (Lines(left \o u) \o below)
      <4> DEFINE x == <<k>>
                 y == Lines(left \o u)
      <4>1. x \in Seq(Seq(Character)) /\ y \in Seq(Seq(Character)) /\ below \in Seq(Seq(Character))
        BY <2>5, <3>5, <3>6
      <4> HIDE DEF x, y, below
      <4>2. Regrouped(x, y, below)
        BY <4>1, Regroup
      <4>3. QED
        BY <4>2, Zenon DEF x, y, Regrouped
    <3>8. QED
      BY <1>1, <2>2, <3>2, <3>3, <3>4, <3>7
  <2>8. CASE ~(b[n] = NL \/ n = room)
    <3>1. at' = "readline" /\ n = Len(b) /\ taken = SubSeq(b, 1, Len(b))
      BY <1>5, <2>8
    <3>2. b # <<>>
      BY <1>2 DEF TakeChars
    <3>3. k = l \o b /\ left = <<>> /\ (l \o b) \o (<<>> \o u) = l \o (b \o u)
      <4>1. l \in Seq(Character) /\ b \in Seq(Character) /\ u \in Seq(Character)
        BY <1>3, <1>4
      <4> HIDE DEF l, b, u
      <4>2. /\ SubSeq(b, 1, Len(b)) = b /\ SubSeq(b, Len(b) + 1, Len(b)) = <<>>
            /\ (l \o b) \o (<<>> \o u) = l \o (b \o u)
        BY <3>2, <4>1, AllTaken
      <4>3. left = SubSeq(b, Len(b) + 1, Len(b))
        BY <3>1
      <4>4. k = l \o SubSeq(b, 1, Len(b))
        BY <3>1
      <4>5. QED
        BY <4>2, <4>3, <4>4
    <3> HIDE DEF s, l, b, u, left, taken, k, t
    <3>4. Todo' = Lines(k \o RestOf(t[1])) \o StackLines(Tail(t))
      BY <2>1, <2>4, <2>6, <3>1, TodoReading
    <3>5. k \o RestOf(t[1]) = l \o (b \o u)
      BY <2>6, <3>3
    <3>6. QED
      BY <1>1, <2>2, <2>6, <3>4, <3>5
  <2>9. QED
    BY <2>7, <2>8
<1>8. QED
  BY <1>3, <1>6, <1>7

LEMMA RefillMaps ==
    ASSUME ConsoleAssumption, ConsoleInv, Refill
    PROVE  UNCHANGED <<Todo, ran>>
<1> DEFINE s == buf_stack
           l == linebuf
           v == s[1].unread
<1>1. at = "readline" /\ UNCHANGED <<ran, quit_flag, at, linebuf>> /\ Head(s).buf = <<>>
  BY DEF Refill, historyVars
<1>2. s \in Seq(Stacked) /\ s # <<>> /\ s[1] \in Stacked /\ Head(s) = s[1]
  BY <1>1, TopOfStack
<1>3. l \in Seq(Character) /\ quit_flag \in BOOLEAN
  BY Typing
<1>4. v \in Seq(Character) /\ RestOf(s[1]) = v
  <2>1. v \in Seq(Character) /\ s[1].buf = <<>>
    BY <1>1, <1>2, RestTyped
  <2>2. <<>> \o v = v
    BY <2>1, ConcatEmptySeq
  <2>3. QED
    BY <2>1, <2>2 DEF RestOf
<1>5. PICK n \in 1 .. Buffer :
          /\ n <= Len(v)
          /\ buf_stack' = [s EXCEPT ![1] =
                [fd |-> s[1].fd, unread |-> SubSeq(v, n + 1, Len(v)), buf |-> SubSeq(v, 1, n)]]
  <2>1. PICK n \in 1 .. Buffer :
          /\ n <= Len(Head(s).unread)
          /\ buf_stack' = [s EXCEPT ![1] =
                [fd |-> Head(s).fd,
                 unread |-> SubSeq(Head(s).unread, n + 1, Len(Head(s).unread)),
                 buf |-> SubSeq(Head(s).unread, 1, n)]]
    BY DEF Refill
  <2>2. QED
    BY <1>2, <2>1
<1> DEFINE b == SubSeq(v, 1, n)
           u == SubSeq(v, n + 1, Len(v))
           t == [s EXCEPT ![1] = [fd |-> s[1].fd, unread |-> u, buf |-> b]]
<1>6. n \in 1 .. Len(v) /\ Len(v) \in Nat
  BY <1>4, <1>5 DEF ConsoleAssumption
<1> HIDE DEF v
<1>7. u \in Seq(Character) /\ b \in Seq(Character)
  <2>1. u \in Seq(Character)
    BY <1>4, <1>6, RestOfText
  <2>2. \A i \in 1 .. n : v[i] \in Character
    BY <1>4, <1>6
  <2>3. n \in Int
    BY <1>6
  <2>4. QED
    BY <2>1, <2>2, <2>3, SubSeqProperties
<1>8. b \o u = v
  <2>1. 1 \in 1 .. Len(v) + 1 /\ n \in 1 - 1 .. Len(v) /\ Len(v) \in n .. Len(v)
    BY <1>6
  <2>2. SubSeq(v, 1, n) \o SubSeq(v, n + 1, Len(v)) = SubSeq(v, 1, Len(v))
    BY <1>4, <2>1, ConcatAdjacentSubSeq
  <2>3. QED
    BY <1>4, <2>2, SubSeqFull
<1>9. t \in Seq(Stacked) /\ t # <<>> /\ RestOf(t[1]) = b \o u /\ Tail(t) = Tail(s)
  <2>1. t = [s EXCEPT ![1] = [fd |-> s[1].fd, unread |-> u, buf |-> b]]
    OBVIOUS
  <2> HIDE DEF s, b, u, t
  <2>2. /\ t \in Seq(Stacked) /\ t # <<>> /\ Tail(t) = Tail(s)
        /\ t[1].buf = b /\ t[1].unread = u
    BY <1>2, <1>7, <2>1, TopReplaced
  <2>3. QED
    BY <2>2 DEF RestOf
<1>10. CASE quit_flag
  <2>1. Todo = <<>> /\ Todo' = <<>>
    BY <1>1, <1>10, TodoIs, NothingToCome
  <2>2. QED
    BY <1>1, <2>1
<1>11. CASE ~quit_flag
  <2>1. Todo = TodoAt(FALSE, "readline", l, s) /\ Todo' = TodoAt(FALSE, "readline", l, t)
    BY <1>1, <1>3, <1>5, <1>11, TodoIs
  <2> HIDE DEF s, l, t, b, u
  <2>2. Todo = Lines(l \o RestOf(s[1])) \o StackLines(Tail(s))
    BY <1>2, <1>3, <2>1, TodoReading
  <2>3. Todo' = Lines(l \o RestOf(t[1])) \o StackLines(Tail(t))
    BY <1>3, <1>9, <2>1, TodoReading
  <2>4. QED
    BY <1>1, <1>4, <1>8, <1>9, <2>2, <2>3
<1>12. QED
  BY <1>3, <1>10, <1>11

LEMMA EndMaps ==
    ASSUME ConsoleAssumption, ConsoleInv, LineOpen, EndOfFile
    PROVE  UNCHANGED <<Todo, ran>>
<1> DEFINE s == buf_stack
           l == linebuf
           t == Tail(s)
<1>1. /\ at = "readline" /\ UNCHANGED <<ran, quit_flag, linebuf>>
      /\ Head(s).buf = <<>> /\ Head(s).unread = <<>> /\ buf_stack' = t
      /\ at' = IF l = <<>> THEN "select" ELSE "interpret"
  BY DEF EndOfFile, pop_file, historyVars
<1>2. s \in Seq(Stacked) /\ s # <<>> /\ s[1] \in Stacked /\ Head(s) = s[1]
  BY <1>1, TopOfStack
<1>3. l \in Seq(Character) /\ quit_flag \in BOOLEAN /\ Unbroken(l)
  BY <1>1, Typing DEF LineOpen
<1>4. t \in Seq(Stacked) /\ StackLines(t) \in Seq(Seq(Character))
  BY <1>2, EmptySeq, UnexecutedSplit
<1>5. l \o RestOf(s[1]) = l
  <2>1. RestOf(s[1]) = <<>> \o <<>> /\ <<>> \o <<>> = <<>> /\ l \o <<>> = l
    BY <1>1, <1>2, <1>3, EmptySeq, ConcatEmptySeq DEF RestOf
  <2>2. QED
    BY <2>1
<1>6. CASE quit_flag
  <2>1. Todo = <<>> /\ Todo' = <<>>
    BY <1>1, <1>6, TodoIs, NothingToCome
  <2>2. QED
    BY <1>1, <2>1
<1>7. CASE ~quit_flag
  <2>1. Todo = TodoAt(FALSE, "readline", l, s) /\ Todo' = TodoAt(FALSE, at', l, t)
    BY <1>1, <1>3, <1>7, TodoIs
  <2>2. Todo = Lines(l) \o StackLines(t)
    BY <1>2, <1>3, <1>5, <2>1, TodoReading
  <2>3. CASE l = <<>>
    <3>1. Todo' = StackLines(t)
      <4> HIDE DEF l, t
      <4>1. at' = "select"
        BY <1>1, <2>3
      <4>2. QED
        BY <1>3, <1>4, <2>1, <4>1, TodoElsewhere
    <3>2. Lines(l) = <<>> /\ <<>> \o StackLines(t) = StackLines(t)
      BY <1>4, <2>3, LinesOfNothing, ConcatEmptySeq
    <3>3. QED
      BY <1>1, <2>2, <3>1, <3>2
  <2>4. CASE l # <<>>
    <3>1. Todo' = <<l>> \o StackLines(t)
      <4> HIDE DEF l, t
      <4>1. at' = "interpret"
        BY <1>1, <2>4
      <4>2. QED
        BY <1>3, <1>4, <2>1, <4>1, TodoElsewhere
    <3>2. Lines(l) = <<l>>
      BY <1>3, <2>4, LastLine
    <3>3. QED
      BY <1>1, <2>2, <3>1, <3>2
  <2>5. QED
    BY <2>3, <2>4
<1>8. QED
  BY <1>3, <1>6, <1>7

LEMMA Runs ==
    ASSUME Todo # <<>>, ran' = Append(ran, Head(Todo)),
           \/ Todo' = Tail(Todo) \/ Todo' = <<>>
           \/ \E f \in Sources(Head(Todo)) : Todo' = Text(f) \o Tail(Todo)
    PROVE  S!Run
<1>1. CASE Todo' = Tail(Todo)
  <2> HIDE DEF Todo
  <2>1. QED
    BY <1>1 DEF S!Run, Todo
<1>2. CASE Todo' = <<>>
  <2> HIDE DEF Todo
  <2>1. QED
    BY <1>2 DEF S!Run, Todo
<1>3. CASE \E f \in Sources(Head(Todo)) : Todo' = Text(f) \o Tail(Todo)
  BY <1>3 DEF S!Run, Todo
<1>4. QED
  BY <1>1, <1>2, <1>3

LEMMA HeadAndTail ==
    ASSUME NEW C, NEW x \in C, NEW q \in Seq(C)
    PROVE  <<x>> \o q # <<>> /\ Head(<<x>> \o q) = x /\ Tail(<<x>> \o q) = q
<1> DEFINE t == <<x>> \o q
<1>1. /\ t \in Seq(C) /\ Len(t) = Len(q) + 1 /\ Len(q) \in Nat
      /\ t[1] = x /\ \A i \in 1 .. Len(q) : t[i + 1] = q[i]
  OBVIOUS
<1> HIDE DEF t
<1>2. t # <<>>
  <2>1. Len(<<>>) = 0
    BY EmptySeq
  <2>2. QED
    BY <1>1, <2>1
<1>3. Tail(t) = q
  <2> DEFINE r == Tail(t)
  <2>1. r \in Seq(C) /\ Len(r) = Len(t) - 1 /\ \A i \in 1 .. Len(r) : r[i] = t[i + 1]
    BY <1>1, <1>2, HeadTailProperties
  <2> HIDE DEF r
  <2>2. Len(r) = Len(q)
    BY <1>1, <2>1
  <2>3. \A i \in 1 .. Len(r) : r[i] = q[i]
    BY <1>1, <2>1, <2>2
  <2>4. r = q
    BY <2>1, <2>2, <2>3, SeqEqual
  <2>5. QED
    BY <2>4 DEF r
<1>4. Head(t) = x
  BY <1>1, <1>2
<1>5. QED
  BY <1>2, <1>3, <1>4 DEF t

(* A line has been executed, and its file may have been pushed.             *)
LEMMA ExecutedMaps ==
    ASSUME ConsoleAssumption, ConsoleInv, ConsoleInv',
           at = "interpret", ~quit_flag, at' = "select", ran' = Append(ran, linebuf),
           \/ quit_flag' = TRUE
           \/ buf_stack' = buf_stack
           \/ \E f \in Sources(linebuf), fd \in Nat : buf_stack' = <<Reader(f, fd)>> \o buf_stack
    PROVE  S!Run
<1> DEFINE s == buf_stack
           q == StackLines(s)
<1>1. /\ s \in Seq(Stacked) /\ linebuf \in Seq(Character) /\ quit_flag = FALSE
      /\ quit_flag' \in BOOLEAN /\ buf_stack' \in Seq(Stacked) /\ linebuf' \in Seq(Character)
  BY DEF ConsoleInv, ConsoleTypeOK
<1>2. Todo = TodoAt(FALSE, "interpret", linebuf, s)
      /\ Todo' = TodoAt(quit_flag', "select", linebuf', buf_stack')
  BY <1>1, TodoIs
<1>3. Todo = <<linebuf>> \o q /\ q \in Seq(Seq(Character))
  <2> HIDE DEF s
  <2>1. QED
    BY <1>1, <1>2, TodoElsewhere
<1>4. Todo # <<>> /\ Head(Todo) = linebuf /\ Tail(Todo) = q
  <2> HIDE DEF q
  <2>1. QED
    BY <1>1, <1>3, HeadAndTail
<1>5. quit_flag' = FALSE => Todo' = StackLines(buf_stack')
  <2> SUFFICES ASSUME quit_flag' = FALSE PROVE Todo' = StackLines(buf_stack')
    OBVIOUS
  <2> DEFINE a == "select"
             l == linebuf'
             t == buf_stack'
  <2>1. Todo' = TodoAt(FALSE, a, l, t) /\ a \notin {"readline", "interpret", "exit", "undefined"}
        /\ t \in Seq(Stacked) /\ l \in Seq(Character)
    BY <1>1, <1>2
  <2> HIDE DEF a, l, t
  <2>2. Todo' = StackLines(t)
    BY <2>1, TodoElsewhere
  <2>3. QED
    BY <2>2 DEF t
<1>6. CASE quit_flag' = TRUE
  <2>1. Todo' = <<>>
    BY <1>2, <1>6, NothingToCome
  <2>2. QED
    BY <1>4, <2>1, Runs
<1>7. CASE quit_flag' = FALSE
  <2>1. Todo' = StackLines(buf_stack')
    BY <1>5, <1>7
  <2>2. CASE buf_stack' = buf_stack
    <3>1. Todo' = Tail(Todo)
      BY <1>4, <2>1, <2>2
    <3>2. QED
      BY <1>4, <3>1, Runs
  <2>3. CASE \E f \in Sources(linebuf), fd \in Nat : buf_stack' = <<Reader(f, fd)>> \o buf_stack
    <3>1. PICK f \in Sources(linebuf), fd \in Nat : buf_stack' = <<Reader(f, fd)>> \o s
      BY <2>3
    <3>2. f \in File
      BY DEF Sources
    <3> DEFINE r == Reader(f, fd)
               t == <<r>> \o s
    <3>3. r \in Stacked /\ RestOf(r) = <<>> \o Content[f]
      BY <3>2, OpenedTop DEF Reader, RestOf
    <3>4. Content[f] \in Seq(Character)
      BY <3>3, RestTyped DEF Reader
    <3>5. RestOf(r) = Content[f]
      BY <3>3, <3>4, ConcatEmptySeq
    <3> HIDE DEF r, q
    <3>6. /\ t # <<>> /\ Head(t) = r /\ Tail(t) = s /\ t \in Seq(Stacked)
      <4>1. t # <<>> /\ Head(t) = r /\ Tail(t) = s
        BY <1>1, <3>3, HeadAndTail
      <4>2. t \in Seq(Stacked)
        BY <1>1, <3>1 DEF r
      <4>3. QED
        BY <4>1, <4>2
    <3> HIDE DEF t, s
    <3>7. t[1] = r
      BY <3>6
    <3>8. StackLines(t) = Lines(RestOf(t[1])) \o StackLines(Tail(t))
      BY <1>1, <3>6, TodoElsewhere
    <3>9. Todo' = Text(f) \o q
      BY <2>1, <3>1, <3>5, <3>6, <3>7, <3>8 DEF Text, t, r, q
    <3>10. f \in Sources(Head(Todo)) /\ Todo' = Text(f) \o Tail(Todo)
      BY <1>4, <3>9
    <3>11. QED
      BY <1>4, <3>10, Runs
  <2>4. QED
    BY <1>7, <2>2, <2>3
<1>8. QED
  BY <1>1, <1>6, <1>7

LEMMA Stops ==
    ASSUME Todo' = <<>>, ran' = ran
    PROVE  S!Stop
  BY DEF S!Stop, Todo

LEMMA InterpretMaps ==
    ASSUME ConsoleAssumption, ConsoleInv, ConsoleInv', interpret_cmd
    PROVE  S!Run \/ S!Stop \/ UNCHANGED <<Todo, ran>>
<1>1. CASE DoesNothing \/ Unknown \/ Operation \/ do_option_cmd \/ do_log_cmd
  <2>1. /\ at = "interpret" /\ ~quit_flag /\ at' = "select" /\ ran' = Append(ran, linebuf)
        /\ buf_stack' = buf_stack
    BY <1>1 DEF DoesNothing, Unknown, Operation, do_option_cmd, do_log_cmd, set_logfile,
         Succeeds, Fails, Interpret, InterpretWith, inputVars
  <2>2. QED
    BY <2>1, ExecutedMaps
<1>2. CASE do_source_cmd
  <2>1. /\ at = "interpret" /\ ~quit_flag /\ at' = "select" /\ ran' = Append(ran, linebuf)
    BY <1>2 DEF do_source_cmd, Fails, Interpret, InterpretWith
  <2>2. CASE push_file
    <3>1. PICK f \in Sources(linebuf), fd \in Fd \ open :
              buf_stack' = <<Reader(f, fd)>> \o buf_stack
      BY <2>2 DEF push_file, NewFd
    <3>2. fd \in Nat
      BY DEF ConsoleAssumption
    <3>3. QED
      BY <2>1, <3>1, <3>2, ExecutedMaps
  <2>3. CASE UNCHANGED inputVars
    BY <2>1, <2>3, ExecutedMaps DEF inputVars
  <2>4. QED
    BY <1>2, <2>2, <2>3 DEF do_source_cmd
<1>3. CASE do_quit_cmd
  <2>1. /\ at = "interpret" /\ ~quit_flag /\ at' = "select" /\ ran' = Append(ran, linebuf)
        /\ quit_flag' = TRUE
    BY <1>3 DEF do_quit_cmd
  <2>2. QED
    BY <2>1, ExecutedMaps
<1>4. CASE SkipLine
  <2>1. quit_flag /\ quit_flag' /\ ran' = ran
    BY <1>4 DEF SkipLine, historyVars
  <2>2. Todo = <<>> /\ Todo' = <<>>
    BY <2>1, TodoIs, NothingToCome
  <2>3. QED
    BY <2>1, <2>2
<1>5. CASE MallocFails \/ EventClosesLog
  <2>1. at' \in {"exit", "undefined"} /\ ran' = ran
    BY <1>5 DEF MallocFails, EventClosesLog, historyVars
  <2>2. Todo' = <<>>
    BY <2>1, TodoIs, NothingToCome
  <2>3. QED
    BY <2>1, <2>2, Stops
<1>6. QED
  BY <1>1, <1>2, <1>3, <1>4, <1>5 DEF interpret_cmd

LEMMA NextMaps ==
    ASSUME ConsoleAssumption, ConsoleInv, ConsoleInv', LineOpen, [ConsoleNext]_consoleVars
    PROVE  S!Run \/ S!Stop \/ UNCHANGED <<Todo, ran>>
<1>1. CASE cmd_select
  BY <1>1, SelectMaps
<1>2. CASE readline
  BY <1>2, TakeMaps, RefillMaps, EndMaps DEF readline
<1>3. CASE interpret_cmd
  BY <1>3, InterpretMaps
<1>4. CASE finish_cmd
  <2>1. quit_flag' = TRUE /\ ran' = ran
    BY <1>4 DEF finish_cmd, historyVars
  <2>2. Todo' = <<>>
    BY <2>1, TodoIs, NothingToCome
  <2>3. QED
    BY <2>1, <2>2, Stops
<1>5. CASE unblock_console \/ UNCHANGED consoleVars
  <2>1. UNCHANGED <<buf_stack, linebuf, quit_flag, at, ran>>
    BY <1>5 DEF unblock_console, consoleVars, inputVars, historyVars
  <2>2. QED
    BY <2>1, TodoIs
<1>6. QED
  BY <1>1, <1>2, <1>3, <1>4, <1>5 DEF ConsoleNext

LEMMA InitMaps ==
    ASSUME ConsoleAssumption, ConsoleInit
    PROVE  S!Init
<1>1. PICK f \in File : buf_stack = <<Reader(f, 0)>>
  BY DEF ConsoleInit
<1> DEFINE r == Reader(f, 0)
           s == <<r>>
<1>2. at = "select" /\ linebuf = <<>> /\ quit_flag = FALSE /\ ran = <<>> /\ buf_stack = s
  BY <1>1 DEF ConsoleInit
<1>3. r \in Stacked /\ RestOf(r) = <<>> \o Content[f]
  <2>1. 0 \in Nat
    OBVIOUS
  <2>2. QED
    BY <2>1, OpenedTop DEF Reader, RestOf
<1>4. Content[f] \in Seq(Character)
  BY <1>3, RestTyped DEF Reader
<1>5. RestOf(r) = Content[f] /\ Lines(Content[f]) \in Seq(Seq(Character))
  BY <1>3, <1>4, ConcatEmptySeq, LinesTyped
<1> HIDE DEF r
<1>6. s \in Seq(Stacked) /\ s # <<>> /\ s[1] = r /\ Tail(s) = <<>>
  BY <1>3
<1> HIDE DEF s
<1>7. StackLines(s) = Lines(RestOf(s[1])) \o StackLines(Tail(s)) /\ Todo = StackLines(s)
  <2> DEFINE a == "select"
             l == linebuf
  <2>1. /\ a \notin {"readline", "interpret", "exit", "undefined"} /\ l \in Seq(Character)
        /\ Todo = TodoAt(FALSE, a, l, s)
    BY <1>2, EmptySeq, TodoIs
  <2> HIDE DEF a, l
  <2>2. QED
    BY <1>6, <2>1, TodoElsewhere
<1>8. Todo = Lines(Content[f])
  <2>1. Todo = Lines(Content[f]) \o <<>>
    BY <1>5, <1>6, <1>7, NoLines
  <2>2. QED
    BY <1>5, <2>1, ConcatEmptySeq
<1>9. QED
  BY <1>2, <1>8 DEF S!Init, Text, Todo

(* However the reads cut the files up and however deep files source others, *)
(* the lines are executed in the order Script gives them.                   *)
THEOREM ScriptIsFollowed == ConsoleSpec => ImplementsScript
<1>1. ConsoleInit => LineOpen
  BY DEF ConsoleInit, LineOpen
<1>2. ConsoleInv /\ LineOpen /\ [ConsoleNext]_consoleVars => LineOpen'
  BY ConsoleAssumption, LineOpenKept
<1>3. ConsoleInit => S!Init
  BY ConsoleAssumption, InitMaps
<1>4. ConsoleInv /\ ConsoleInv' /\ LineOpen /\ [ConsoleNext]_consoleVars => [S!Run \/ S!Stop]_<<Todo, ran>>
  BY ConsoleAssumption, NextMaps
<1>5. ConsoleSpec => []LineOpen
  BY <1>1, <1>2, ConsoleIsInv, PTL DEF ConsoleSpec
<1>6. ConsoleSpec => S!Init /\ [][S!Run \/ S!Stop]_<<Todo, ran>>
  BY <1>3, <1>4, <1>5, ConsoleIsInv, PTL DEF ConsoleSpec
<1>7. S!Spec <=> (S!Init /\ [][S!Run \/ S!Stop]_<<Todo, ran>>)
  BY DEF S!Spec, S!vars, Todo
<1>8. QED
  BY <1>6, <1>7 DEF ImplementsScript

==============================================================================
