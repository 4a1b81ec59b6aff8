------------------------------- MODULE Diceware -------------------------------
(***************************************************************************)
(* diceware_encode and diceware_decode of codec.c.  The words are a number *)
(* below a power of 7776, while a master secret has a whole number of      *)
(* blocks of 16 bits: to give the other numbers of that size a use as      *)
(* well, the number is stored as one of the master secrets that the cipher *)
(* leads to from it outside the numbers of words, chosen by the seed.      *)
(*                                                                         *)
(* Numbers are integers here (Fixnum and Base are about their limbs), and  *)
(* their sizes are parameters, so that all of a chain can be explored.     *)
(* The cipher is any permutation: its pairs are drawn when they are first  *)
(* asked for (LRCipher is about one being a permutation).                  *)
(***************************************************************************)
EXTENDS Integers, FiniteSets

CONSTANTS
  WordCount,    \* 7776
  Unit,         \* 16, the bits in a block
  MinBlocks,    \* 8
  MaxBlocks,    \* 32
  MaxShift,     \* 16, the most that fixnum_shr shifts by
  ShiftRange,   \* 256, a shift is a uint8_t
  Counter,      \* 2^16, the counter of fixnum_popcnt is a uint16_t
  Memory,       \* what may be in its memory before
  MaxWords,     \* bound: of the words typed
  Values        \* bound: the numbers that are typed and that chains go through

ASSUME SizesAssumption ==
  /\ {WordCount, Unit, MinBlocks, MaxBlocks, ShiftRange, Counter, MaxWords} \subseteq Nat \ {0}
  /\ WordCount > 1 /\ MinBlocks <= MaxBlocks /\ MaxShift \in Nat /\ Values \subseteq Nat
ASSUME MemoryAssumption == Memory \subseteq 0 .. Counter - 1

VARIABLES
  phase,    \* what the program does, or how it ended
  typed,    \* the words typed: how many, and their number
  cipher,   \* the pairs of the cipher drawn so far
  bits,     \* 8 * *n, the size of the master secret
  out,      \* the master secret in the making, and bs->s.a when decoding
  m,        \* how many values follow in the chain that are no words
  h,        \* how many of the random numbers choose the same value
  d,        \* the divisor
  g,        \* how far to go back in the chain
  words     \* the words that come back

vars == <<phase, typed, cipher, bits, out, m, h, d, g, words>>

Log2(x)      == CHOOSE l \in 0 .. x : 2^l <= x /\ x < 2^(l + 1)
Blocks(log2) == (log2 + Unit - 1) \div Unit

(* How many numbers k words have: fixnum_mul16, once for every word, and   *)
(* what is left of it in the largest numbers there are.                    *)
Power[k \in Nat] == IF k = 0 THEN 1 ELSE Power[k - 1] * WordCount

Limit       == 2^(Unit * MaxBlocks)
Truncated(k) == Power[k] % Limit

(* The size in bits of the master secret that k words are stored as. *)
SizeOf(k) == Unit * Blocks(Log2(Truncated(k)))

None    == [count |-> 0, number |-> 0]
Divisor == [log2 |-> 0, pure |-> FALSE, value |-> 1]

Init ==
  /\ phase = "checking"
  /\ typed \in [count : 1 .. MaxWords, number : Values]
  /\ typed.number < Power[typed.count]
  /\ cipher = {} /\ bits = 0 /\ out = 0 /\ m = 0 /\ h = 0
  /\ d = Divisor /\ g = 0 /\ words = None
------------------------------------------------------------------------------
(* What a value that was not asked for before can lead to. *)
Images == {y \in Values : y < 2^bits /\ \A p \in cipher : p[2] # y}

(* fixnum_sub_fixnum of max and x gives a borrow. *)
Outside(x, max) == x > max

(* The largest number of the words, cut off to the size of the secret. *)
Max == (Power[typed.count] - 1) % 2^bits

(* base_decode_fixnum, which returns before the last word is added when    *)
(* the words before it have no room.                                       *)
Stored(x, size) ==
  (IF x - (x % WordCount) < 2^size THEN x ELSE x - (x % WordCount)) % 2^size

(* The checks on the number of words; that another word overflows is not   *)
(* looked at, and its logarithm is of what is left then.                   *)
Accepts(k) ==
  /\ Blocks(Log2(Truncated(k))) >= MinBlocks
  /\ Blocks(Log2(Truncated(k + 1))) # Blocks(Log2(Truncated(k)))

Check ==
  /\ phase = "checking"
  /\ IF Power[typed.count] < Limit /\ Accepts(typed.count)
       THEN /\ phase' = "walking"
            /\ bits' = SizeOf(typed.count)
            /\ out' = Stored(typed.number, SizeOf(typed.count))
       ELSE phase' = "refused" /\ UNCHANGED <<bits, out>>
  /\ UNCHANGED <<typed, cipher, m, h, d, g, words>>

(* fixnum_popcnt, with what its counter starts at. *)
Popcnt(x, memory) ==
  (memory + Cardinality({i \in 0 .. bits : (x \div 2^i) % 2 = 1})) % Counter

(* Mutant: what the cipher makes is not copied to where it comes from. *)
Encrypted_Again(y) ==
  /\ IF Outside(y, Max)
       THEN m' = (m + 1) % 2^bits /\ UNCHANGED phase
       ELSE phase' = "counted" /\ UNCHANGED m
  /\ cipher' = cipher \cup {<<out, y>>}
  /\ UNCHANGED out

(* The length of the chain: the cipher is applied until there are words    *)
(* again.  With a count of zero ones in m the number is stored as it is.   *)
Encrypted(y) ==
  /\ IF Outside(y, Max)
       THEN out' = y /\ m' = (m + 1) % 2^bits /\ UNCHANGED phase
       ELSE /\ \E memory \in Memory :
                 phase' = IF Popcnt(m, memory) = 0 THEN "stored" ELSE "counted"
            /\ UNCHANGED <<out, m>>
  /\ cipher' = cipher \cup {<<out, y>>}

Encrypt ==
  /\ phase = "walking"
  /\ IF \E p \in cipher : p[1] = out
       THEN \E p \in cipher : p[1] = out /\ Encrypted(p[2])
       ELSE \E y \in Images : Encrypted(y)
  /\ UNCHANGED <<typed, bits, h, d, g, words>>
------------------------------------------------------------------------------
(* fixnum_divisor_init_from_fixnum, and its asserts *)
DivisorOf(x, memory) == [log2 |-> Log2(x), pure |-> Popcnt(x, memory) = 1, value |-> x]
DivisorFails(x, memory) == x = 0 \/ Popcnt(x, memory) = 0 \/ Log2(x) = 0

Shift(divisor) == divisor.log2 % ShiftRange

(* fixnum_div, whose divisions by a power of two are shifts, with the top  *)
(* bit of 2^bits shifted in; the asserts of fixnum_shr and fixnum_shr_in.  *)
DivFails(divisor, in) ==
  divisor.pure /\ (in >= 2^Shift(divisor) \/ Shift(divisor) > MaxShift)

Quotient(x, divisor) ==
  IF divisor.pure THEN x \div 2^Shift(divisor) ELSE x \div divisor.value

(* Mutant: the value the chain starts with is forgotten. *)
Choices_NotTheFirst == m

(* fixnum_add_uint16(&m, 1) *)
Choices == m + 1

(* How many random numbers there are for each value of the chain. *)
Divide ==
  /\ phase = "counted"
  /\ \E memory \in Memory :
       LET divisor == DivisorOf(Choices, memory) IN
       IF DivisorFails(Choices, memory) \/ DivFails(divisor, 1)
         THEN phase' = "abort" /\ UNCHANGED <<d, h>>
         ELSE phase' = "select" /\ d' = divisor /\ h' = Quotient(2^bits, divisor)
  /\ UNCHANGED <<typed, cipher, bits, out, m, g, words>>

(* The random number, which PBKDF2 makes of the seed, chooses a value: its *)
(* quotient is any up to that of the largest number.  The loop around this *)
(* ends the program when it is entered.                                    *)
Select ==
  /\ phase = "select"
  /\ \E memory \in Memory :
       LET divisor == DivisorOf(h, memory) IN
       \/ /\ DivisorFails(h, memory) \/ DivFails(divisor, 0)
          /\ phase' = "abort" /\ UNCHANGED g
       \/ /\ ~DivisorFails(h, memory) /\ ~DivFails(divisor, 0)
          /\ \E quotient \in 0 .. Quotient(2^bits - 1, divisor) :
               /\ phase' = IF quotient > m THEN "fatal" ELSE "back"
               /\ g' = IF quotient > m THEN 0 ELSE quotient
  /\ UNCHANGED <<typed, cipher, bits, out, m, h, d, words>>

(* What leads to out. *)
Sources ==
  LET drawn == {p \in cipher : p[2] = out} IN
    IF drawn # {} THEN {p[1] : p \in drawn}
                  ELSE {x \in Values : x < 2^bits /\ \A p \in cipher : p[1] # x}

Decrypt == \E x \in Sources : out' = x /\ cipher' = cipher \cup {<<x, out>>}

Back ==
  /\ phase = "back"
  /\ IF g = 0 THEN phase' = "stored" /\ UNCHANGED <<cipher, out, g>>
              ELSE Decrypt /\ g' = g - 1 /\ UNCHANGED phase
  /\ UNCHANGED <<typed, bits, m, h, d, words>>
------------------------------------------------------------------------------
(* no_words of diceware_decode: what fits in the size of the secret *)
Fitting == CHOOSE k \in 0 .. bits : Power[k] < 2^bits /\ Power[k + 1] >= 2^bits

(* Mutant: the first number that is no words counts as words. *)
Largest_One == Power[Fitting]

Largest == Power[Fitting] - 1

(* The master secret comes back, from the shares. *)
Decode ==
  /\ phase = "stored"
  /\ IF Outside(out, Largest)
       THEN Decrypt /\ UNCHANGED <<phase, words>>
       ELSE /\ words' = [count |-> Fitting, number |-> out]
            /\ phase' = "decoded" /\ UNCHANGED <<cipher, out>>
  /\ UNCHANGED <<typed, bits, m, h, d, g>>

Next == Check \/ Encrypt \/ Divide \/ Select \/ Back \/ Decode

(* The program runs on until it ends. *)
Spec == Init /\ [][Next]_vars /\ WF_vars(Next)
------------------------------------------------------------------------------
(* Every accepted number of words fits in its master secret. *)
WordsFit ==
  \A k \in 1 .. MaxWords : Power[k] < Limit /\ Accepts(k) => Power[k] < 2^SizeOf(k)

(* A shift tells chains of every length apart. *)
ChainsAreShort == IsFiniteSet(Values) /\ Cardinality(Values) < 2^ShiftRange

(* The words that come back are those that were typed, wherever in the     *)
(* chain the seed led to, whatever was in the memory of the counter and    *)
(* whether or not the divisions were right (codec.c:146-268, 270-337).     *)
SameWords == phase = "decoded" => words = typed

(* A division by the divisor is one by its value: if that counts as a      *)
(* power of two it is one, and its logarithm fits in the shift.            *)
Exact(divisor) == divisor.pure => divisor.value = 2^Shift(divisor)

(* The random numbers that the second division turns into i, and those     *)
(* that choose a value of the chain at all.                                *)
Choosing(i, divisor) == {x \in 0 .. 2^bits - 1 : Quotient(x, divisor) = i}
Chosen(divisor)      == {x \in 0 .. 2^bits - 1 : Quotient(x, divisor) <= m}

Even(divisor) ==
  /\ Choosing(0, divisor) # {}
  /\ \A i \in 0 .. m : Cardinality(Choosing(i, divisor)) = Cardinality(Choosing(0, divisor))
  /\ Exact(divisor) => 2^bits - Cardinality(Chosen(divisor)) <= m
  /\ divisor.pure /\ Shift(divisor) # divisor.log2 =>
       Cardinality(Chosen(divisor)) * 2^ShiftRange <= 2^bits

EvenFor(memory) ==
  ~DivisorFails(h, memory) /\ ~DivFails(DivisorOf(h, memory), 0) => Even(DivisorOf(h, memory))

(* When the program divides a random number to choose a value of the       *)
(* chain, as many random numbers choose one value as any other (the one    *)
(* the chain starts with and its last one included), whatever the program  *)
(* took the divisor for, if h itself was divided right.  How unlikely is   *)
(* it then that one chooses none ("this is very unlikely", codec.c:255)?   *)
(* No more of them do than values follow in the chain, if this division is *)
(* right, too; but when h is a power of two, and its logarithm is cut off  *)
(* to fit in a uint8_t, all but one of 2^256 do (codec.c:218-262).         *)
EvenChoice == phase = "select" /\ Exact(d) => \A memory \in Memory : EvenFor(memory)

(* Neither walk along the cipher goes on forever: a chain that started at  *)
(* words comes to words again, and the way back from a value on it to the  *)
(* words before it (codec.c:208-215, 305-310).                             *)
WalksEnd == <>(phase \in {"refused", "decoded", "fatal", "abort"})

(* The asserts of fixnum.c hold (in fixnum_shr: "shift <= 16").            *)
NoAssertFails == phase # "abort"
==============================================================================
