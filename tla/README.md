# Specifications of slip0039

`slip0039` splits a master secret into mnemonics (SLIP-0039: Shamir secret
sharing in two levels, groups of members) and recovers it from enough of them.
This directory holds TLA+ models of the program, the TLC configurations that
check them on small instances, and proofs that TLAPS checks for every value of
the constants. Paths such as `slip0039.c:371` are relative to the repository.
`PROJECT.json` has, for every definition, the lines it models; for every
property, a plausible bug that breaks it (an operator named
`<Definition>_<Bug>` in the modules, below a comment that starts with
"Mutant:"); and the list of hazards the properties are for.

To repeat everything, for each run and for each module of proofs:

    tlc -config MCRecover.cfg MCRecover
    tlapm RecoverProofs.tla

## The system

The program is one sequential process that reads standard input line by line.
It has no threads, except that a signal handler may run at any point, and keeps
nothing on disk. What makes it hard is the *order in which mnemonics arrive*,
which nobody controls; arithmetic in `uint8_t`, `int8_t` and `int`, and on big
integers of 8 bit limbs; streams (hash, HMAC, PBKDF2) that are fed in pieces of
any size; the use of array indices -2 and -1 (x = 254 and 255) for digest and
secret; and sensitive data that has to be gone on every way out.

| component | source | state it keeps | operations | what makes it correct |
|---|---|---|---|---|
| command line | `slip0039.c:650-771` | mode, exponent, thresholds, codec, wordlist | `parse_options`, `parse_options_split` | only specifications that `split` can handle get through; codec and wordlist fit |
| main | `slip0039.c:773-833` | mode, where it is | passphrase, then seed, plaintext, split, print; or mnemonics, quorum, recover, decrypt, print | a message or a secret, for every input |
| mnemonic intake | `slip0039.c:224-232, 328-461` | `slip0039_t`: header, thresholds, `available` counters, shares | `slip0039_add_mnemonic(s)`, `slip0039_set_increment_available` | counters exact; nothing accepted is overwritten; lines that contradict are refused |
| recovery | `slip0039.c:558-604` | `idx[]`, digests and secrets | `slip0039_recover`, `slip0039_decrypt` | no assert fails; lowest groups and shares decide; every digest of a threshold above 1 is verified |
| split and print | `slip0039.c:266-320, 509-556` | shares of root and groups, PRNG | `slip0039_split`, `slip0039_print_mnemonics` | every quorum gives back the secret; nothing is written twice |
| Lagrange, digest | `lagrange.c`, `digest.c` | none | `lagrange`, `digest_compute`, `digest_verify` | interpolation through any points of the polynomial |
| GF(256) | `gf256.c` | none | add, mul, pow, inv, div | the field of AES |
| Feistel cipher | `lrcipher.c` | four PBKDF2 contexts | `lrcipher_execute` and the passphrase functions | decryption inverts encryption |
| PBKDF2, HMAC | `pbkdf2.c`, `hmac.c` | contexts with a state 0, 1, 2 | init, update, finalize, generate | the standard's result however input and output are cut |
| SHA-256, SHA-512 | `sha256.c`, `sha512.c`, `hash.c`, `endian.h` | chaining value, buffer and count of bytes | init, update, finalize | the standard's digest, however the message is cut |
| RS1024 | `rs1024.c` | none | add, verify | detects three wrong words |
| big numbers, base conversion | `fixnum.c`, `base.c` | limbs | shifts, peek, poke, arithmetic, division; digits and back | each other's inverses within the limbs |
| codecs | `codec.c` | table of codecs | base16, bip39, diceware | decode inverts encode; the diceware cycle walk returns |
| wordlists | `wordlists2c.sh`, `wordlists.h`, `utils.c` | generated tables | `wordlist_search`, `wordlist_dereference` | what is printed is read as the same words |
| input | `utils.c` | line buffers | `read_stringLF` | no line is cut in two |
| list, hash table | `llist.c`, `shashtbl.c` | links | add, search, remove, iterate | a map; iteration survives removal |
| life cycle | `slip0039.c:64-212, 478-507` | signal handlers, `atexit` | exit, wipe | secrets are wiped on every way out |
| messages | `verbose.c`, `verbose.h` | `quiet`, `debug` | WARNING, FATAL, ... | FATAL ends the program |
| utf8proc, `dev/` | vendored library, experiments | | | outside the project |

How they interact: `main` calls everything in a fixed order. `parse_options`
fills thresholds and counts that `slip0039_split` reads. `slip0039_add_mnemonic`
fills the same structure for `slip0039_recover`. Root and groups are the same
type `slip0039_set_t`: a share of the root is passed down as the secret of a
group by pointer (split), and a secret of a group passed up as a share of the
root (recover). A mnemonic is a header poked into a fixnum, a share and a
checksum, all converted to digits of base 1024. `lrcipher` works on copies of
PBKDF2 contexts, PBKDF2 on copies of HMAC contexts, and the diceware codec on
`lrcipher`, `base` and division of fixnums. `FATAL`, asserts and signals all
end in `exit`, and that in `wipe`.

## Modules

| module | models | state and actions |
|---|---|---|
| `Mnemonic` | a line of input as `slip0039_add_mnemonic` sees it | no state; `WellFormed` are the checks that look at the line alone |
| `Recover` | the recover mode from the first mnemonic to the secret | the fields of `slip0039_t`; `shares[s]` is a partial function, an index in its domain is a pointer that is not NULL; `phase` is where `main` is. One action per way through `slip0039_add_mnemonic` (six refusals, each after the assignments that precede it, and `LoadShare`), one per iteration of each loop of `slip0039_recover` |
| `Combine` | what combining promises: sets instead of counters, no loops, no order | `Accept`, `Refuse`, `Close`, `Conclude` |
| `SplitSpec` | the specifications the command line lets through | none |
| `Split` | `slip0039_split` depth first, `slip0039_print_mnemonics` | as in `Recover`; random values are any element of `Draws`; one action per random share; the loop that computes the others is one step, since it reads only what was there before it |
| `Backup` | `Split`, then `Recover` on what it printed | composes both; `Type` is the user, who may leave lines out, change their order and repeat them |
| `Options` | `parse_options`, argument by argument | one action per kind of argument, `End` for the checks behind the loop |
| `Main` | the process: options (it extends `Options`), input character by character, signals, exit and wipe | `phase` is where the process is, `dirty` the buffers with sensitive contents, `step` how far `wipe` is. What splitting and recovering do is left to `Split` and `Recover` |
| `Lagrange`, `GF256` | `lagrange.c`, `digest.c`, `gf256.c` | pure; a byte is the set of its one bits; `Width` and `Pol` are parameters, 8 and {0, 1, 3, 4} in the code |
| `LRCipher` | `lrcipher_execute`, in place on two halves | any round function; `Round`, and `Turn` from encryption to decryption |
| `Sha2` | buffers, chunks, padding and length, and the second hash of SHA256D | one action per block of code of `add()` and `sha512_update`; a hash is known by the blocks transformed |
| `Compression` | the compression functions of both, from a chunk in memory to the hash in memory | pure; a word is the set of its one bits, the two files are two records of parameters |
| `Fips180` | the same functions as FIPS 180-4 writes them: the reference, not the code | pure |
| `Hmac` | `hmac.c` | the states of the key, and the buffer that holds key, digest or pad |
| `Pbkdf2` | `pbkdf2.c` | the stream, the loop with its `int`, and offsets |
| `Fixnum`, `Base` | `fixnum.c`, `base.c` | pure; a number is the sequence of its limbs, most significant first; `LimbBits` is 8 in the code |
| `Numbers` | calls of `fixnum.c` and `base.c` with anything their asserts allow | `job` is the call and its arguments, `result` what it returned; `Shift`, `Field`, `Divide`, `DivideBy`, `Encode`, `Decode` |
| `Rs1024` | `rs1024.c` | pure; bit for bit |
| `Header` | how a share becomes the words of a mnemonic and is read back | pure; composes `Fixnum`, `Base` and `Rs1024` |
| `Codec` | base16, bip39, and the sizes of diceware | pure; real limbs |
| `Diceware` | the walk of the diceware codec along the cycles of the cipher, and back | integers of scaled size; the cipher is a permutation that is drawn pair by pair; the counter of `fixnum_popcnt` starts with anything in `Memory` |
| `Wordlist` | `wordeq`, `wordlist_search`, `wordlist_dereference` | pure; characters are numbers |
| `Tables`, `TableSpec` | `llist.c` and `shashtbl.c`; the map they promise | the head, the count and the next pointers of each bucket's list, and the pointer of an iteration in progress; `Add`, `Delete`, `DeleteByKey`, `Empty`, and the steps of an iteration `Begin`, `Keep`, `RemoveVisited`, `NextBucket`, `Stop`; the map from keys to sequences of elements, with `Put`, `Take`, `Clear` |
| `RecoverProofs`, `BackupProofs`, `MainProofs`, `Sha2Proofs`, `LibraryProofs`, `DicewareProofs`, `NumberProofs` | theorems | `LibraryProofs` has those about the cipher, `Hmac`, `Pbkdf2` and `Tables` |
| `Induction` | lemmas for all of them: induction, functions defined by recursion, powers of two, quotients | |

`MCRecover`, `MCBackup`, `MCMain` and `MCDiceware` give the constants of one
module their values for TLC. `MCArithmetic` adds calls of the other pure modules
to those of `Numbers`, with every argument from small sets. `MCLibrary` holds the stateful library modules side by
side; which one runs is chosen in the beginning. `MCCodec` and `MCDutch` are
small machines for one question each. `Pbkdf2` needs no definitions and is
checked directly.

Abstractions. A share value is data that only interpolation and the digest look
at: a free term in `MCRecover` (which remembers the points it was computed from,
so that two recoveries agree only if they used the same shares), a pair of field
elements in `Backup` (one for the four digest bytes, one for the rest). Titles,
line numbers and wording of messages are left out. In `Recover` the word lookup
and the RS1024 checksum are the field `sound` of a line, and its header fields
are given; that lines are read as they were printed is what `Header`,
`Rs1024` and `Wordlist` are about. Blocks inside `Sha2`, hashes inside HMAC,
HMAC inside PBKDF2 and PBKDF2 inside the cipher are known by their arguments:
equal results then mean that the same bytes went in, in the same order.

## Runs

| run | question | instance, and why it is enough |
|---|---|---|
| `recover` (`MCRecover`) | Do counters, loops and asserts hold for every sequence of lines, is nothing overwritten, is there always an answer, and does the program implement `Combine`? | `MaxShares` = 3; lines of two groups with members 0 .. 2, thresholds 1 and 2, group thresholds 1 .. 3 (3 > 2 groups: a header that contradicts itself), member 0 genuine or corrupt, a line of a third group; and lines broken in each way there is a check for. A group can be incomplete, complete and in surplus, with gaps in the indices; the root too |
| `backup` (`MCBackup`) | Does every quorum of what was printed give back the secret, in any order, and is no share written twice on the way? | GF(8), so that 254 and 255 are the field elements 6 and 7 and indices 0 .. 3 are left; one group of four with thresholds 1 .. 4; three groups with group threshold 2; a surplus of groups; and one small backup of every even size from 16 to 64 bytes, because the number of words is rounded once up and once down. Two random values at each draw. Exponents 0, 1 and 31 |
| `backup_no_threshold` | Group threshold 0 (see below) | one group |
| `arithmetic` (`MCArithmetic`) | Are the pure functions between a secret and its words what they should be: the field, big numbers, base conversion, checksum, lines, codecs, word lookup, compression functions? | all 65536 pairs of real bytes; all numbers of two and three limbs of two bits, so that carries over one and two limbs, shifts by more than a limb and fields cut off at the top happen, with all divisors of that size, eight multipliers below, at and above a limb, scratch numbers of the same size and longer, and digits too few, enough, and so many that they overflow; the distance of the checksum over lines of 59 words, which are the longest; headers with every combination of fields at their limits, and shares of every size; base16 and bip39 at every size; every wordlist of up to three words of one or two letters; both compression functions for 16 chunks and first states (ones, zeros, a pattern, the padded "abc"), every round, and all 160 constants |
| `library` (`MCLibrary`) | Do the streams give the standard's result however they are fed, does decryption invert encryption, is the hash table a map? | SHA-2: the real block sizes, messages of up to two and a half blocks, pieces of 0, 2 and around every boundary; HMAC: blocks of 4 bytes, digests of 3, keys up to 11 bytes (below, at, above a block); PBKDF2: output up to 8 bytes, three blocks, and `INT_MAX` 7 with counts up to it; the cipher: halves of one bit, all 4^4 choices of four round functions; tables: four elements, two of one key, three of one bucket |
| `main` (`MCMain`) | Is `split` entered only with what it was made for, does the wordlist belong to the codec, are lines intact, is nothing sensitive left, does the program end with its input? | `MaxShares` = 2, numbers at and next to every limit, any number of `-c`, five codecs; buffers for one and two characters, lines of any length; two signals at any point |
| `diceware` (`MCDiceware`) | Do the words come back, do both walks end, and is every value of a chain chosen equally often by the second division, also when one is taken for a shift and when the shift is cut off? | lists of 5 words, blocks of 5 bits, up to 3 blocks and 7 words, so that some numbers of words are refused, some fill one block and some two; chains up to the number of `Values`; the uninitialised counter at 0, 1 and its maximum; `h` no power of two, a power whose shift fails an assert (5 bits), and one whose shift is cut off (10 bits) |
| `pbkdf2_overflow` | Is the iteration count honoured? (see below) | `INT_MAX` scaled to 7, counts of 5 and 10 |
| `codec_diceware` (`MCCodec`) | Do as many words come back as were accepted? (see below) | real limbs and powers of 7776 |
| `diceware_abort` | Do the asserts of `fixnum.c` hold? (see below) | as `diceware`, with the counter at 0 |
| `main_wipe` | Is all wiped after a second signal? (see below) | as `main` |
| `wordlist_dutch` (`MCDutch`) | Is the word stored that was typed? (see below) | a list of 297 words with `abc` at its two places |

Deadlock is checked in `recover` and `backup`, which stutter only when the
process is gone (`Exited`, `Finished`). The others model calls, a process or an
input that come to an end, and are checked without it: `EndsWithInput` and
`WalksEnd` say where they may end.

*Fairness.* `Answers` (`recover`): once the input has ended a secret or a
message comes, under weak fairness of `Compute`, the steps between the end of
the input and the end of the process. `EndsWithInput` (`main`): once the file is
closed the process ends, under weak fairness of what the process does by itself,
of the step that ends the parsing of a command line (which is finite), and of
reads from a file that has ended. `WalksEnd` (`diceware`): both walks end, under
weak fairness of `Next`. All of these are loops and calls that block on nothing,
so the scheduler's fairness is all they need. Nothing is assumed of the user,
who may stop typing for ever without closing the input, nor of signals.

*Bounds.* `MaxShares` (`MAX_SHARES`, 16 in the code), the sets of lines, pieces,
numbers and values, `MaxKey`, `MaxText`, `MaxIn`, `MaxOut`, `MaxBytes`,
`MaxWords`, `SeedSize`, `LineSize`, `Sizes`, `Extras`, `Values` and `Counts` of
`Numbers`, and the jobs in `MCBackup` and `MCArithmetic`. None of them cuts a behaviour short in a way that hides an end:
a hash may be finalized, or a PBKDF2 stream used, at every length below the
bound, and a line may be longer than its buffer.

## What is proved

*`RecoverProofs`*, for every `MaxShares` from 1 to 254, every set of lines, and
any interpolation, digest comparison and cipher (the assumptions are
`MaxSharesAssumption`, `LinesAssumption` and `NoLineAssumption`; 254 is the
limit because 254 and 255 must not be indices of shares):

- `TypeCorrect`, `CountersAreExact`, `NoAssertEverFails`, `GroupThresholdIsMet`
  and `AcceptedIsKept`: the safety properties of run `recover`.

The argument is the inductive invariant `IInv` of `Recover`. That no assert
fails is not inductive by itself: at the end of the loop over the groups the
number of indices collected equals the threshold only because the loop stopped
there, or because all groups were seen and the quorum test had counted enough
of them. `LoopInv` therefore says what a loop has collected so far (exactly the
complete groups below `i`, the loaded shares below `j`) and that it is fewer
than the threshold while the loop goes on. For the last iteration this must
contradict `available >= threshold`, which is where `CountersExact` comes in:
`available` is the number of indices there are to collect. `CountersExact` in
turn needs `ReadingInv` (a group without a threshold has no shares, so a first
share sets the threshold it is compared with), and the asserts on digest and
secret need the parts of `LoopInv` that say which sets are still `Untouched`.
The finite-set facts behind the loops are the lemmas `Prefix`, `IndexAdd` and
`IndexSubset`. `GroupThresholdIsMet` follows from exact counters: complete
groups are below `count`, so a group threshold above the count is never met.

The second part of `RecoverProofs`, under the same assumptions: `Combines`, that `Recover`
implements `Combine` but for the promise to come to an end. `IInv` knows how
many shares a loop has collected, and `Combine` wants to know which: those with
the least indices. `CombineInv` adds that (`UsedShares`, `UsedGroups`), that
the secrets taken up so far are what `Combine` computes from these shares and
passed their digests, and that a header and thresholds are there only with a
share (after the first line is refused the process is on its way out). The
refinement maps the shares of the program to a set of records, so a step of the
program is a step of `Combine` exactly when it accepts, refuses, closes the
input or concludes; all steps of the loops stutter.

*`BackupProofs`*, for every width, polynomial, MAC, number of shares, random
values and jobs whose group threshold is at least 1 and whose exponent is below
32 (`InRange`; without it the asserts do fail, see below). It has five parts.

1. *The split*: `NoSplitAssertFails` and `SharesAreWrittenOnce`. `SplitInv` says
   that sets before the current one are complete, those behind it empty, and
   which shares of the current one are there (`ProgressInv`); that the
   specification is one that the command line accepts (`OptionsInv`). The second
   loop starts at `threshold - 2` in a `uint8_t`, or at 1 for a threshold of 1:
   that it does not wrap, and that it begins where the first loop ended, is in
   the proof of its step.
2. *The field*: `FieldLaws`. What the loop of `gf256_mul` computes is
   commutative, associative and distributes over exclusive or, for every `Width`
   and `Pol`. The loop is a function on numbers; `MulRuns` gives its states by
   recursion, and the laws follow by induction over the bits of a factor. Only
   the inverses depend on the polynomial, so `InverseAssumption` (that
   `gf256_inv` inverts, that is that the polynomial is irreducible) is assumed:
   TLC evaluates it in every run at the width of the run, and `InverseIsInverse`
   checks it for the 255 bytes and the polynomial of the code.
3. *Interpolation*: `AnyPoints`. If `lagrange()` of some points agrees with a
   function at all points, so does `lagrange()` of any others that are as many.
   There are no polynomials in the proof: one point is exchanged for another
   (`Exchange`), which comes down to one identity of fractions (`Ptolemy`,
   `FactorSum`) and to weights that are chains of factors (`WeightChain`), and
   the exchange is repeated by induction over the points that differ. `Weight`
   and `InterpolateByte` are folds over sets, whose order is unspecified;
   `FoldSplit` shows that any element may come last.
4. *Quorums*: `EveryQuorum`. `SharesInv` says that every set that was left is
   `Whole`: the shares are copies of the secret, or all of them are what
   `lagrange()` makes of the digest, the secret and the random shares, and the
   digest verifies. With `AnyPoints` for each byte, any quorum gives both back.
   `PointsAssumption` says that no two indices have the same x-coordinate, nor
   that of digest or secret; `MacAssumption` that a MAC has bytes.
5. *End to end*: `TheSecretIsRecovered` and `OnlyRefusedForCause`. `RecoverProofs`
   is instantiated for the run that recovers, so `IInv` holds of it
   (`PrintableLines`: all that can be printed are lines in the sense of
   `Recover`). `KeptInv` relates the two runs: the header and the thresholds that
   were accepted are those of the split (`HeaderKept`, `GroupsKept`), every share
   loaded is the one that was printed (`SharesKept`), and every secret recovered
   is the one that was split (`RootKept`). The last follows from the third by
   `EveryQuorum`'s argument (`QuorumGives`) once for a group and once for the
   root, between which `InheritInv` mediates: the secret of a group is the share
   of the root that was handed to it. That the number of words computed by
   rounding up leads back to the size by rounding down is `WordsHold`; that the
   quorum test of the counters is the one a reader would write down,
   `SufficientIsQuorum`, which rests on `CountersExact`.

*`MainProofs`*, for any numbers, codecs, languages, sizes of buffers and
signals (`SharesAssumption`, `CodecsAssumption`, `NumbersAssumption`,
`InputAssumption`): `AcceptedIsHandedOn`, `WordlistIsTheCodecs`, `LinesAreIntact`
and `ExitIsClean`. `MainInv` has a part for each: what the parser has seen in
each of its states (`ArgumentsInv`), `CodecInv`, that a line has as many
characters in the buffer as were typed unless the program is ending
(`LineInv`), and that what the first `k` steps of `wipe` clear is clean
and stays clean, which needs that `slip0039_debug` comes first (`MemoryInv`).

*`Sha2Proofs`*: `BlocksArePadded`, for messages of any length in pieces of any
size (`PiecesFit`), with the real sizes of SHA-256, SHA256D and SHA-512. The
argument goes by the stream of bytes of the padded message (`Stream`):
`Sha2Inv` says that the blocks transformed, the buffer and what is left of the
piece are consecutive parts of it in every state of `add()`. That the two
formulas for the padding give the least number of bytes that fills a block is
the lemma `Padding`.

*`LibraryProofs`*, about the modules that run `library` puts beside each other:

- The cipher: `RoundTrip`, for halves of any number of bits and any round
  function. The invariant `CipherInv` names the values X0 .. X5 that the halves
  run through; decryption runs through the same chain backwards.
- The MAC: `ResultIsHmac`, for any sizes of block, digest and pieces
  (`HmacAssumption`, which TLC evaluates for the sizes of the run). `HmacInv`
  says what the context holds in each of its states: the key in the buffer, or
  the whole key in the hash once it is longer than a block, or the masked padded
  key in both. That the concatenated pieces are the key, that masking twice with
  both pads leaves the outer one, and that the padded key carries no masks are
  lemmas.
- The key derivation: `OutputIsDerived`, for hashes of any length, pieces of any
  size and any number of iterations that an `int` holds (`Pbkdf2Assumption`;
  without it the run `pbkdf2_overflow` fails). `Pbkdf2Inv` says where the output
  is in the derived key (`OutputInv`: between the blocks and the offset in the
  last one nothing is lost or given twice), which MACs the block holds in every
  round (`BlockInv`), and that nothing is handed out before password and salt
  are whole (`InputInv`).
- Lists and tables, for any elements, keys and buckets (`TableAssumption`):
  `ListsStaySound`, `EachVisitedOnce` and `TableImplemented`, that the pointers
  implement the map of `TableSpec`. `ListsInv` says that the pointers of each
  bucket form a `Chain`: a sequence without repetitions that begins at the head,
  in which each element points to the next, and as long as the count says; every
  operation on pointers is then one on sequences (an element in front, one taken
  out). `VisitInv` describes an iteration, which may remove the element it
  visits: it stands at a place of the list (`Standing`), and what it has visited
  and what is `Ahead` of it divide what there was (`Divides`). The refinement
  mapping reads the elements of a key out of the list of its bucket.
- `DigestIsOfMessage`: the theorem about `Sha2`, instantiated for the
  specification of the run. What it supposes of sizes and pieces is proved there.

*`DicewareProofs`*, for any list, sizes, values and ciphers, and anything in the
memory of the uninitialised counter (`SizesAssumption`, `MemoryAssumption`):

- `WordsComeBack`: words whose number fits in its size come back, whatever the
  seed chooses. The hypothesis is needed, and `AllWordsComeBack` (all words come
  back where it holds of every number of words that is accepted, `WordsFit`) is
  not vacuous: TLC evaluates `WordsFit` for the run, and of the real list it
  holds for all but 26 and 31 words, where run `codec_diceware` shows what
  happens. The argument: `ChainInv` says that there is a chain of `m + 1` values
  that starts with the stored number, leads from each to the next by the cipher,
  and has no words in it but the first; on the way back the program stands `g`
  steps behind a place on it, and since the cipher is a permutation (`CipherInv`)
  each decryption steps back on the same chain. The words are met there first,
  and `NoRoom` (one word more does not fit) makes the decoder find their number
  (`FittingIs`).
- `ChoiceIsEven`: the property `EvenChoice` of run `diceware`. Once the number `h`
  was divided right (`Exact`), every value of the chain is chosen by equally many
  random numbers, whatever the second division takes its divisor for: it divides
  by a `Width`, which is `h` or a power of two no larger than `h` (`WidthIs`), so
  that `m + 1` parts of it have room among the random numbers (`EvenParts`). How
  many are left over, and end in "this is very unlikely" (`codec.c:255`), depends
  on the width: at most `m` when it is `h`; but when a power of two is divided by
  a shift whose logarithm does not fit in a `uint8_t`, no more than one of
  2^256 random numbers chooses a value at all. When an assert ends the program
  instead (`diceware_abort`), nothing is chosen, and the property says nothing.
- `ChoiceIsEvenOnShortChains`: with a counter that starts at zero (`Zeroed`), and
  where fewer than 2^256 values can be walked through (`ChainsAreShort`, a bound
  on time), the first division is always right, so that the hypothesis is gone:
  `DivisorInv` says what the divisor was made of, `OnesTell` that a number with
  one bit set is the power of two of its logarithm, `ChainLength` that a chain has
  no value twice.

*`NumberProofs`*: `Shifts`, `Fields`, `Division` and `Conversion`, the four
properties of `Numbers` that run `arithmetic` checks, for limbs of up to 8 bits (a shift is a
`uint8_t`, and a limb is one), numbers of two limbs or more (the code takes and
returns `uint16_t`s, which are two), multipliers that a `uint16_t` holds, and any
number of digits (`LimbAssumption`, `NumbersAssumption`).

- A number is evaluated by prefixes (`NumberRuns`), so that a loop over the limbs
  is one over the terms of a sum. Loops that go from the last limb to the first
  hand on a carry, and keep what they wrote plus the carry equal to the sum so
  far: for the shift to the left, addition and subtraction that is `ChainIs`, and
  `MulIs` for the two accumulators of the multiplication. A shift to the right
  hands on the bits that fall out of the bottom, in the other direction
  (`ShrLoop`).
- A field of up to two limbs and one bit lies in three limbs at most. The code
  reads and writes them one by one; `FieldParts` puts the number together from
  what is above, in and below these, and `PokeIs` exchanges the middle.
- Long division (`DivStepIs`, `DivIs`): after `k` of `c` steps the quotient is the
  dividend divided by the divisor times 2^(c-k), and the scratch number holds the
  remainder. Only before the first step, and for the dividend 2^n, can that be
  more than its limbs hold: the bit that is missing is the one that
  `Subtracts` takes for granted there. A divisor that is a power of two is a
  shift, and `DivAborts` says when an assert stops it.
- `base_encode`: after `i` divisions the limbs hold the value divided by `m^i`, and
  the digits written are those of the remainder (`EncodeIs`). `base_decode` is the
  way back, but for what the code does not look at: a carry out of the addition
  of the last digit. `Decoded` is exact up to that carry, which is what
  `ConversionInverts` says of it.

*Induction.* The library's induction theorems have operators as parameters,
which none of the provers used here can instantiate. Where induction over data
is needed (fields, folds, lists) it is stated with sets: a set of numbers that
contains 0 and is closed under + 1 contains all (`Induct`, from the
well-foundedness of < alone), a set of sets that contains {} and is closed under
one more element contains all finite ones (`InductSets`), and a function defined
by recursion exists (`Recursion`), also one that depends on the turn and goes
up or down (`Loops`, `LoopsDown`).

Only model-checked: `Answers`, `EndsWithInput`, `WalksEnd` and the liveness part
of `ImplementsCombine` (fairness and ENABLED are beyond the prover); and run
the rest of `arithmetic`, where codecs, checksum, word lookup and compression are called with
sets of arguments that are exhaustive or at the limits. Of these
`Compression` is out of the prover's reach (its addition is a RECURSIVE
operator), and so are properties of one concrete table or polynomial, as
`DetectsThreeErrors` and `ConstantsAreRoots`, which are computations.

## Where the code and its documents differ

Shown by a run (`findings` in `PROJECT.json`):

- `split EXP 0 ...`: a group threshold of 0 is accepted (`slip0039.c:676`;
  `doc/slip-0039.md:53` has 1 <= GT), and an assert fails (`slip0039.c:510`).
- `pbkdf2.c:76` counts iterations in an `int`; exponents from 20 on ask for more.
- A diceware passphrase of 26 words is accepted, and 25 words come back
  (`codec.c:175`): the size is computed from floors of logarithms. So it is for
  31 words; 25 and 30 are refused with the advice to add one.
- The diceware codec aborts when its chain has a length that is a power of two
  (`codec.c:246`): a division becomes a shift by more than the assert of
  `fixnum_shr` allows. For 21 words (272 bits) and a chain of two values the shift
  of 271 is cut off to 15 by its `uint8_t`, no assert fails, and the program ends
  with "this is very unlikely" (`codec.c:255`) for all but one of 2^256 random numbers;
  that case is part of `EvenChoice` in run `diceware`.
- A second signal during `wipe` ends the program with buffers that are not
  wiped (`slip0039.c:65`).
- Three words are twice in the Dutch wordlist, and are stored as other words
  (`utils.c:116`).

Seen while modelling, without a run:

- `-c slip0039` and `-c base58` select codecs without functions
  (`codec.c:352`): the process is killed, unwiped (`CallsNull` in `Main`).
- `doc/slip-0039.md:188` wants exactly as many groups and shares as the
  thresholds say; the program takes more and ignores the rest.
- Between 66 and 128 bytes in base16 are written into a buffer of 64
  (`codec.c:39`); the assert comes later.
- An empty line ends the mnemonics (`slip0039.c:459`), not only EOF (`README.md:41`).
- The exponent may be 32 (`slip0039.c:673`) although a mnemonic has 5 bits for
  it; `Split`'s `PrintMnemonics` ends in the assert of `fixnum_poke`.
- `split 0 0` passes the checks and fails the assert at `slip0039.c:761`
  (`Options`' `End`).
- `README.md:21` calls the default codec `rawhex`, the code `base16`.
- `doc/slip-0039.md:172` forbids a member threshold of 1 with several members;
  the program warns only (`slip0039.c:690`).
- A diceware passphrase of 39 words is refused with the advice to add one, and
  40 are too many (`codec.c:187`).
- `fixnum_popcnt` adds to a counter it never initialised (`fixnum.c:216`). What
  it decides is checked for any content of that memory in `diceware`.
- `fixnum_shl` returns the bits shifted out at the wrong place
  (`fixnum.c:133`); its callers only compare them with zero.
- The carry of the last addition in `base_decode_fixnum` is not looked at, so
  an overflow that happens there is not reported (`base.c:84`;
  `ConversionInverts` says for which bases).
- The word "beauté" of the Dutch list ends with a space (line 943), so it
  cannot be typed.
- Passphrases and seeds that contain a NUL character end there.
- `llist_empty` without a function to free the elements leaves their links, so
  they cannot be added again (`llist.c:61`).

## Not modelled, and the plan

- *utf8proc* (`utf8proc.c`, `utf8proc.h`) is a vendored library that is linked,
  but nothing calls it. It has three quarters of the lines of the repository
  (18516 of 24344, most of them tables), so a share of the lines that looks
  small covers most of the program: without it, the programs in `dev/`, license
  headers and output there is little left.
- *Output*: messages, `-d` (but that `slip0039_debug` fills a buffer on the way
  out), titles of shares, `fixnum_printf`, and the bounded printing functions,
  which end the program when a buffer is too small.
- *The random stream* of split is any draw; how `init_prng_pbkdf2` makes it of
  secret, seed and specification is left out.
- *Generated word tables* are data; of them only the duplicates are used.
- *The stack*, which `wipestackmemory` wipes; a FATAL within a function that
  has secrets on the stack leaves them there.
- *`dev/`*: experiments and benchmarks.

What could be added: proofs that `Header` and `Codec` read back what they wrote,
which `NumberProofs` has the lemmas for.
