------------------------------- MODULE Wordlist -------------------------------
(***************************************************************************)
(* utils.c: words of a line looked up in a wordlist, in a time that does   *)
(* not depend on the word: every word of the list is compared, and what    *)
(* the comparisons say is put together with bitwise operations.  A         *)
(* character is its code; a wordlist is a function from indices to words.  *)
(***************************************************************************)
EXTENDS Integers, SequencesExt, FiniteSetsExt, Bitwise

NUL == 0
SPC == 32

(* The end of the line reads as NUL. *)
CharAt(line, pos) == IF pos <= Len(line) THEN line[pos] ELSE NUL

EndsWord(c) == c \in {SPC, NUL}

(* Mutant: a word may go on behind the word of the list. *)
ReqTerminator_Never(w) == FALSE

(* max_word_length != min_word_length *)
ReqTerminator(w) == \E i, j \in DOMAIN w : Len(w[i]) # Len(w[j])

(* wordeq: the loop over all characters of the target, which stays on the  *)
(* end of the unknown word; then the terminator, of which a space is       *)
(* skipped.                                                                *)
wordeq(line, pos, target, terminated) ==
  LET s == FoldLeft(
             LAMBDA t, c : LET u == CharAt(line, t.end) IN
                             [eq  |-> t.eq /\ u = c,
                              end |-> IF EndsWord(u) THEN t.end ELSE t.end + 1],
             [eq |-> TRUE, end |-> pos], target)
      next == CharAt(line, s.end)
  IN  [eq  |-> s.eq /\ (terminated => EndsWord(next)),
       end |-> IF terminated /\ next = SPC THEN s.end + 1 ELSE s.end]

(* wordlist_search: the indices of all words that match, combined with &.  *)
(* Words that match have the same length, so the pointers to their end,    *)
(* combined with |, are the same one.                                      *)
NotFound == [found |-> FALSE]

wordlist_search(w, line, pos) ==
  LET eq  == [i \in DOMAIN w |-> wordeq(line, pos, w[i], ReqTerminator(w))]
      hit == {i \in DOMAIN w : eq[i].eq}
  IN  IF hit = {} THEN NotFound
      ELSE [found |-> TRUE,
            index |-> FoldSet(LAMBDA i, match : match & i, 2^16 - 1, hit),
            end   |-> eq[CHOOSE i \in hit : TRUE].end]

(* The loop of the callers over a line; there are no more words in it than *)
(* characters.                                                             *)
Words(w, line) ==
  FoldLeft(LAMBDA s, k :
             IF ~s.ok \/ CharAt(line, s.pos) = NUL THEN s
             ELSE LET r == wordlist_search(w, line, s.pos) IN
                    IF r.found
                      THEN [s EXCEPT !.pos = r.end, !.words = Append(@, r.index)]
                      ELSE [s EXCEPT !.ok = FALSE],
           [ok |-> TRUE, pos |-> 1, words |-> <<>>], line)

(* Words on output, with a space between them if the caller writes one:    *)
(* base16 does not (its words are single characters), the others do.       *)
wordlist_dereference(w, index) == w[index]

Printed(w, words) ==
  FoldLeftDomain(LAMBDA s, k :
                   (IF k > 1 /\ ReqTerminator(w) THEN Append(s, SPC) ELSE s)
                     \o wordlist_dereference(w, words[k]),
                 <<>>, words)
==============================================================================
