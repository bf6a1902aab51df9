---------------------------- MODULE ReaderProofs ----------------------------
(***************************************************************************)
(* Theorems about the reader and the threads that work for it: CommandLine,*)
(* for any history, completions and bounds; LineEditor, for any characters,*)
(* history and bounds; ThreadPool, for any threads, items and limits; and  *)
(* Debounce, for any number of requests, with or without a timeout,        *)
(* whatever handlers hang.                                                 *)
(***************************************************************************)
EXTENDS CommandLine, LineEditor, ThreadPool, Debounce, FiniteSetTheorems, SequenceTheorems,
        WellFoundedInduction, TLAPS

-----------------------------------------------------------------------------
(* Texts, character by character.                                            *)

LEMMA TextTypes ==
  ASSUME NEW t \in Text
  PROVE  Len(t) \in Nat /\ DOMAIN t = 1..Len(t) /\ \A i \in 1..Len(t) : t[i] \in Chars
  BY DEF Text

LEMMA SubText ==
  ASSUME NEW t \in Text, NEW m \in Int, NEW n \in Int, m >= 1, n <= Len(t)
  PROVE  /\ SubSeq(t, m, n) \in Text
         /\ Len(SubSeq(t, m, n)) = IF m <= n THEN n - m + 1 ELSE 0
         /\ \A i \in 1..(n - m + 1) : SubSeq(t, m, n)[i] = t[m + i - 1]
  <1>1. \A i \in m..n : t[i] \in Chars
    BY TextTypes
  <1> QED  BY <1>1, SubSeqProperties DEF Text

LEMMA SubPart ==
  ASSUME NEW t \in Text, NEW a \in Nat, NEW b \in Nat, a <= b, b <= Len(t)
  PROVE  /\ SubSeq(t, a + 1, b) \in Text
         /\ Len(SubSeq(t, a + 1, b)) = b - a
         /\ \A i \in 1..(b - a) : SubSeq(t, a + 1, b)[i] = t[a + i]
  <1> DEFINE m == a + 1
             part == SubSeq(t, m, b)
  <1>1. m \in Int /\ m >= 1 /\ b \in Int
    OBVIOUS
  <1>2. b - m + 1 = b - a /\ \A i \in 1..(b - a) : m + i - 1 = a + i
    OBVIOUS
  <1>3. (IF m <= b THEN b - m + 1 ELSE 0) = b - a
    OBVIOUS
  <1> HIDE DEF m
  <1>4. /\ part \in Text /\ Len(part) = IF m <= b THEN b - m + 1 ELSE 0
        /\ \A i \in 1..(b - m + 1) : part[i] = t[m + i - 1]
    BY <1>1, SubText
  <1> HIDE DEF part
  <1>5. part \in Text /\ Len(part) = b - a /\ \A i \in 1..(b - a) : part[i] = t[a + i]
    BY <1>2, <1>3, <1>4
  <1> QED  BY <1>5 DEF part, m

LEMMA Joins ==
  ASSUME NEW s \in Text, NEW t \in Text
  PROVE  /\ s \o t \in Text
         /\ Len(s \o t) = Len(s) + Len(t)
         /\ \A i \in 1..(Len(s) + Len(t)) :
              (s \o t)[i] = IF i <= Len(s) THEN s[i] ELSE t[i - Len(s)]
  BY ConcatProperties DEF Text

LEMMA SameText ==
  ASSUME NEW s \in Text, NEW t \in Text, Len(s) = Len(t), \A i \in 1..Len(s) : s[i] = t[i]
  PROVE  s = t
  BY SeqEqual DEF Text

LEMMA WholeText ==
  ASSUME NEW t \in Text
  PROVE  SubSeq(t, 1, Len(t)) = t
  <1> DEFINE all == SubSeq(t, 0 + 1, Len(t))
  <1>1. Len(t) \in Nat /\ Len(t) - 0 = Len(t) /\ \A i \in 1..Len(t) : 0 + i = i
    BY TextTypes
  <1>2. /\ all \in Text /\ Len(all) = Len(t) - 0
        /\ \A i \in 1..(Len(t) - 0) : all[i] = t[0 + i]
    BY <1>1, SubPart
  <1> HIDE DEF all
  <1>3. all = t
    BY <1>1, <1>2, SameText
  <1>4. 0 + 1 = 1
    OBVIOUS
  <1> QED  BY <1>3, <1>4 DEF all

(* One text is the beginning of another. *)
LEMMA PrefixPointwise ==
  ASSUME NEW s \in Text, NEW t \in Text
  PROVE  IsPrefix(s, t) <=> Len(s) <= Len(t) /\ \A i \in 1..Len(s) : s[i] = t[i]
  <1> DEFINE n == Len(s)
  <1>1. n \in Nat /\ Len(t) \in Nat
    BY TextTypes
  <1>2. CASE ~(n <= Len(t))
    BY <1>2 DEF IsPrefix
  <1>3. CASE n <= Len(t)
    <2>1. /\ SubSeq(s, 1, n) \in Text /\ Len(SubSeq(s, 1, n)) = n
          /\ \A i \in 1..n : SubSeq(s, 1, n)[i] = s[i]
      BY <1>1, SubText
    <2>2. /\ SubSeq(t, 1, n) \in Text /\ Len(SubSeq(t, 1, n)) = n
          /\ \A i \in 1..n : SubSeq(t, 1, n)[i] = t[i]
      BY <1>1, <1>3, SubText
    <2>3. SubSeq(s, 1, n) = SubSeq(t, 1, n) <=> \A i \in 1..n : s[i] = t[i]
      <3>1. ASSUME \A i \in 1..n : s[i] = t[i]
            PROVE  SubSeq(s, 1, n) = SubSeq(t, 1, n)
        BY <2>1, <2>2, <3>1, SameText
      <3> QED  BY <2>1, <2>2, <3>1
    <2> QED  BY <1>3, <2>3 DEF IsPrefix
  <1> QED  BY <1>2, <1>3

(* What a text is with a new one in the place of the characters between a   *)
(* and b.                                                                   *)
Splice(t, a, b, new) == SubSeq(t, 1, a) \o new \o SubSeq(t, b + 1, Len(t))

LEMMA SpliceLemma ==
  ASSUME NEW t \in Text, NEW new \in Text, NEW a \in 0..Len(t), NEW b \in a..Len(t)
  PROVE  LET r == Splice(t, a, b, new) IN
         /\ r \in Text
         /\ Len(r) = Len(t) - (b - a) + Len(new)
         /\ \A i \in 1..a : r[i] = t[i]
         /\ \A i \in 1..Len(new) : r[a + i] = new[i]
         /\ \A i \in 1..(Len(t) - b) : r[a + Len(new) + i] = t[b + i]
  <1> DEFINE left == SubSeq(t, 1, a)
             right == SubSeq(t, b + 1, Len(t))
             r == Splice(t, a, b, new)
  <1>1. Len(t) \in Nat /\ Len(new) \in Nat /\ a \in Nat /\ b \in Nat /\ a <= b /\ b <= Len(t)
    BY TextTypes
  <1>2. left \in Text /\ Len(left) = a /\ \A i \in 1..a : left[i] = t[i]
    BY <1>1, SubText
  <1>3. right \in Text /\ Len(right) = Len(t) - b /\ \A i \in 1..(Len(t) - b) : right[i] = t[b + i]
    BY <1>1, SubText
  <1> HIDE DEF left, right
  <1>4. /\ left \o new \in Text /\ Len(left \o new) = a + Len(new)
        /\ \A i \in 1..(a + Len(new)) :
             (left \o new)[i] = IF i <= a THEN left[i] ELSE new[i - a]
    BY <1>2, Joins
  <1> DEFINE most == left \o new
  <1>5. /\ most \in Text /\ Len(most) = a + Len(new)
        /\ \A i \in 1..(a + Len(new)) : most[i] = IF i <= a THEN left[i] ELSE new[i - a]
    BY <1>4
  <1>6. r = most \o right
    BY DEF Splice, left, right
  <1> HIDE DEF r, most
  <1>7. /\ r \in Text
        /\ Len(r) = a + Len(new) + (Len(t) - b)
        /\ \A i \in 1..(a + Len(new) + (Len(t) - b)) :
             r[i] = IF i <= a + Len(new) THEN most[i] ELSE right[i - (a + Len(new))]
    <2>1. /\ r \in Text /\ Len(r) = Len(most) + Len(right)
          /\ \A i \in 1..(Len(most) + Len(right)) :
               r[i] = IF i <= Len(most) THEN most[i] ELSE right[i - Len(most)]
      BY <1>3, <1>5, <1>6, Joins
    <2>2. Len(most) + Len(right) = a + Len(new) + (Len(t) - b)
      BY <1>1, <1>3, <1>5
    <2> QED  BY <1>5, <2>1, <2>2
  <1>8. ASSUME NEW i \in 1..a  PROVE  r[i] = t[i]
    BY <1>1, <1>2, <1>5, <1>7
  <1>9. ASSUME NEW i \in 1..Len(new)  PROVE  r[a + i] = new[i]
    BY <1>1, <1>5, <1>7
  <1>10. ASSUME NEW i \in 1..(Len(t) - b)  PROVE  r[a + Len(new) + i] = t[b + i]
    <2>1. /\ a + Len(new) + i \in 1..(a + Len(new) + (Len(t) - b))
          /\ ~(a + Len(new) + i <= a + Len(new))
          /\ a + Len(new) + i - (a + Len(new)) = i
      BY <1>1
    <2>2. r[a + Len(new) + i] = right[i]
      BY <1>7, <2>1
    <2> QED  BY <1>3, <2>2
  <1>11. r \in Text /\ Len(r) = Len(t) - (b - a) + Len(new)
    BY <1>1, <1>7
  <1> QED  BY <1>8, <1>9, <1>10, <1>11 DEF r

(* A suggestion continues the line up to its end, character by character. *)
Fits(s, t) == s.end <= Len(t) /\ IsPrefix(SubSeq(t, 1, s.end), s.text)

LEMMA FitsPointwise ==
  ASSUME NEW s \in Suggestions, NEW t \in Text
  PROVE  Fits(s, t) <=> /\ s.end <= Len(t) /\ s.end <= Len(s.text)
                        /\ \A i \in 1..s.end : t[i] = s.text[i]
  <1>1. s.end \in Nat /\ s.text \in Text /\ Len(t) \in Nat
    BY TextTypes DEF Suggestions
  <1>2. CASE ~(s.end <= Len(t))
    BY <1>2 DEF Fits
  <1>3. CASE s.end <= Len(t)
    <2> DEFINE head == SubSeq(t, 1, s.end)
    <2>1. head \in Text /\ Len(head) = s.end /\ \A i \in 1..s.end : head[i] = t[i]
      BY <1>1, <1>3, SubText
    <2>2. IsPrefix(head, s.text) <=> Len(head) <= Len(s.text) /\ \A i \in 1..Len(head) : head[i] = s.text[i]
      BY <1>1, <2>1, PrefixPointwise
    <2> QED  BY <1>3, <2>1, <2>2 DEF Fits
  <1> QED  BY <1>2, <1>3

-----------------------------------------------------------------------------
(* Edits.                                                                    *)

LEMMA EditFields ==
  ASSUME NEW a, NEW b, NEW new, NEW p
  PROVE  /\ Edit(a, b, new).start = a /\ Edit(a, b, new).end = b /\ Edit(a, b, new).new = new
         /\ LET e == [Edit(a, b, new) EXCEPT !.before = p] IN
            e.start = a /\ e.end = b /\ e.new = new /\ e.before = p
  <1> DEFINE e == Edit(a, b, new)
  <1>1. e = [start |-> a, end |-> b, old |-> <<>>, new |-> new,
             before |-> 0, undone |-> None, group |-> None]
    BY DEF Edit
  <1> HIDE DEF e
  <1>2. e.start = a /\ e.end = b /\ e.new = new
    BY <1>1
  <1>3. LET f == [e EXCEPT !.before = p] IN
        f.start = a /\ f.end = b /\ f.new = new /\ f.before = p
    BY <1>1
  <1> QED  BY <1>2, <1>3 DEF e

LEMMA ApplyIsSplice ==
  ASSUME NEW t, NEW a, NEW b, NEW new
  PROVE  Apply(t, Edit(a, b, new)) = Splice(t, a, b, new)
  <1> DEFINE e == Edit(a, b, new)
  <1>1. e.start = a /\ e.end = b /\ e.new = new
    BY EditFields
  <1> HIDE DEF e
  <1>2. Apply(t, e) = Splice(t, a, b, new)
    BY <1>1 DEF Apply, Splice
  <1> QED  BY <1>2 DEF e

(* Where the cursor is put: it stays at the characters it was at. *)
LEMMA CursorLemma ==
  ASSUME NEW n \in Nat, NEW a \in 0..n, NEW b \in a..n, NEW p \in 0..n, NEW new \in Text
  PROVE  LET c == CursorAfter([Edit(a, b, new) EXCEPT !.before = p]) IN
         /\ c = IF p <= a THEN p + Len(new)
                ELSE IF p <= b THEN a + Len(new) ELSE p - (b - a) + Len(new)
         /\ c \in 0..(n - (b - a) + Len(new))
  <1> DEFINE e == [Edit(a, b, new) EXCEPT !.before = p]
  <1>1. e.start = a /\ e.end = b /\ e.new = new /\ e.before = p
    BY EditFields
  <1>2. Len(new) \in Nat
    BY TextTypes
  <1> HIDE DEF e
  <1>3. CursorAfter(e) = IF p <= a THEN p + Len(new)
                         ELSE IF p <= b THEN a + Len(new) ELSE p - (b - a) + Len(new)
    BY <1>1, <1>2 DEF CursorAfter
  <1> QED  BY <1>2, <1>3 DEF e

LEMMA CancelledTypes ==
  ASSUME NEW reqs, reqs \subseteq Requests, \A r, s \in reqs : r = s
  PROVE  Cancelled(reqs) \subseteq Requests /\ \A r, s \in Cancelled(reqs) : r = s
  BY DEF Cancelled, Requests

LEMMA NothingTypes ==
  /\ Nothing \in Suggestions /\ Nothing.end = 0 /\ Nothing.back = FALSE
  /\ <<>> \in Text /\ Len(<<>>) = 0
  BY DEF Nothing, Suggestions, Text

LEMMA FitsNothing ==
  SuggestionFits <=> /\ suggestion # Nothing => Fits(suggestion, text)
                     /\ saved # Nothing => Fits(saved, text)
  BY DEF SuggestionFits, Fits

(* The parts of TypeOK. *)
LEMMA Types ==
  ASSUME TypeOK
  PROVE  /\ text \in Text /\ position \in 0..Len(text) /\ Len(text) \in Nat
         /\ suggestion \in Suggestions /\ saved \in Suggestions
         /\ suppress \in BOOLEAN /\ ok \in BOOLEAN
         /\ suggestion.end \in Nat /\ suggestion.text \in Text /\ suggestion.back \in BOOLEAN
         /\ saved.end \in Nat /\ saved.text \in Text /\ Len(suggestion.text) \in Nat
  BY TextTypes DEF TypeOK, Suggestions

(* A suggestion that stands elsewhere than at the end of the line. *)
Displaced == suggestion # Nothing /\ suggestion.end # Len(text)

(* What is left of a suggestion that fits after an edit before its end. *)
LEMMA KeptFits ==
  ASSUME NEW s \in Suggestions, NEW t \in Text, NEW new \in Text, Fits(s, t),
         NEW a \in 0..Len(t), NEW b \in a..Len(t), s.end <= a
  PROVE  Fits(s, Splice(t, a, b, new))
  <1> DEFINE r == Splice(t, a, b, new)
  <1>1. Len(t) \in Nat /\ Len(new) \in Nat /\ s.end \in Nat
    BY TextTypes DEF Suggestions
  <1>2. r \in Text /\ Len(r) = Len(t) - (b - a) + Len(new) /\ \A i \in 1..a : r[i] = t[i]
    BY SpliceLemma
  <1>3. s.end <= Len(s.text) /\ \A i \in 1..s.end : t[i] = s.text[i]
    BY FitsPointwise
  <1> HIDE DEF r
  <1>4. s.end <= Len(r) /\ \A i \in 1..s.end : r[i] = s.text[i]
    BY <1>1, <1>2, <1>3
  <1>5. Fits(s, r)
    BY <1>2, <1>3, <1>4, FitsPointwise
  <1> QED  BY <1>5 DEF r

(* An edit up to the end of the suggestion with what it goes on with. *)
LEMMA PreservedFits ==
  ASSUME NEW s \in Suggestions, NEW t \in Text, NEW new \in Text, Fits(s, t),
         NEW a \in 0..Len(t), NEW b \in a..Len(t), s.end = b, a <= Len(s.text),
         IsPrefix(new, SubSeq(s.text, a + 1, Len(s.text)))
  PROVE  LET n == [s EXCEPT !.end = @ - (b - a) + Len(new)] IN
         /\ n \in Suggestions /\ n.end = a + Len(new) /\ n.back = s.back
         /\ Fits(n, Splice(t, a, b, new))
  <1> DEFINE r == Splice(t, a, b, new)
             rest == SubSeq(s.text, a + 1, Len(s.text))
             n == [s EXCEPT !.end = @ - (b - a) + Len(new)]
  <1>1. /\ Len(t) \in Nat /\ Len(new) \in Nat /\ s.end \in Nat /\ s.text \in Text
        /\ Len(s.text) \in Nat /\ a \in Nat /\ b \in Nat
    BY TextTypes DEF Suggestions
  <1>2. /\ r \in Text /\ Len(r) = Len(t) - (b - a) + Len(new)
        /\ \A i \in 1..a : r[i] = t[i]
        /\ \A i \in 1..Len(new) : r[a + i] = new[i]
    BY SpliceLemma
  <1>3. s.end <= Len(s.text) /\ \A i \in 1..s.end : t[i] = s.text[i]
    BY FitsPointwise
  <1>4. /\ rest \in Text /\ Len(rest) = Len(s.text) - a
        /\ \A i \in 1..(Len(s.text) - a) : rest[i] = s.text[a + i]
    BY <1>1, SubText
  <1>5. Len(new) <= Len(rest) /\ \A i \in 1..Len(new) : new[i] = rest[i]
    BY <1>4, PrefixPointwise
  <1>6. n \in Suggestions /\ n.end = a + Len(new) /\ n.back = s.back /\ n.text = s.text
    <2>1. s.end - (b - a) + Len(new) = a + Len(new) /\ a + Len(new) \in Nat
      BY <1>1
    <2>2. n = [s EXCEPT !.end = a + Len(new)]
      BY <2>1
    <2> QED  BY <2>1, <2>2 DEF Suggestions
  <1> HIDE DEF r, rest, n
  <1>7. n.end <= Len(r) /\ n.end <= Len(n.text)
    BY <1>1, <1>2, <1>4, <1>5, <1>6
  <1>8. ASSUME NEW i \in 1..n.end  PROVE  r[i] = n.text[i]
    <2>1. CASE i <= a
      BY <1>1, <1>2, <1>3, <1>6, <2>1
    <2>2. CASE i > a
      <3>1. i - a \in 1..Len(new) /\ a + (i - a) = i
        BY <1>1, <1>6, <2>2
      <3>2. r[a + (i - a)] = new[i - a] /\ new[i - a] = rest[i - a]
        BY <1>2, <1>5, <3>1
      <3>3. i - a \in 1..(Len(s.text) - a)
        BY <1>1, <1>4, <1>5, <3>1
      <3>4. rest[i - a] = s.text[a + (i - a)]
        BY <1>4, <3>3
      <3> QED  BY <1>6, <3>1, <3>2, <3>4
    <2> QED  BY <1>1, <1>6, <2>1, <2>2
  <1>9. Fits(n, r)
    BY <1>2, <1>6, <1>7, <1>8, FitsPointwise
  <1> QED  BY <1>6, <1>9 DEF n, r

(* What an edit does to the line and the cursor, and to the suggestion and  *)
(* the one kept aside, which fit afterwards.  Only what is restored can be  *)
(* displaced, if nothing was before, and nothing comes from nothing.        *)
LEMMA PushEditLemma ==
  ASSUME TypeOK, SuggestionFits, NEW a \in 0..Len(text), NEW b \in a..Len(text),
         NEW new \in Text, NEW before \in BOOLEAN, PushEditOf(Edit(a, b, new), before)
  PROVE  /\ text' = Splice(text, a, b, new)
         /\ text' \in Text /\ Len(text') = Len(text) - (b - a) + Len(new)
         /\ position' = IF position <= a THEN position + Len(new)
                        ELSE IF position <= b THEN a + Len(new)
                        ELSE position - (b - a) + Len(new)
         /\ position' \in 0..Len(text')
         /\ suggestion' \in Suggestions /\ saved' \in Suggestions /\ suppress' \in BOOLEAN
         /\ next' = Cancelled(next) /\ computing' = Cancelled(computing)
         /\ overtaken' = in_flight
         /\ SuggestionFits'
         /\ Displaced' => \/ Displaced /\ suggestion'.back = suggestion.back
                          \/ a # b /\ (suggestion'.back \/ text' # in_flight)
         /\ suggestion = Nothing /\ saved = Nothing => suggestion' = Nothing /\ saved' = Nothing
  <1> DEFINE e == Edit(a, b, new)
             r == Splice(text, a, b, new)
  <1>1. e.start = a /\ e.end = b /\ e.new = new
    BY EditFields
  <1>2. Apply(text, e) = r
    BY ApplyIsSplice
  <1>3. /\ text \in Text /\ position \in 0..Len(text) /\ Len(text) \in Nat
        /\ suggestion \in Suggestions /\ saved \in Suggestions
        /\ Len(new) \in Nat /\ a \in Nat /\ b \in Nat /\ a <= b /\ b <= Len(text)
        /\ suggestion.end \in Nat /\ saved.end \in Nat /\ suggestion.back \in BOOLEAN
    BY Types, TextTypes
  <1>4. r \in Text /\ Len(r) = Len(text) - (b - a) + Len(new)
    BY <1>3, SpliceLemma
  <1>5. /\ text' = r /\ position' = CursorAfter([e EXCEPT !.before = position])
        /\ suppress' \in BOOLEAN
        /\ next' = Cancelled(next) /\ computing' = Cancelled(computing)
        /\ overtaken' = in_flight
    BY <1>2 DEF PushEditOf, CommandLineChanged
  <1>6. /\ position' = IF position <= a THEN position + Len(new)
                       ELSE IF position <= b THEN a + Len(new)
                       ELSE position - (b - a) + Len(new)
        /\ position' \in 0..(Len(text) - (b - a) + Len(new))
    <2> DEFINE moved == CursorAfter([e EXCEPT !.before = position])
    <2>1. /\ moved = IF position <= a THEN position + Len(new)
                     ELSE IF position <= b THEN a + Len(new)
                     ELSE position - (b - a) + Len(new)
          /\ moved \in 0..(Len(text) - (b - a) + Len(new))
      BY <1>3, CursorLemma, Zenon
    <2>2. position' = moved
      BY <1>5
    <2> QED  BY <2>1, <2>2, Zenon
  <1> DEFINE kept == [suggestion EXCEPT !.end = @ - (b - a) + Len(new)]
             restored == [saved EXCEPT !.back = (r = in_flight)]
  <1>7. /\ suggestion' = IF Preserves(e) THEN kept ELSE IF Restores(e) THEN restored ELSE Nothing
        /\ saved' = IF Diverges(e) THEN suggestion ELSE Nothing
    <2>1. /\ suggestion' = IF Preserves(e)
                            THEN [suggestion EXCEPT !.end = @ - (e.end - e.start) + Len(e.new)]
                            ELSE IF Restores(e)
                            THEN [saved EXCEPT !.back = (Apply(text, e) = in_flight)]
                            ELSE Nothing
          /\ saved' = IF Diverges(e) THEN suggestion ELSE Nothing
      BY Zenon DEF PushEditOf
    <2> HIDE DEF e, r
    <2>2. /\ [suggestion EXCEPT !.end = @ - (e.end - e.start) + Len(e.new)] = kept
          /\ [saved EXCEPT !.back = (Apply(text, e) = in_flight)] = restored
      BY <1>1, <1>2, Zenon
    <2> QED  BY <2>1, <2>2
  <1> HIDE DEF e, r
  <1>8. CASE Preserves(e)
    <2>1. /\ suggestion # Nothing /\ suggestion.end = b /\ a <= Len(suggestion.text)
          /\ IsPrefix(new, SubSeq(suggestion.text, a + 1, Len(suggestion.text)))
      BY <1>1, <1>8 DEF Preserves, Remaining
    <2>2. suggestion' = kept /\ saved' = Nothing
      BY <1>7, <1>8 DEF Diverges
    <2>3. Fits(suggestion, text)
      BY <2>1, FitsNothing
    <2>4. /\ kept \in Suggestions /\ kept.end = a + Len(new) /\ kept.back = suggestion.back
          /\ Fits(kept, r)
      BY <1>3, <2>1, <2>3, PreservedFits DEF r
    <2> HIDE DEF kept
    <2>5. Displaced' => Displaced /\ suggestion'.back = suggestion.back
      BY <1>3, <1>4, <1>5, <2>1, <2>2, <2>4 DEF Displaced
    <2>6. SuggestionFits'
      BY <1>5, <2>2, <2>4 DEF SuggestionFits, Fits
    <2> QED  BY <1>4, <1>5, <1>6, <2>1, <2>2, <2>4, <2>5, <2>6, NothingTypes DEF r
  <1>9. CASE Restores(e)
    <2>1. saved # Nothing /\ a = saved.end /\ a # b /\ ~Preserves(e) /\ ~Diverges(e)
      BY <1>1, <1>9 DEF Restores
    <2>2. suggestion' = restored /\ saved' = Nothing
      BY <1>7, <1>9, <2>1
    <2>3. /\ restored \in Suggestions /\ restored.end = saved.end /\ restored.text = saved.text
          /\ restored.back = (r = in_flight)
      BY <1>3 DEF Suggestions
    <2>4. Fits(saved, r)
      BY <1>3, <2>1, FitsNothing, KeptFits DEF r
    <2> HIDE DEF restored
    <2>5. Fits(restored, r)
      BY <2>3, <2>4 DEF Fits
    <2>6. SuggestionFits'
      BY <1>5, <2>2, <2>5 DEF SuggestionFits, Fits
    <2> QED  BY <1>4, <1>5, <1>6, <2>1, <2>2, <2>3, <2>6, NothingTypes DEF r
  <1>10. CASE ~Preserves(e) /\ ~Restores(e)
    <2>1. suggestion' = Nothing
      BY <1>7, <1>10
    <2>2. CASE Diverges(e)
      <3>1. saved' = suggestion /\ suggestion # Nothing /\ suggestion.end = a
        BY <1>1, <1>7, <2>2 DEF Diverges
      <3>2. Fits(suggestion, r)
        BY <1>3, <3>1, FitsNothing, KeptFits DEF r
      <3>3. SuggestionFits'
        BY <1>5, <2>1, <3>1, <3>2 DEF SuggestionFits, Fits
      <3> QED  BY <1>3, <1>4, <1>5, <1>6, <2>1, <3>1, <3>3, NothingTypes DEF r, Displaced
    <2>3. CASE ~Diverges(e)
      <3>1. saved' = Nothing
        BY <1>7, <2>3
      <3>2. SuggestionFits'
        BY <2>1, <3>1 DEF SuggestionFits
      <3> QED  BY <1>4, <1>5, <1>6, <2>1, <3>1, <3>2, NothingTypes DEF r, Displaced
    <2> QED  BY <2>2, <2>3
  <1> QED  BY <1>8, <1>9, <1>10

-----------------------------------------------------------------------------
(* The kill ring.                                                            *)

LEMMA LeastNatural ==
  ASSUME NEW S \in SUBSET Nat, S # {}
  PROVE  \E x \in S : \A y \in S : x <= y
  <1>1. IsWellFoundedOn(OpToRel(<, Nat), Nat)
    BY NatLessThanWellFounded
  <1>2. PICK x \in S : \A y \in S : ~ (<<y, x>> \in OpToRel(<, Nat))
    BY <1>1, WFMin
  <1>3. \A y \in S : ~ (y < x)
    BY <1>2 DEF OpToRel
  <1> QED  BY <1>3

(* Taking an entry out of a ring leaves a ring. *)
LEMMA RemoveFirstType ==
  ASSUME NEW entries \in Seq(Text), NEW item
  PROVE  RemoveFirst(entries, item) \in Seq(Text)
  <1> DEFINE Places == {i \in 1..Len(entries) : entries[i] = item}
  <1>1. CASE ~ \E i \in 1..Len(entries) : entries[i] = item
    BY <1>1 DEF RemoveFirst
  <1>2. CASE \E i \in 1..Len(entries) : entries[i] = item
    <2>1. Places \in SUBSET Nat /\ Places # {}
      BY <1>2
    <2>2. \E x \in Places : \A y \in Places : x <= y
      <3> HIDE DEF Places
      <3> QED  BY <2>1, LeastNatural
    <2>3. Min(Places) \in Places
      <3> HIDE DEF Places
      <3> QED  BY <2>2 DEF Min
    <2>4. RemoveFirst(entries, item) = RemoveAt(entries, Min(Places))
      BY <1>2, <2>1 DEF RemoveFirst, SelectInSeq
    <2> DEFINE at == Min(Places)
    <2>5. at \in 1..Len(entries) /\ Len(entries) \in Nat
      BY <2>3
    <2> HIDE DEF at
    <2>6. SubSeq(entries, 1, at - 1) \in Seq(Text) /\ SubSeq(entries, at + 1, Len(entries)) \in Seq(Text)
      BY <2>5, SubSeqProperties
    <2>7. RemoveAt(entries, at) \in Seq(Text)
      BY <2>6, ConcatProperties DEF RemoveAt
    <2> QED  BY <2>4, <2>7 DEF at
  <1> QED  BY <1>1, <1>2

RingOK ==
  /\ ring \in Seq(Text) /\ kill_item \in Text /\ yank_len \in Nat
  /\ whole \subseteq Text /\ clicked \in BOOLEAN

LEMMA RotatedType ==
  ASSUME NEW entries \in Seq(Text), entries # <<>>
  PROVE  /\ Rotated(entries) \in Seq(Text) /\ Rotated(entries) # <<>>
         /\ Head(Rotated(entries)) \in Text
  <1>1. Head(entries) \in Text /\ Tail(entries) \in Seq(Text)
    BY HeadTailProperties
  <1>2. <<Head(entries)>> \in Seq(Text) /\ Len(<<Head(entries)>>) = 1
    BY <1>1
  <1>3. /\ Rotated(entries) \in Seq(Text)
        /\ Len(Rotated(entries)) = Len(Tail(entries)) + 1
    BY <1>1, <1>2, ConcatProperties DEF Rotated
  <1>4. Len(Tail(entries)) \in Nat
    BY <1>1, LenProperties
  <1>5. Rotated(entries) # <<>>
    BY <1>3, <1>4, EmptySeq
  <1> QED  BY <1>3, <1>5, HeadTailProperties

LEMMA YankedType ==
  ASSUME RingOK
  PROVE  Yanked \in Text /\ Len(Yanked) \in Nat /\ (Len(Yanked) # 0 => ring # <<>> /\ Yanked = Head(ring))
  <1>1. ring # <<>> => Head(ring) \in Text
    BY HeadTailProperties DEF RingOK
  <1> QED  BY <1>1, NothingTypes, TextTypes DEF Yanked

(* A kill joins what it takes to the item on top, or begins one. *)
LEMMA JoinedType ==
  ASSUME RingOK, NEW killed \in Text, NEW prepend \in BOOLEAN
  PROVE  Joined(killed, prepend) \in Text
  BY Joins DEF RingOK, Joined

-----------------------------------------------------------------------------
(* The inductive invariant.  A displaced suggestion was restored on the     *)
(* line in flight, or is about to be given up.                              *)
PlacedInv == Displaced => suggestion.back \/ (phase = "update" /\ text # in_flight)

(* What was found goes on with the line that it was searched for. *)
ResultsInv ==
  \A i \in 1..Len(results) :
    results[i].text # <<>> => IsPrefix(results[i].line, results[i].text)

(* Nothing is suggested where a behaviour uses the kill ring. *)
RestInv ==
  uses = "ring" => /\ ok = FALSE /\ saved = Nothing /\ results = <<>>
                   /\ next = {} /\ computing = {}

LineInv == TypeOK /\ SuggestionFits /\ PlacedInv /\ ResultsInv /\ RestInv

(* Everything but the command line and its suggestions. *)
SideOK ==
  /\ {ok, loaded} \subseteq BOOLEAN
  /\ in_flight \in Text
  /\ phase \in {"update", "read", "more", "panicked"}
  /\ next \subseteq Requests /\ (\A r, s \in next : r = s)
  /\ computing \subseteq Requests /\ (\A r, s \in computing : r = s)
  /\ results \in Seq(Results)
  /\ known \subseteq History

LEMMA TypeParts ==
  TypeOK <=> /\ text \in Text /\ position \in 0..Len(text)
             /\ suggestion \in Suggestions /\ saved \in Suggestions /\ suppress \in BOOLEAN
             /\ SideOK /\ RingOK
             /\ (uses = "ring" => suggestion = Nothing /\ in_flight = <<>>)
  BY DEF TypeOK, SideOK, RingOK

LEMMA InitInv == Init => LineInv
  <1> SUFFICES ASSUME Init  PROVE LineInv
    OBVIOUS
  <1>1. text \in Text /\ position \in 0..Len(text)
    <2>1. text \in Text
      BY CommandLineAssumption, NothingTypes DEF Init, Text
    <2> QED  BY <2>1, TextTypes DEF Init
  <1>2. SideOK
    <2>1. /\ ok \in BOOLEAN /\ loaded \in BOOLEAN /\ phase = "update" /\ known = History
          /\ next = {} /\ computing = {} /\ results = <<>> /\ in_flight = <<>>
      BY DEF Init
    <2>2. <<>> \in Seq(Results)
      BY EmptySeq
    <2> QED  BY <2>1, <2>2, NothingTypes DEF SideOK
  <1>3. RingOK
    <2>1. <<>> \in Seq(Text)
      BY EmptySeq
    <2> QED  BY <2>1, NothingTypes DEF Init, RingOK
  <1>4. TypeOK
    BY <1>1, <1>2, <1>3, TypeParts, NothingTypes DEF Init
  <1>5. suggestion = Nothing /\ saved = Nothing /\ results = <<>>
    BY DEF Init
  <1>6. SuggestionFits /\ PlacedInv /\ ResultsInv
    BY <1>5 DEF SuggestionFits, PlacedInv, Displaced, ResultsInv
  <1>7. RestInv
    BY DEF Init, RestInv
  <1> QED  BY <1>4, <1>6, <1>7 DEF LineInv

(* A step that leaves the line and at most gives up its suggestion. *)
LEMMA SameLineStep ==
  ASSUME LineInv, SameLine, UNCHANGED <<saved, results, loaded, uses>>,
         phase \in {"read", "more"}, phase' = "update",
         position' \in 0..Len(text), suggestion' \in {suggestion, Nothing},
         suppress' \in BOOLEAN, ok' \in BOOLEAN, uses = "ring" => ok' = ok,
         known' \subseteq known, RingOK'
  PROVE  LineInv'
  <1>1. SideOK'
    BY DEF LineInv, TypeOK, SideOK, SameLine
  <1>2. TypeOK'
    <2>1. /\ text' \in Text /\ position' \in 0..Len(text')
          /\ suggestion' \in Suggestions /\ saved' \in Suggestions
          /\ (uses' = "ring" => suggestion' = Nothing /\ in_flight' = <<>>)
      BY NothingTypes DEF LineInv, TypeOK, SameLine
    <2> QED  BY <1>1, <2>1 DEF TypeOK, SideOK, RingOK
  <1>3. SuggestionFits'
    BY DEF LineInv, SuggestionFits, SameLine
  <1>4. PlacedInv'
    BY DEF LineInv, PlacedInv, Displaced, SameLine
  <1>5. ResultsInv' /\ RestInv'
    BY DEF LineInv, ResultsInv, RestInv, SameLine
  <1> QED  BY <1>2, <1>3, <1>4, <1>5 DEF LineInv

(* A step that edits the line. *)
LEMMA EditStep ==
  ASSUME LineInv, UNCHANGED <<results, loaded, uses, ok, in_flight, known>>,
         NEW a \in 0..Len(text), NEW b \in a..Len(text), NEW new \in Text,
         NEW before \in BOOLEAN, PushEditOf(Edit(a, b, new), before),
         phase \in {"read", "more"}, phase' = "update" \/ (phase' = "more" /\ a = b), RingOK'
  PROVE  LineInv'
  <1>1. TypeOK /\ SuggestionFits
    BY DEF LineInv
  <1>2. /\ text' \in Text /\ position' \in 0..Len(text')
        /\ suggestion' \in Suggestions /\ saved' \in Suggestions /\ suppress' \in BOOLEAN
        /\ next' = Cancelled(next) /\ computing' = Cancelled(computing)
        /\ SuggestionFits'
        /\ Displaced' => \/ Displaced /\ suggestion'.back = suggestion.back
                         \/ a # b /\ (suggestion'.back \/ text' # in_flight)
        /\ suggestion = Nothing /\ saved = Nothing => suggestion' = Nothing /\ saved' = Nothing
    BY <1>1, PushEditLemma
  <1>3. SideOK'
    BY <1>1, <1>2, CancelledTypes DEF TypeOK, SideOK
  <1>4. RestInv'
    BY <1>2 DEF LineInv, TypeOK, RestInv, Cancelled
  <1>5. uses' = "ring" => suggestion' = Nothing /\ in_flight' = <<>>
    BY <1>2 DEF LineInv, TypeOK, RestInv
  <1>6. PlacedInv'
    BY <1>2 DEF LineInv, PlacedInv
  <1>7. ResultsInv'
    BY DEF LineInv, ResultsInv
  <1>8. TypeOK'
    BY <1>2, <1>3, <1>5 DEF TypeOK, SideOK, RingOK
  <1> QED  BY <1>2, <1>4, <1>6, <1>7, <1>8 DEF LineInv

(* A step that puts another line in the place of this one. *)
LEMMA NewLineStep ==
  ASSUME LineInv, UNCHANGED <<results, loaded, uses, ok, in_flight, known>>,
         text' \in Text, position' \in 0..Len(text'), suppress' \in BOOLEAN,
         suggestion' = Nothing, saved' = Nothing, CommandLineChanged,
         phase' = "update", RingOK'
  PROVE  LineInv'
  <1>1. next' = Cancelled(next) /\ computing' = Cancelled(computing)
    BY DEF CommandLineChanged
  <1>2. SideOK'
    BY <1>1, CancelledTypes DEF LineInv, TypeOK, SideOK
  <1>3. RestInv'
    BY <1>1 DEF LineInv, RestInv, Cancelled
  <1>4. SuggestionFits' /\ PlacedInv' /\ ResultsInv'
    BY DEF LineInv, SuggestionFits, PlacedInv, Displaced, ResultsInv
  <1>5. uses' = "ring" => suggestion' = Nothing /\ in_flight' = <<>>
    BY DEF LineInv, TypeOK
  <1>6. TypeOK'
    BY <1>2, <1>5, NothingTypes DEF TypeOK, SideOK, RingOK
  <1> QED  BY <1>3, <1>4, <1>6 DEF LineInv

-----------------------------------------------------------------------------
(* The steps of the reader.                                                  *)

LEMMA PlainStep ==
  ASSUME Plain, LineInv
  PROVE  /\ RingOK' /\ phase \in {"read", "more"} /\ phase' = "update"
         /\ UNCHANGED <<results, loaded, uses>>
  BY DEF Plain, Command, Event, LineInv, TypeOK, RingOK

LEMMA CharTypes ==
  ASSUME NEW c \in Chars
  PROVE  <<c>> \in Text /\ Len(<<c>>) = 1
  BY DEF Text

LEMMA SuggestingStep ==
  ASSUME LineInv, Suggesting, uses = "suggestions"
  PROVE  LineInv'
  <1>1. /\ text \in Text /\ position \in 0..Len(text) /\ Len(text) \in Nat
        /\ suggestion \in Suggestions /\ saved \in Suggestions
        /\ suppress \in BOOLEAN /\ ok \in BOOLEAN
        /\ suggestion.end \in Nat /\ suggestion.text \in Text /\ Len(suggestion.text) \in Nat
        /\ position \in position..Len(text)
    BY Types DEF LineInv
  <1>2. ASSUME NEW c \in Chars, TypeChar(c)  PROVE LineInv'
    <2>1. PushEditOf(Edit(position, position, <<c>>), FALSE) /\ Plain
          /\ UNCHANGED <<ok, in_flight, known>>
      BY <1>2 DEF TypeChar, InsertString
    <2> QED  BY <1>1, <2>1, PlainStep, CharTypes, EditStep
  <1>3. ASSUME NEW new \in Bursts, Burst(new)  PROVE LineInv'
    <2>1. PushEditOf(Edit(position, position, new), FALSE)
          /\ UNCHANGED <<ok, in_flight, known, results, loaded, uses>>
          /\ phase \in {"read", "more"} /\ phase' = "more"
      BY <1>3 DEF Burst, InsertString
    <2>2. new \in Text
      BY CommandLineAssumption DEF Text
    <2>3. RingOK'
      BY <1>3 DEF Burst, LineInv, TypeOK, RingOK
    <2> QED  BY <1>1, <2>1, <2>2, <2>3, EditStep
  <1>4. ASSUME NEW start \in 0..Len(text), DeleteChar(start)  PROVE LineInv'
    <2>1. PushEditOf(Edit(start, start + 1, <<>>), TRUE) /\ Plain
          /\ UNCHANGED <<ok, in_flight, known>> /\ start \in 0..(Len(text) - 1)
      BY <1>4 DEF DeleteChar
    <2>2. PICK end \in start..Len(text) : end = start + 1
      BY <1>1, <2>1
    <2>3. PushEditOf(Edit(start, end, <<>>), TRUE)
      BY <2>1, <2>2
    <2>4. /\ RingOK' /\ phase \in {"read", "more"} /\ phase' = "update"
          /\ UNCHANGED <<results, loaded, uses, ok, in_flight, known>>
          /\ phase' = "update"
          /\ <<>> \in Text
      BY <2>1, PlainStep, NothingTypes
    <2> QED  BY <1>1, <2>2, <2>3, <2>4, EditStep
  <1>5. ASSUME NEW new \in Lines, UndoOrRedo(new)  PROVE LineInv'
    <2>1. new \in Text
      BY CommandLineAssumption DEF Lines, Text
    <2> QED  BY <1>5, <2>1, PlainStep, NewLineStep DEF UndoOrRedo
  <1>6. CASE AcceptAll
    <2>1. PushEditOf(Edit(0, suggestion.end, suggestion.text), suppress) /\ Plain
          /\ UNCHANGED <<ok, in_flight, known>> /\ Len(text) = suggestion.end
      BY <1>6 DEF AcceptAll, IsAtLine
    <2>2. 0 \in 0..Len(text) /\ suggestion.end \in 0..Len(text)
      BY <1>1, <2>1
    <2>3. suggestion.text \in Text /\ suppress \in BOOLEAN
      BY <1>1
    <2>4. /\ RingOK' /\ phase \in {"read", "more"}
          /\ phase' = "update"
          /\ UNCHANGED <<results, loaded, uses, ok, in_flight, known>>
      BY <2>1, PlainStep
    <2> QED  BY <2>1, <2>2, <2>3, <2>4, EditStep
  <1>7. CASE AcceptNext
    <2>1. PICK last \in suggestion.end..Len(suggestion.text) :
            PushEditOf(Edit(suggestion.end, suggestion.end,
                            SubSeq(suggestion.text, suggestion.end + 1, last)), suppress)
      BY <1>7 DEF AcceptNext
    <2>2. Plain /\ UNCHANGED <<ok, in_flight, known>> /\ Len(text) = suggestion.end
      BY <1>7 DEF AcceptNext, IsAtLine
    <2>3. SubSeq(suggestion.text, suggestion.end + 1, last) \in Text
      <3>1. /\ suggestion.end + 1 \in Int /\ last \in Int
            /\ suggestion.end + 1 >= 1 /\ last <= Len(suggestion.text)
        BY <1>1
      <3> QED  BY <1>1, <3>1, SubText
    <2>4. suggestion.end \in 0..Len(text) /\ suggestion.end \in suggestion.end..Len(text)
      BY <1>1, <2>2
    <2> QED  BY <1>1, <2>1, <2>2, <2>3, <2>4, PlainStep, EditStep
  <1>8. CASE SuppressAutosuggestion
    BY <1>1, <1>8, PlainStep, SameLineStep DEF SuppressAutosuggestion
  <1>9. CASE HistoryDelete
    BY <1>1, <1>9, PlainStep, SameLineStep DEF HistoryDelete
  <1>10. CASE Execute
    <2>1. text' = <<>> /\ position' \in 0..Len(text') /\ text' \in Text
      BY <1>10, NothingTypes DEF Execute
    <2> QED  BY <1>1, <1>10, <2>1, PlainStep, NewLineStep DEF Execute
  <1>11. CASE SetAutosuggestionEnabled
    BY <1>1, <1>11, PlainStep, SameLineStep DEF SetAutosuggestionEnabled, suggesting
  <1> QED  BY <1>2, <1>3, <1>4, <1>5, <1>6, <1>7, <1>8, <1>9, <1>10, <1>11 DEF Suggesting

(* A kill takes out what is killed, an entry of the ring makes room. *)
LEMMA KillStep ==
  ASSUME LineInv, NEW cmd, NEW a \in 0..Len(text), NEW b \in a..Len(text),
         NEW prepend \in BOOLEAN, NEW before \in BOOLEAN,
         Kill(cmd, [start |-> a, end |-> b], prepend, before)
  PROVE  LineInv'
  <1> DEFINE killed == SubSeq(text, a + 1, b)
             item == IF last_cmd # cmd THEN killed ELSE Joined(killed, prepend)
             rest == IF last_cmd # cmd THEN ring ELSE RemoveFirst(ring, kill_item)
  <1>1. /\ PushEditOf(Edit(a, b, <<>>), before)
        /\ UNCHANGED <<results, loaded, uses, ok, in_flight, known>>
        /\ phase \in {"read", "more"} /\ phase' = "update"
        /\ kill_item' = item /\ ring' = <<item>> \o rest
        /\ yank_len' = 0 /\ clicked' = FALSE
        /\ whole' = IF last_cmd # cmd THEN {text} ELSE whole
    <2>1. PICK range : range = [start |-> a, end |-> b]
      OBVIOUS
    <2>2. Kill(cmd, range, prepend, before)
      BY <2>1
    <2>3. range.start = a /\ range.end = b /\ Slice(text, range) = killed
      BY <2>1 DEF Slice
    <2>4. /\ UNCHANGED <<results, loaded, uses, ok, in_flight, known>>
          /\ phase \in {"read", "more"} /\ phase' = "update"
          /\ yank_len' = 0 /\ clicked' = FALSE
          /\ whole' = IF last_cmd # cmd THEN {text} ELSE whole
      BY <2>2 DEF Kill, Command, Event
    <2>5. PushEditOf(Edit(range.start, range.end, <<>>), before)
      BY <2>2 DEF Kill
    <2>6. /\ kill_item' = IF last_cmd # cmd THEN Slice(text, range)
                                            ELSE Joined(Slice(text, range), prepend)
          /\ ring' = <<kill_item'>> \o rest
      BY <2>2 DEF Kill
    <2>7. kill_item' = item
      <3> HIDE DEF killed
      <3>1. CASE last_cmd # cmd
        BY <2>3, <2>6, <3>1
      <3>2. CASE ~(last_cmd # cmd)
        BY <2>3, <2>6, <3>2
      <3> QED  BY <3>1, <3>2
    <2> QED  BY <2>3, <2>4, <2>5, <2>6, <2>7
  <1>2. text \in Text /\ Len(text) \in Nat /\ RingOK
    BY Types, TypeParts DEF LineInv
  <1>3. killed \in Text
    <2>1. a \in Nat /\ b \in Nat /\ a <= b /\ b <= Len(text)
      BY <1>2
    <2> QED  BY <1>2, <2>1, SubPart
  <1>4. item \in Text
    <2> HIDE DEF killed
    <2> QED  BY <1>2, <1>3, JoinedType
  <1>5. rest \in Seq(Text)
    BY <1>2, RemoveFirstType DEF RingOK
  <1> HIDE DEF item, rest, killed
  <1>6. ring' \in Seq(Text)
    BY <1>1, <1>4, <1>5, ConcatProperties
  <1>7. RingOK'
    BY <1>1, <1>2, <1>4, <1>6 DEF RingOK
  <1> QED  BY <1>1, <1>7, NothingTypes, EditStep

LEMMA NothingStep ==
  ASSUME LineInv, NEW cmd, NothingToKill(cmd)
  PROVE  LineInv'
  <1>1. RingOK'
    BY DEF NothingToKill, LineInv, TypeOK, RingOK
  <1>2. position' \in 0..Len(text) /\ suppress' \in BOOLEAN /\ ok' \in BOOLEAN
    BY Types DEF NothingToKill, LineInv, suggesting
  <1> QED  BY <1>1, <1>2, SameLineStep DEF NothingToKill, Command, Event, suggesting

(* What yank-pop replaces is before the cursor, if it does not panic. *)
YankInv == YankLen # 0 => ring # <<>>

LEMMA YankPopEdit ==
  ASSUME LineInv, YankInv, YankPop
  PROVE  /\ YankLen \in Nat \ {0} /\ position - YankLen \in 0..Len(text)
         /\ position \in (position - YankLen)..Len(text)
         /\ Rotated(ring) \in Seq(Text) /\ Rotated(ring) # <<>> /\ Head(Rotated(ring)) \in Text
         /\ ring' = Rotated(ring) /\ yank_len' = Len(Head(Rotated(ring)))
         /\ PushEditOf(Edit(position - YankLen, position, Head(Rotated(ring))), TRUE)
  <1>1. /\ YankLen # 0 /\ position >= YankLen /\ ring' = Rotated(ring)
        /\ yank_len' = Len(Head(ring'))
        /\ PushEditOf(Edit(position - YankLen, position, Head(ring')), TRUE)
    BY DEF YankPop
  <1>2. YankLen \in Nat
    BY DEF LineInv, TypeOK, YankLen
  <1>3. position \in 0..Len(text) /\ Len(text) \in Nat
    BY Types DEF LineInv
  <1>4. ring \in Seq(Text) /\ ring # <<>>
    BY <1>1 DEF LineInv, TypeOK, YankInv
  <1>5. /\ YankLen \in Nat \ {0} /\ position - YankLen \in 0..Len(text)
        /\ position \in (position - YankLen)..Len(text)
    BY <1>1, <1>2, <1>3
  <1>6. /\ Rotated(ring) \in Seq(Text) /\ Rotated(ring) # <<>>
        /\ Head(Rotated(ring)) \in Text
    BY <1>4, RotatedType
  <1>7. /\ yank_len' = Len(Head(Rotated(ring)))
        /\ PushEditOf(Edit(position - YankLen, position, Head(Rotated(ring))), TRUE)
    BY <1>1
  <1> QED  BY <1>1, <1>5, <1>6, <1>7

LEMMA KillRingStep ==
  ASSUME LineInv, YankInv, KillRing, uses = "ring"
  PROVE  LineInv'
  <1>1. /\ text \in Text /\ position \in 0..Len(text) /\ Len(text) \in Nat
        /\ suppress \in BOOLEAN /\ ok \in BOOLEAN /\ RingOK
        /\ position \in position..Len(text)
    BY Types, TypeParts DEF LineInv
  <1>2. ASSUME NEW p \in 0..Len(text), Click(p)  PROVE LineInv'
    <2>1. RingOK'
      BY <1>1, <1>2 DEF Click, RingOK
    <2> QED  BY <1>1, <1>2, <2>1, SameLineStep DEF Click, Event, suggesting
  <1>3. CASE KillLine
    <2>1. Len(text) \in position..Len(text)
      BY <1>1
    <2> QED  BY <1>1, <1>3, <2>1, KillStep, NothingStep DEF KillLine
  <1>4. CASE KillWholeLine
    <2>1. 0 \in 0..Len(text) /\ Len(text) \in 0..Len(text)
      BY <1>1
    <2> QED  BY <1>1, <1>4, <2>1, KillStep, NothingStep DEF KillWholeLine
  <1>5. CASE KillWord
    <2>1. ASSUME NEW end \in (position + 1)..Len(text),
                 Kill("kill-word", [start |-> position, end |-> end], FALSE, TRUE)
          PROVE  LineInv'
      <3>1. end \in position..Len(text)
        BY <1>1
      <3> QED  BY <1>1, <2>1, <3>1, KillStep
    <2> QED  BY <1>5, <2>1, NothingStep DEF KillWord
  <1>6. CASE BackwardKillWord
    <2>1. ASSUME NEW start \in 0..(position - 1),
                 Kill("backward-kill-word", [start |-> start, end |-> position], TRUE, TRUE)
          PROVE  LineInv'
      <3>1. start \in 0..Len(text) /\ position \in start..Len(text)
        BY <1>1
      <3> QED  BY <1>1, <2>1, <3>1, KillStep
    <2> QED  BY <1>6, <2>1, NothingStep DEF BackwardKillWord
  <1>7. CASE Yank
    <2>1. Yanked \in Text /\ Len(Yanked) \in Nat
      BY <1>1, YankedType
    <2>2. /\ PushEditOf(Edit(position, position, Yanked), FALSE)
          /\ UNCHANGED <<results, loaded, uses, ok, in_flight, known>>
          /\ phase \in {"read", "more"} /\ phase' = "update"
      BY <1>7 DEF Yank, InsertString, Command, Event
    <2>3. RingOK'
      BY <1>1, <1>7, <2>1 DEF Yank, RingOK
    <2> QED  BY <1>1, <2>1, <2>2, <2>3, EditStep
  <1>8. CASE YankPop
    <2>1. /\ UNCHANGED <<results, loaded, uses, ok, in_flight, known>>
          /\ phase \in {"read", "more"} /\ phase' = "update"
      BY <1>8 DEF YankPop, Command, Event
    <2>2. Len(Head(Rotated(ring))) \in Nat
      BY <1>8, YankPopEdit, TextTypes
    <2>3. RingOK'
      BY <1>1, <1>8, <2>2, YankPopEdit DEF YankPop, RingOK
    <2>4. PICK a \in 0..Len(text) : \E new \in Text :
            position \in a..Len(text) /\ PushEditOf(Edit(a, position, new), TRUE)
      BY <1>8, YankPopEdit
    <2>5. PICK new \in Text : PushEditOf(Edit(a, position, new), TRUE)
      BY <2>4
    <2> QED  BY <2>1, <2>3, <2>4, <2>5, EditStep
  <1>9. CASE YankPopPanics
    BY <1>9 DEF YankPopPanics, LineInv, TypeOK, SuggestionFits, PlacedInv, Displaced,
                ResultsInv, RestInv, suggesting, requests, killing
  <1> QED  BY <1>2, <1>3, <1>4, <1>5, <1>6, <1>7, <1>8, <1>9 DEF KillRing

LEMMA ReaderStep ==
  ASSUME LineInv, YankInv, Reader
  PROVE  LineInv'
  <1>1. ASSUME NEW p \in 0..Len(text), MoveCursor(p)  PROVE LineInv'
    <2>1. suppress \in BOOLEAN /\ ok \in BOOLEAN
      BY Types DEF LineInv
    <2> QED  BY <1>1, <2>1, PlainStep, SameLineStep DEF MoveCursor, suggesting
  <1> QED  BY <1>1, SuggestingStep, KillRingStep DEF Reader

-----------------------------------------------------------------------------
(* The steps of the reader's loop and of the background.                     *)

(* What bringing the suggestion up to date may do: give up, leave it, or     *)
(* ask for one.                                                              *)
LEMMA UpdatedLemma ==
  ASSUME NEW flying \in Text, TypeOK, UpdateAutosuggestion(flying)
  PROVE  /\ suggestion' \in {suggestion, Nothing} /\ in_flight' \in {<<>>, flying, text}
         /\ next' \subseteq Requests /\ (\A r, s \in next' : r = s)
         /\ computing' = computing
         /\ ok = FALSE => in_flight' = <<>> /\ next' = next
         /\ Displaced => suggestion' = Nothing \/ text = flying
  <1> DEFINE asked == [line |-> text, cancelled |-> FALSE]
  <1>1. asked \in Requests
    BY DEF TypeOK, Requests
  <1>2. CASE ~CanAutosuggest
    BY <1>2 DEF UpdateAutosuggestion, TypeOK
  <1>3. CASE CanAutosuggest /\ (IsAtLine \/ AlreadyInFlight(flying))
    BY <1>3 DEF UpdateAutosuggestion, TypeOK, CanAutosuggest, IsAtLine, AlreadyInFlight, Displaced
  <1>4. CASE CanAutosuggest /\ ~(IsAtLine \/ AlreadyInFlight(flying))
    <2>1. /\ in_flight' = text /\ suggestion' = Nothing
          /\ next' = {asked} /\ computing' = computing
      BY <1>4 DEF UpdateAutosuggestion, Perform
    <2> HIDE DEF asked
    <2> QED  BY <1>1, <1>4, <2>1 DEF CanAutosuggest
  <1> QED  BY <1>2, <1>3, <1>4

LEMMA UpdateStep ==
  ASSUME LineInv, Update
  PROVE  LineInv'
  <1>1. /\ phase = "update" /\ phase' = "read" /\ UpdateAutosuggestion(in_flight)
        /\ UNCHANGED <<text, position, saved, suppress, ok, results, loaded, known,
                       killing, uses>>
    BY DEF Update
  <1>2. in_flight \in Text /\ TypeOK
    BY DEF LineInv, TypeOK
  <1>3. /\ suggestion' \in {suggestion, Nothing} /\ in_flight' \in {<<>>, in_flight, text}
        /\ next' \subseteq Requests /\ (\A r, s \in next' : r = s)
        /\ computing' = computing
        /\ ok = FALSE => in_flight' = <<>> /\ next' = next
        /\ Displaced => suggestion' = Nothing \/ text = in_flight
    BY <1>1, <1>2, UpdatedLemma
  <1>4. SideOK'
    BY <1>1, <1>2, <1>3, NothingTypes DEF TypeOK, SideOK
  <1>5. RingOK'
    BY <1>1, <1>2 DEF TypeOK, RingOK, killing
  <1>6. uses' = "ring" => suggestion' = Nothing /\ in_flight' = <<>>
    BY <1>1, <1>3 DEF LineInv, TypeOK, RestInv
  <1>7. TypeOK'
    BY <1>1, <1>3, <1>4, <1>5, <1>6, NothingTypes DEF LineInv, TypeOK, SideOK, RingOK
  <1>8. SuggestionFits'
    BY <1>1, <1>3 DEF LineInv, SuggestionFits
  <1>9. PlacedInv'
    BY <1>1, <1>3 DEF LineInv, PlacedInv, Displaced
  <1>10. ResultsInv' /\ RestInv'
    BY <1>1, <1>3 DEF LineInv, ResultsInv, RestInv
  <1> QED  BY <1>7, <1>8, <1>9, <1>10 DEF LineInv

(* What is left alone while the thread begins and finishes a request. *)
LEMMA BackgroundStep ==
  ASSUME LineInv, UNCHANGED background,
         next' \subseteq Requests, \A r, s \in next' : r = s,
         computing' \subseteq Requests, \A r, s \in computing' : r = s,
         results' \in Seq(Results), ResultsInv',
         uses = "ring" => results' = <<>> /\ next' = {} /\ computing' = {}
  PROVE  LineInv'
  <1>1. UNCHANGED <<text, position, suggestion, saved, suppress, ok, in_flight, phase, loaded,
                    known, ring, kill_item, yank_len, whole, clicked, uses>>
    BY DEF background, suggesting, killing
  <1>2. TypeOK'
    BY <1>1 DEF LineInv, TypeOK
  <1>3. SuggestionFits' /\ PlacedInv'
    BY <1>1 DEF LineInv, SuggestionFits, PlacedInv, Displaced
  <1>4. RestInv'
    BY <1>1 DEF LineInv, RestInv
  <1> QED  BY <1>2, <1>3, <1>4 DEF LineInv

LEMMA StartStep ==
  ASSUME LineInv, Start
  PROVE  LineInv'
  <1>1. /\ next # {} /\ computing' = next /\ next' = {} /\ results' = results
        /\ UNCHANGED background
    BY DEF Start
  <1>2. /\ next \subseteq Requests /\ (\A r, s \in next : r = s)
        /\ results \in Seq(Results) /\ ResultsInv
        /\ uses # "ring"
    BY <1>1 DEF LineInv, TypeOK, RestInv
  <1>3. ResultsInv'
    BY <1>1, <1>2 DEF ResultsInv
  <1> QED  BY <1>1, <1>2, <1>3, BackgroundStep

(* What is found goes on with the line of the request. *)
LEMMA AnswersLemma ==
  ASSUME NEW r \in Requests, TypeOK, NEW answer \in Answers(r)
  PROVE  answer \in Results /\ (answer.text # <<>> => IsPrefix(answer.line, answer.text))
  <1>1. r.line \in Text /\ <<>> \in Text /\ loaded \in BOOLEAN
    BY NothingTypes DEF Requests, TypeOK
  <1>2. known \subseteq Text /\ Completions \subseteq Text
    BY CommandLineAssumption DEF TypeOK, Text
  <1>3. ASSUME NEW asked \in Text, NEW found \in Text, NEW a \in BOOLEAN, NEW b \in BOOLEAN,
               answer = Found(asked, found, a, b)
        PROVE  answer \in Results /\ answer.line = asked /\ answer.text = found
    BY <1>3 DEF Found, Results
  <1>4. CASE answer \in {Found(<<>>, <<>>, FALSE, FALSE), Found(r.line, <<>>, FALSE, ~loaded)}
    <2>1. PICK asked \in Text, b \in BOOLEAN : answer = Found(asked, <<>>, FALSE, b)
      BY <1>1, <1>4
    <2>2. answer \in Results /\ answer.text = <<>>
      BY <1>1, <1>3, <2>1
    <2> QED  BY <2>2
  <1>5. ASSUME NEW found \in Extending(r.line, known) \cup Extending(r.line, Completions),
               NEW a \in BOOLEAN, answer = Found(r.line, found, a, FALSE)
        PROVE  answer \in Results /\ (answer.text # <<>> => IsPrefix(answer.line, answer.text))
    <2>1. found \in Text /\ IsPrefix(r.line, found)
      BY <1>2, <1>5 DEF Extending
    <2>2. answer \in Results /\ answer.line = r.line /\ answer.text = found
      BY <1>1, <1>3, <1>5, <2>1
    <2> QED  BY <2>1, <2>2
  <1>6. \/ answer \in {Found(<<>>, <<>>, FALSE, FALSE), Found(r.line, <<>>, FALSE, ~loaded)}
        \/ \E found \in Extending(r.line, known) : answer = Found(r.line, found, TRUE, FALSE)
        \/ \E found \in Extending(r.line, Completions) : answer = Found(r.line, found, FALSE, FALSE)
    BY DEF Answers
  <1> QED  BY <1>4, <1>5, <1>6

LEMMA ComputeStep ==
  ASSUME LineInv, Compute
  PROVE  LineInv'
  <1>1. PICK r \in computing : \E answer \in Answers(r) :
          /\ computing' = {} /\ results' = Append(results, answer)
          /\ next' = next /\ UNCHANGED background
    BY DEF Compute
  <1> PICK answer \in Answers(r) :
          /\ computing' = {} /\ results' = Append(results, answer)
          /\ next' = next /\ UNCHANGED background
    BY <1>1
  <1>2. /\ r \in Requests /\ TypeOK /\ results \in Seq(Results)
        /\ next \subseteq Requests /\ (\A q, s \in next : q = s) /\ uses # "ring"
    BY <1>1 DEF LineInv, TypeOK, RestInv
  <1>3. answer \in Results /\ (answer.text # <<>> => IsPrefix(answer.line, answer.text))
    BY <1>2, AnswersLemma
  <1>4. /\ results' \in Seq(Results) /\ Len(results') = Len(results) + 1
        /\ \A i \in 1..Len(results) : results'[i] = results[i]
        /\ results'[Len(results) + 1] = answer
    <2>1. /\ Append(results, answer) \in Seq(Results)
          /\ Len(Append(results, answer)) = Len(results) + 1
          /\ \A i \in 1..Len(results) : Append(results, answer)[i] = results[i]
          /\ Append(results, answer)[Len(results) + 1] = answer
      BY <1>2, <1>3, AppendProperties
    <2> QED  BY <2>1
  <1>5. ResultsInv'
    BY <1>2, <1>3, <1>4, LenProperties DEF LineInv, ResultsInv
  <1> QED  BY <1>1, <1>2, <1>4, <1>5, BackgroundStep

(* Taking the first result leaves results. *)
LEMMA HeadTailResults ==
  ASSUME results \in Seq(Results), results # <<>>, ResultsInv
  PROVE  LET r == Head(results)  rest == Tail(results) IN
         /\ r \in Results /\ (r.text # <<>> => IsPrefix(r.line, r.text))
         /\ rest \in Seq(Results)
         /\ \A i \in 1..Len(rest) : rest[i].text # <<>> => IsPrefix(rest[i].line, rest[i].text)
  <1> DEFINE r == Head(results)  rest == Tail(results)
  <1>1. /\ r \in Results /\ rest \in Seq(Results) /\ r = results[1]
        /\ Len(results) \in Nat \ {0} /\ Len(rest) = Len(results) - 1
        /\ \A i \in 1..Len(rest) : rest[i] = results[i + 1]
    BY HeadTailProperties, LenProperties, EmptySeq
  <1> HIDE DEF r, rest
  <1>2. r.text # <<>> => IsPrefix(r.line, r.text)
    BY <1>1 DEF ResultsInv
  <1>3. ASSUME NEW i \in 1..Len(rest), rest[i].text # <<>>
        PROVE  IsPrefix(rest[i].line, rest[i].text)
    <2>1. i + 1 \in 1..Len(results) /\ rest[i] = results[i + 1]
      BY <1>1
    <2> QED  BY <1>3, <2>1 DEF ResultsInv
  <1> QED  BY <1>1, <1>2, <1>3 DEF r, rest

(* What is taken as the suggestion is one for all of the line. *)
LEMMA TakenLemma ==
  ASSUME TypeOK, NEW r \in Results, r.text # <<>> => IsPrefix(r.line, r.text), Taken(r),
         NEW s, s = [text |-> r.text, end |-> Len(r.line), whole |-> r.whole, back |-> FALSE]
  PROVE  s \in Suggestions /\ s.end = Len(text) /\ Fits(s, text)
  <1>1. r.line = text /\ r.text # <<>> /\ r.text \in Text /\ r.whole \in BOOLEAN
    BY DEF Taken, Results
  <1>2. text \in Text /\ Len(text) \in Nat
    BY Types
  <1>3. s \in Suggestions /\ s.end = Len(text) /\ s.text = r.text
    BY <1>1, <1>2 DEF Suggestions
  <1>4. SubSeq(text, 1, Len(text)) = text
    BY <1>2, WholeText
  <1>5. s.end <= Len(text) /\ SubSeq(text, 1, s.end) = text
    BY <1>2, <1>3, <1>4
  <1>6. IsPrefix(SubSeq(text, 1, s.end), s.text)
    BY <1>1, <1>3, <1>5
  <1> QED  BY <1>3, <1>5, <1>6 DEF Fits

LEMMA ServeStep ==
  ASSUME LineInv, Serve
  PROVE  LineInv'
  <1> DEFINE r == Head(results)
             rest == Tail(results)
             flying == IF r.line = in_flight THEN <<>> ELSE in_flight
             found == [text |-> r.text, end |-> Len(r.line), whole |-> r.whole, back |-> FALSE]
  <1>1. /\ phase \in {"read", "more"} /\ results # <<>> /\ results' = rest
        /\ UNCHANGED <<text, position, saved, suppress, ok, phase, known, killing, uses>>
    BY DEF Serve
  <1>2. TypeOK /\ results \in Seq(Results) /\ ResultsInv /\ SuggestionFits /\ uses # "ring"
    BY <1>1 DEF LineInv, TypeOK, RestInv
  <1>3. /\ r \in Results /\ (r.text # <<>> => IsPrefix(r.line, r.text))
        /\ rest \in Seq(Results)
        /\ \A i \in 1..Len(rest) : rest[i].text # <<>> => IsPrefix(rest[i].line, rest[i].text)
    BY <1>1, <1>2, HeadTailResults
  <1>4. flying \in Text
    BY <1>2, NothingTypes DEF TypeOK
  <1>5. \/ loaded' = TRUE /\ UpdateAutosuggestion(flying)
        \/ /\ in_flight' = flying
           /\ suggestion' = IF Taken(r) THEN found ELSE suggestion
           /\ UNCHANGED <<next, computing, loaded>>
    BY DEF Serve
  <1> HIDE DEF r, rest, flying
  <1>6. Displaced => suggestion.back
    BY <1>1 DEF LineInv, PlacedInv
  <1>7. /\ in_flight' \in Text /\ suggestion' \in Suggestions /\ loaded' \in BOOLEAN
        /\ next' \subseteq Requests /\ (\A q, s \in next' : q = s)
        /\ computing' \subseteq Requests /\ (\A q, s \in computing' : q = s)
        /\ suggestion' # Nothing => Fits(suggestion', text)
        /\ suggestion' # Nothing /\ suggestion'.end # Len(text) => suggestion'.back
    <2>1. CASE loaded' = TRUE /\ UpdateAutosuggestion(flying)
      <3>1. /\ suggestion' \in {suggestion, Nothing} /\ in_flight' \in {<<>>, flying, text}
            /\ next' \subseteq Requests /\ (\A q, s \in next' : q = s)
            /\ computing' = computing
        BY <1>2, <1>4, <2>1, UpdatedLemma
      <3>2. /\ in_flight' \in Text /\ suggestion' \in Suggestions
            /\ computing' \subseteq Requests /\ (\A q, s \in computing' : q = s)
        BY <1>2, <1>4, <3>1, NothingTypes DEF TypeOK
      <3>3. suggestion' # Nothing => suggestion' = suggestion
        BY <3>1
      <3> QED  BY <1>2, <1>6, <2>1, <3>1, <3>2, <3>3, FitsNothing DEF Displaced
    <2>2. CASE /\ in_flight' = flying
               /\ suggestion' = IF Taken(r) THEN found ELSE suggestion
               /\ UNCHANGED <<next, computing, loaded>>
      <3>1. /\ in_flight' \in Text /\ loaded' \in BOOLEAN
            /\ next' \subseteq Requests /\ (\A q, s \in next' : q = s)
            /\ computing' \subseteq Requests /\ (\A q, s \in computing' : q = s)
        BY <1>2, <1>4, <2>2 DEF TypeOK
      <3>2. CASE Taken(r)
        <4>1. suggestion' = found
          BY <2>2, <3>2
        <4> HIDE DEF found
        <4>2. found \in Suggestions /\ found.end = Len(text) /\ Fits(found, text)
          BY <1>2, <1>3, <3>2, TakenLemma DEF found
        <4> QED  BY <3>1, <4>1, <4>2
      <3>3. CASE ~Taken(r)
        <4>1. suggestion' = suggestion
          BY <2>2, <3>3
        <4>2. suggestion \in Suggestions
          BY <1>2 DEF TypeOK
        <4> QED  BY <1>2, <1>6, <3>1, <4>1, <4>2, FitsNothing DEF Displaced
      <3> QED  BY <3>2, <3>3
    <2> QED  BY <1>5, <2>1, <2>2
  <1>8. TypeOK'
    BY <1>1, <1>2, <1>3, <1>7 DEF TypeOK, killing
  <1>9. SuggestionFits'
    <2>1. saved # Nothing => Fits(saved, text)
      BY <1>2, FitsNothing
    <2> QED  BY <1>1, <1>7, <2>1 DEF SuggestionFits, Fits
  <1>10. PlacedInv'
    BY <1>1, <1>7 DEF PlacedInv, Displaced
  <1>11. ResultsInv'
    BY <1>1, <1>3 DEF ResultsInv
  <1>12. RestInv'
    BY <1>1, <1>2 DEF RestInv
  <1> QED  BY <1>8, <1>9, <1>10, <1>11, <1>12 DEF LineInv

(* The inductive step. *)
LEMMA LineStep ==
  ASSUME LineInv, YankInv, [Next]_vars
  PROVE  LineInv'
  <1>1. CASE Update
    BY <1>1, UpdateStep
  <1>2. CASE Start
    BY <1>2, StartStep
  <1>3. CASE Compute
    BY <1>3, ComputeStep
  <1>4. CASE Serve
    BY <1>4, ServeStep
  <1>5. CASE Reader
    BY <1>5, ReaderStep
  <1>6. CASE UNCHANGED vars
    BY <1>6 DEF vars, LineInv, TypeOK, SuggestionFits, PlacedInv, Displaced,
                ResultsInv, RestInv, suggesting, requests, killing
  <1> QED  BY <1>1, <1>2, <1>3, <1>4, <1>5, <1>6 DEF Next

-----------------------------------------------------------------------------
(* What is killed and yanked.                                                *)

(* r has, character by character, new where t has those between a and b. *)
Spliced(r, t, a, b, new) ==
  /\ r \in Text /\ Len(r) = Len(t) - (b - a) + Len(new)
  /\ \A i \in 1..Len(r) :
       r[i] = IF i <= a THEN t[i]
              ELSE IF i <= a + Len(new) THEN new[i - a] ELSE t[i - Len(new) + (b - a)]

LEMMA SpliceAt ==
  ASSUME NEW t \in Text, NEW new \in Text, NEW a \in 0..Len(t), NEW b \in a..Len(t),
         NEW r, r = Splice(t, a, b, new)
  PROVE  Spliced(r, t, a, b, new)
  <1>1. Len(t) \in Nat /\ Len(new) \in Nat
    BY TextTypes
  <1>2. r \in Text /\ Len(r) = Len(t) - (b - a) + Len(new)
    BY SpliceLemma
  <1>3. /\ \A j \in 1..a : r[j] = t[j]
        /\ \A j \in 1..Len(new) : r[a + j] = new[j]
        /\ \A j \in 1..(Len(t) - b) : r[a + Len(new) + j] = t[b + j]
    BY SpliceLemma
  <1>4. ASSUME NEW i \in 1..Len(r)
        PROVE  r[i] = IF i <= a THEN t[i]
                      ELSE IF i <= a + Len(new) THEN new[i - a] ELSE t[i - Len(new) + (b - a)]
    <2>1. CASE i <= a
      BY <1>1, <1>2, <1>3, <2>1
    <2>2. CASE i > a /\ i <= a + Len(new)
      <3>1. i - a \in 1..Len(new) /\ a + (i - a) = i /\ ~(i <= a)
        BY <1>1, <1>2, <2>2
      <3>2. r[a + (i - a)] = new[i - a]
        BY <1>3, <3>1
      <3> QED  BY <2>2, <3>1, <3>2
    <2>3. CASE i > a + Len(new)
      <3> DEFINE j == i - (a + Len(new))
      <3>1. /\ j \in 1..(Len(t) - b) /\ a + Len(new) + j = i /\ b + j = i - Len(new) + (b - a)
            /\ ~(i <= a) /\ ~(i <= a + Len(new))
        BY <1>1, <1>2, <2>3
      <3> HIDE DEF j
      <3>2. r[a + Len(new) + j] = t[b + j]
        BY <1>3, <3>1
      <3> QED  BY <3>1, <3>2
    <2>4. i <= a \/ (i > a /\ i <= a + Len(new)) \/ i > a + Len(new)
      BY <1>1, <1>2
    <2> QED  BY <2>1, <2>2, <2>3, <2>4
  <1> QED  BY <1>2, <1>4 DEF Spliced

(* A text with something put in, and one with something taken out. *)
HasIn(r, t, p, new) ==
  /\ r \in Text /\ Len(r) = Len(t) + Len(new)
  /\ \A i \in 1..Len(r) :
       r[i] = IF i <= p THEN t[i]
              ELSE IF i <= p + Len(new) THEN new[i - p] ELSE t[i - Len(new)]

HasOut(r, t, a, b) ==
  /\ r \in Text /\ Len(r) = Len(t) - (b - a)
  /\ \A i \in 1..Len(r) : r[i] = IF i <= a THEN t[i] ELSE t[i + (b - a)]

LEMMA PutIn ==
  ASSUME NEW t \in Text, NEW new \in Text, NEW p \in 0..Len(t), NEW r, r = Splice(t, p, p, new)
  PROVE  HasIn(r, t, p, new)
  <1>1. Len(t) \in Nat /\ Len(new) \in Nat
    BY TextTypes
  <1>2. PICK q \in p..Len(t) : q = p
    BY <1>1
  <1>3. r = Splice(t, p, q, new)
    BY <1>2
  <1>4. /\ r \in Text /\ Len(r) = Len(t) - (q - p) + Len(new)
        /\ \A i \in 1..Len(r) :
              r[i] = IF i <= p THEN t[i]
                     ELSE IF i <= p + Len(new) THEN new[i - p] ELSE t[i - Len(new) + (q - p)]
    <2>1. Spliced(r, t, p, q, new)
      BY <1>3, SpliceAt
    <2> QED  BY <2>1 DEF Spliced
  <1>5. Len(r) = Len(t) + Len(new)
    BY <1>1, <1>2, <1>4
  <1>6. ASSUME NEW i \in 1..Len(r)
        PROVE  r[i] = IF i <= p THEN t[i]
                     ELSE IF i <= p + Len(new) THEN new[i - p] ELSE t[i - Len(new)]
    <2>1. i - Len(new) + (q - p) = i - Len(new)
      BY <1>1, <1>2, <1>5
    <2> QED  BY <1>4, <2>1
  <1> QED  BY <1>4, <1>5, <1>6 DEF HasIn

LEMMA TakenOut ==
  ASSUME NEW t \in Text, NEW a \in 0..Len(t), NEW b \in a..Len(t), NEW r,
         r = Splice(t, a, b, <<>>)
  PROVE  HasOut(r, t, a, b)
  <1>1. Len(t) \in Nat
    BY TextTypes
  <1>2. PICK new \in Text : new = <<>> /\ Len(new) = 0
    BY NothingTypes
  <1>3. r = Splice(t, a, b, new)
    BY <1>2
  <1>4. /\ r \in Text /\ Len(r) = Len(t) - (b - a) + Len(new)
        /\ \A i \in 1..Len(r) :
              r[i] = IF i <= a THEN t[i]
                     ELSE IF i <= a + Len(new) THEN new[i - a] ELSE t[i - Len(new) + (b - a)]
    <2>1. Spliced(r, t, a, b, new)
      BY <1>3, SpliceAt
    <2> QED  BY <2>1 DEF Spliced
  <1>5. Len(r) = Len(t) - (b - a)
    BY <1>1, <1>2, <1>4
  <1>6. ASSUME NEW i \in 1..Len(r)
        PROVE  r[i] = IF i <= a THEN t[i] ELSE t[i + (b - a)]
    <2>1. i - Len(new) + (b - a) = i + (b - a) /\ a + Len(new) = a
      BY <1>1, <1>2, <1>5
    <2> QED  BY <1>4, <2>1
  <1> QED  BY <1>4, <1>5, <1>6 DEF HasOut

(* What is killed from a to b around an item that was at p. *)
IsAround(killed, t, a, p, b, item) ==
  /\ killed \in Text /\ Len(killed) = (b - a) + Len(item)
  /\ \A i \in 1..(p - a) : killed[i] = t[a + i]
  /\ \A i \in 1..Len(item) : killed[(p - a) + i] = item[i]
  /\ \A i \in 1..(b - p) : killed[(p - a) + Len(item) + i] = t[p + i]

(* Putting in, where the cursor is left, what was taken out around it brings *)
(* back the line with what was to be put in before.                          *)
LEMMA TakenOutComesBack ==
  ASSUME NEW t \in Text, NEW item \in Text, NEW a \in 0..Len(t), NEW p \in a..Len(t),
         NEW b \in p..Len(t), NEW killed, IsAround(killed, t, a, p, b, item)
  PROVE  Splice(Splice(t, a, b, <<>>), a, a, killed) = Splice(t, p, p, item)
  <1> DEFINE left == Splice(t, a, b, <<>>)
             again == Splice(left, a, a, killed)
             before == Splice(t, p, p, item)
  <1>1. /\ Len(t) \in Nat /\ Len(item) \in Nat /\ a \in Nat /\ p \in Nat /\ b \in Nat
        /\ a <= p /\ p <= b /\ b <= Len(t) /\ <<>> \in Text /\ Len(<<>>) = 0
        /\ b \in a..Len(t) /\ p \in 0..Len(t) /\ p \in p..Len(t)
        /\ killed \in Text /\ Len(killed) = (b - a) + Len(item)
    <2>1. Len(t) \in Nat /\ Len(item) \in Nat
      BY TextTypes
    <2>2. killed \in Text /\ Len(killed) = (b - a) + Len(item)
      BY DEF IsAround
    <2> QED  BY <2>1, <2>2, NothingTypes
  <1>2. /\ left \in Text /\ Len(left) = Len(t) - (b - a)
        /\ \A i \in 1..Len(left) : left[i] = IF i <= a THEN t[i] ELSE t[i + (b - a)]
    <2>1. HasOut(left, t, a, b)
      BY <1>1, TakenOut
    <2> QED  BY <2>1 DEF HasOut
  <1>3. /\ before \in Text /\ Len(before) = Len(t) + Len(item)
        /\ \A i \in 1..Len(before) :
             before[i] = IF i <= p THEN t[i]
                         ELSE IF i <= p + Len(item) THEN item[i - p] ELSE t[i - Len(item)]
    <2>1. HasIn(before, t, p, item)
      BY <1>1, PutIn
    <2> QED  BY <2>1 DEF HasIn
  <1> HIDE DEF left, before
  <1>4. a \in 0..Len(left) /\ Len(left) \in Nat
    BY <1>1, <1>2
  <1>5. /\ again \in Text /\ Len(again) = Len(left) + Len(killed)
        /\ \A i \in 1..Len(again) :
             again[i] = IF i <= a THEN left[i]
                        ELSE IF i <= a + Len(killed) THEN killed[i - a] ELSE left[i - Len(killed)]
    <2>1. HasIn(again, left, a, killed)
      BY <1>1, <1>2, <1>4, PutIn
    <2> QED  BY <2>1 DEF HasIn
  <1> HIDE DEF again
  <1>6. /\ Len(again) = Len(t) + Len(item)
        /\ \A i \in 1..(Len(t) + Len(item)) : i \in 1..Len(again) /\ i \in 1..Len(before)
    BY <1>1, <1>2, <1>3, <1>5
  <1>7. ASSUME NEW i \in 1..(Len(t) + Len(item))  PROVE again[i] = before[i]
    <2>1. CASE i <= a
      <3>1. /\ i \in 1..Len(left) /\ i \in 1..Len(again) /\ i \in 1..Len(before) /\ i <= p
        BY <1>1, <1>2, <1>6, <2>1
      <3> QED  BY <1>2, <1>3, <1>5, <2>1, <3>1
    <2>2. CASE i > a /\ i <= p
      <3>1. i - a \in 1..(p - a) /\ a + (i - a) = i /\ i <= a + Len(killed)
        BY <1>1, <2>2
      <3>2. again[i] = killed[i - a]
        BY <1>1, <1>6, <1>5, <2>2, <3>1
      <3>3. killed[i - a] = t[a + (i - a)]
        BY <3>1 DEF IsAround
      <3> QED  BY <1>1, <1>6, <1>3, <2>2, <3>1, <3>2, <3>3
    <2>3. CASE i > p /\ i <= p + Len(item)
      <3>1. i - p \in 1..Len(item) /\ (p - a) + (i - p) = i - a /\ i <= a + Len(killed)
            /\ i > a
        BY <1>1, <2>3
      <3>2. again[i] = killed[i - a]
        BY <1>1, <1>6, <1>5, <3>1
      <3>3. killed[(p - a) + (i - p)] = item[i - p]
        BY <3>1 DEF IsAround
      <3> QED  BY <1>1, <1>6, <1>3, <2>3, <3>1, <3>2, <3>3
    <2>4. CASE i > p + Len(item) /\ i <= b + Len(item)
      <3> DEFINE j == i - Len(item) - p
      <3>1. j \in 1..(b - p) /\ (p - a) + Len(item) + j = i - a /\ i <= a + Len(killed)
            /\ i > a /\ p + j = i - Len(item) /\ i > p
        BY <1>1, <2>4
      <3>2. again[i] = killed[i - a]
        BY <1>1, <1>6, <1>5, <3>1
      <3> HIDE DEF j
      <3>3. killed[(p - a) + Len(item) + j] = t[p + j]
        BY <3>1 DEF IsAround
      <3>4. before[i] = t[i - Len(item)]
        <4>1. ~(i <= p) /\ ~(i <= p + Len(item)) /\ i \in 1..Len(before)
          BY <1>1, <1>6, <2>4, <3>1
        <4> QED  BY <1>3, <4>1
      <3> QED  BY <3>1, <3>2, <3>3, <3>4
    <2>5. CASE i > b + Len(item)
      <3>1. ~(i <= a) /\ ~(i <= a + Len(killed)) /\ ~(i <= p) /\ ~(i <= p + Len(item))
            /\ i - Len(killed) \in 1..Len(left) /\ ~(i - Len(killed) <= a)
            /\ i - Len(killed) + (b - a) = i - Len(item)
        BY <1>1, <1>2, <2>5
      <3>2. again[i] = left[i - Len(killed)]
        BY <1>6, <1>5, <3>1
      <3>3. left[i - Len(killed)] = t[i - Len(item)]
        BY <1>2, <3>1
      <3>4. before[i] = t[i - Len(item)]
        BY <1>6, <1>3, <3>1
      <3> QED  BY <3>2, <3>3, <3>4
    <2> QED  BY <1>1, <2>1, <2>2, <2>3, <2>4, <2>5
  <1>8. again = before
    BY <1>6, <1>3, <1>5, <1>7, SameText
  <1> QED  BY <1>8 DEF again, left, before

(* Kills forwards and backwards, and a first one, are around the item.       *)
LEMMA KilledForwards ==
  ASSUME NEW t \in Text, NEW item \in Text, NEW p \in 0..Len(t), NEW b \in p..Len(t)
  PROVE  IsAround(item \o SubSeq(t, p + 1, b), t, p, p, b, item)
  <1> DEFINE part == SubSeq(t, p + 1, b)
             killed == item \o part
  <1>1. Len(t) \in Nat /\ Len(item) \in Nat
    BY TextTypes
  <1>2. part \in Text /\ Len(part) = b - p /\ \A i \in 1..(b - p) : part[i] = t[p + i]
    BY <1>1, SubText
  <1> HIDE DEF part
  <1>3. /\ killed \in Text /\ Len(killed) = Len(item) + Len(part)
        /\ \A i \in 1..(Len(item) + Len(part)) :
             killed[i] = IF i <= Len(item) THEN item[i] ELSE part[i - Len(item)]
    BY <1>2, Joins
  <1> HIDE DEF killed
  <1>4. Len(killed) = (b - p) + Len(item) /\ p - p = 0
    BY <1>1, <1>2, <1>3
  <1>5. ASSUME NEW i \in 1..Len(item)  PROVE killed[(p - p) + i] = item[i]
    BY <1>1, <1>2, <1>3, <1>4
  <1>6. ASSUME NEW i \in 1..(b - p)  PROVE killed[(p - p) + Len(item) + i] = t[p + i]
    <2>1. /\ Len(item) + i \in 1..(Len(item) + Len(part)) /\ ~(Len(item) + i <= Len(item))
          /\ Len(item) + i - Len(item) = i /\ (p - p) + Len(item) + i = Len(item) + i
      BY <1>1, <1>2
    <2>2. killed[Len(item) + i] = part[i]
      BY <1>3, <2>1
    <2> QED  BY <1>2, <2>1, <2>2
  <1>7. IsAround(killed, t, p, p, b, item)
    <2>1. killed \in Text /\ Len(killed) = (b - p) + Len(item)
      BY <1>3, <1>4
    <2>2. \A i \in 1..(p - p) : killed[i] = t[p + i]
      BY <1>4
    <2> QED  BY <2>1, <2>2, <1>5, <1>6 DEF IsAround
  <1> QED  BY <1>7 DEF killed, part

LEMMA KilledBackwards ==
  ASSUME NEW t \in Text, NEW item \in Text, NEW a \in 0..Len(t), NEW p \in a..Len(t)
  PROVE  IsAround(SubSeq(t, a + 1, p) \o item, t, a, p, p, item)
  <1> DEFINE part == SubSeq(t, a + 1, p)
             killed == part \o item
  <1>1. Len(t) \in Nat /\ Len(item) \in Nat
    BY TextTypes
  <1>2. part \in Text /\ Len(part) = p - a /\ \A i \in 1..(p - a) : part[i] = t[a + i]
    BY <1>1, SubText
  <1> HIDE DEF part
  <1>3. /\ killed \in Text /\ Len(killed) = Len(part) + Len(item)
        /\ \A i \in 1..(Len(part) + Len(item)) :
             killed[i] = IF i <= Len(part) THEN part[i] ELSE item[i - Len(part)]
    BY <1>2, Joins
  <1> HIDE DEF killed
  <1>4. Len(killed) = (p - a) + Len(item)
    BY <1>1, <1>2, <1>3
  <1>5. ASSUME NEW i \in 1..(p - a)  PROVE killed[i] = t[a + i]
    BY <1>1, <1>2, <1>3
  <1>6. ASSUME NEW i \in 1..Len(item)  PROVE killed[(p - a) + i] = item[i]
    <2>1. /\ Len(part) + i \in 1..(Len(part) + Len(item)) /\ ~(Len(part) + i <= Len(part))
          /\ Len(part) + i - Len(part) = i
      BY <1>1, <1>2
    <2>2. killed[Len(part) + i] = item[i]
      BY <1>3, <2>1
    <2> QED  BY <1>2, <2>2
  <1>7. \A i \in 1..(p - p) : FALSE
    OBVIOUS
  <1>8. IsAround(killed, t, a, p, p, item)
    BY <1>3, <1>4, <1>5, <1>6, <1>7 DEF IsAround
  <1> QED  BY <1>8 DEF killed, part

LEMMA KilledFirst ==
  ASSUME NEW t \in Text, NEW a \in 0..Len(t), NEW p \in a..Len(t), NEW b \in p..Len(t)
  PROVE  /\ IsAround(SubSeq(t, a + 1, b), t, a, p, b, <<>>)
         /\ Splice(t, p, p, <<>>) = t
  <1> DEFINE killed == SubSeq(t, a + 1, b)
             same == Splice(t, p, p, <<>>)
  <1>1. Len(t) \in Nat /\ a \in Nat /\ p \in Nat /\ b \in Nat /\ a <= p /\ p <= b /\ b <= Len(t)
        /\ p \in 0..Len(t) /\ p \in p..Len(t)
    BY TextTypes
  <1>2. killed \in Text /\ Len(killed) = b - a /\ \A i \in 1..(b - a) : killed[i] = t[a + i]
    BY <1>1, SubText
  <1>3. PICK none \in Text : none = <<>> /\ Len(none) = 0
    BY NothingTypes
  <1> HIDE DEF killed
  <1>4. ASSUME NEW i \in 1..(b - p)  PROVE killed[(p - a) + Len(none) + i] = t[p + i]
    <2>1. (p - a) + Len(none) + i \in 1..(b - a) /\ a + ((p - a) + Len(none) + i) = p + i
      BY <1>1, <1>3
    <2> QED  BY <1>2, <2>1
  <1>5. ASSUME NEW i \in 1..(p - a)  PROVE killed[i] = t[a + i]
    BY <1>1, <1>2
  <1>6. ASSUME NEW i \in 1..Len(none)  PROVE killed[(p - a) + i] = none[i]
    BY <1>3
  <1>7. Len(killed) = (b - a) + Len(none)
    BY <1>1, <1>2, <1>3
  <1>8. IsAround(killed, t, a, p, b, none)
    BY <1>2, <1>4, <1>5, <1>6, <1>7 DEF IsAround
  <1>9. HasOut(same, t, p, p)
    BY <1>1, TakenOut
  <1> HIDE DEF same
  <1>10. /\ same \in Text /\ Len(same) = Len(t)
         /\ \A i \in 1..Len(same) : same[i] = IF i <= p THEN t[i] ELSE t[i + (p - p)]
    BY <1>1, <1>9 DEF HasOut
  <1>11. ASSUME NEW i \in 1..Len(same)  PROVE same[i] = t[i]
    <2>1. i + (p - p) = i
      BY <1>1, <1>10
    <2> QED  BY <1>10, <2>1
  <1>12. same = t
    BY <1>10, <1>11, SameText
  <1> QED  BY <1>3, <1>8, <1>12 DEF killed, same

-----------------------------------------------------------------------------
(* The invariant of the kill ring: after kills in a row, putting their item  *)
(* in at the cursor gives the line from before them.                         *)
KillInv ==
  whole # {} /\ last_cmd \in Killing =>
    /\ ring # <<>> /\ kill_item = Head(ring)
    /\ whole = {Splice(text, position, position, kill_item)}
    /\ last_cmd = "kill-whole-line" => text = <<>>

RingInv == YankInv /\ KillInv /\ YankPopTakesYank

LEMMA PushedEdge ==
  ASSUME LineInv, NEW a \in 0..Len(text), NEW b \in a..Len(text), NEW new \in Text,
         NEW before \in BOOLEAN, PushEditOf(Edit(a, b, new), before)
  PROVE  /\ text' = Splice(text, a, b, new) /\ text' \in Text
         /\ position \in a..b => position' \in {a + Len(new)}
  <1>1. TypeOK /\ SuggestionFits /\ position \in 0..Len(text) /\ Len(new) \in Nat
    BY TextTypes, Types DEF LineInv
  <1>2. /\ text' = Splice(text, a, b, new) /\ text' \in Text
        /\ position' = IF position <= a THEN position + Len(new)
                        ELSE IF position <= b THEN a + Len(new)
                        ELSE position - (b - a) + Len(new)
    BY <1>1, PushEditLemma
  <1> QED  BY <1>1, <1>2

LEMMA KillKeeps ==
  ASSUME LineInv, RingInv, NEW cmd \in Killing,
         NEW a \in 0..position, NEW b \in position..Len(text),
         NEW prepend \in BOOLEAN, NEW before \in BOOLEAN,
         Kill(cmd, [start |-> a, end |-> b], prepend, before),
         last_cmd = cmd /\ whole # {} => IF prepend THEN b = position ELSE a = position,
         cmd = "kill-whole-line" => a = 0 /\ b = Len(text)
  PROVE  RingInv'
  <1> DEFINE killed == SubSeq(text, a + 1, b)
             item == IF last_cmd # cmd THEN killed ELSE Joined(killed, prepend)
             rest == IF last_cmd # cmd THEN ring ELSE RemoveFirst(ring, kill_item)
             left == Splice(text, a, b, <<>>)
  <1>1. /\ PushEditOf(Edit(a, b, <<>>), before)
        /\ kill_item' = item /\ ring' = <<item>> \o rest
        /\ yank_len' = 0 /\ clicked' = FALSE /\ last_cmd' = cmd
        /\ whole' = IF last_cmd # cmd THEN {text} ELSE whole
    BY DEF Kill, Slice, Command
  <1>2. text \in Text /\ Len(text) \in Nat /\ position \in 0..Len(text) /\ RingOK
    BY Types, TypeParts DEF LineInv
  <1>3. /\ a \in 0..Len(text) /\ b \in a..Len(text) /\ position \in a..b
        /\ position \in a..Len(text) /\ b \in position..Len(text) /\ a \in Nat
    BY <1>2
  <1>4. killed \in Text
    BY <1>2, <1>3, SubText
  <1>5. item \in Text
    <2> HIDE DEF killed
    <2> QED  BY <1>2, <1>4, JoinedType
  <1>6. rest \in Seq(Text)
    BY <1>2, RemoveFirstType DEF RingOK
  <1>7. text' = left /\ text' \in Text /\ position' = a
    <2>1. PICK none \in Text : none = <<>> /\ Len(none) = 0
      BY NothingTypes
    <2>2. /\ text' = Splice(text, a, b, none) /\ text' \in Text
          /\ position' \in {a + Len(none)}
      <3>1. PushEditOf(Edit(a, b, none), before)
        BY <1>1, <2>1
      <3> QED  BY <1>3, <3>1, PushedEdge
    <2> QED  BY <1>3, <2>1, <2>2
  <1>8. whole' # {} => whole' = {Splice(left, a, a, item)}
    <2>1. CASE last_cmd # cmd
      <3>1. IsAround(killed, text, a, position, b, <<>>) /\ Splice(text, position, position, <<>>) = text
        BY <1>2, <1>3, KilledFirst
      <3>2. Splice(left, a, a, killed) = text
        <4> HIDE DEF killed
        <4> QED  BY <1>2, <1>3, <3>1, NothingTypes, TakenOutComesBack
      <3> QED  BY <1>1, <2>1, <3>2
    <2>2. CASE last_cmd = cmd /\ whole # {}
      <3>1. whole = {Splice(text, position, position, kill_item)} /\ kill_item \in Text
        BY <1>2, <2>2 DEF RingInv, KillInv, RingOK
      <3>2. IsAround(item, text, a, position, b, kill_item)
        <4>1. CASE prepend
          <5>1. b = position /\ item = killed \o kill_item
            BY <2>2, <4>1 DEF Joined
          <5>2. IsAround(SubSeq(text, a + 1, position) \o kill_item, text, a, position, position, kill_item)
            BY <1>2, <1>3, <3>1, KilledBackwards
          <5> QED  BY <5>1, <5>2
        <4>2. CASE ~prepend
          <5>1. a = position /\ item = kill_item \o killed
            BY <2>2, <4>2 DEF Joined
          <5>2. IsAround(kill_item \o SubSeq(text, position + 1, b), text, position, position, b, kill_item)
            BY <1>2, <1>3, <3>1, KilledForwards
          <5> QED  BY <5>1, <5>2
        <4> QED  BY <4>1, <4>2
      <3>3. Splice(left, a, a, item) = Splice(text, position, position, kill_item)
        <4> HIDE DEF item
        <4> QED  BY <1>2, <1>3, <3>1, <3>2, TakenOutComesBack
      <3> QED  BY <1>1, <2>2, <3>1, <3>3
    <2>3. CASE last_cmd = cmd /\ whole = {}
      BY <1>1, <2>3
    <2> QED  BY <2>1, <2>2, <2>3
  <1> HIDE DEF item, rest, killed
  <1>9. ring' # <<>> /\ Head(ring') = item
    <2>1. <<item>> \in Seq(Text) /\ Len(<<item>>) = 1 /\ <<item>>[1] = item
      BY <1>5
    <2>2. /\ ring' \in Seq(Text) /\ Len(ring') = 1 + Len(rest)
          /\ ring'[1] = item
      BY <1>1, <1>6, <2>1, ConcatProperties, LenProperties
    <2>3. Len(rest) \in Nat
      BY <1>6, LenProperties
    <2> QED  BY <2>2, <2>3, EmptySeq, HeadTailProperties
  <1>10. cmd = "kill-whole-line" => text' = <<>>
    <2>1. HasOut(left, text, a, b)
      BY <1>2, <1>3, TakenOut
    <2> HIDE DEF left
    <2>2. Len(left) = Len(text) - (b - a) /\ left \in Text
      BY <2>1 DEF HasOut
    <2>3. a = 0 /\ b = Len(text) => Len(left) = 0
      BY <1>2, <2>2
    <2>4. Len(left) = 0 => left = <<>>
      BY <2>2, EmptySeq DEF Text
    <2> QED  BY <1>7, <2>3, <2>4
  <1>11. KillInv'
    BY <1>1, <1>7, <1>8, <1>9, <1>10 DEF KillInv
  <1>12. YankLen' = 0
    BY <1>1 DEF YankLen
  <1> QED  BY <1>11, <1>12 DEF RingInv, YankInv, YankPopTakesYank

LEMMA NothingKeeps ==
  ASSUME LineInv, RingInv, NEW cmd \in Killing, NothingToKill(cmd),
         cmd = "kill-whole-line" => text = <<>>
  PROVE  RingInv'
  <1>1. /\ last_cmd' = cmd /\ yank_len' = 0
        /\ whole' = (IF last_cmd = cmd THEN whole ELSE {})
        /\ UNCHANGED <<text, position, ring, kill_item>>
    BY DEF NothingToKill, Command, SameLine
  <1>2. YankLen' = 0
    BY <1>1 DEF YankLen
  <1>3. KillInv'
    BY <1>1 DEF RingInv, KillInv
  <1> QED  BY <1>2, <1>3 DEF RingInv, YankInv, YankPopTakesYank

(* What is put in before the cursor is found there. *)
LEMMA PutInIsThere ==
  ASSUME LineInv, NEW a \in 0..Len(text), position \in a..Len(text), NEW new \in Text,
         NEW before \in BOOLEAN, PushEditOf(Edit(a, position, new), before)
  PROVE  position' >= Len(new) /\ SubSeq(text', position' - Len(new) + 1, position') = new
  <1>1. /\ text \in Text /\ Len(text) \in Nat /\ position \in 0..Len(text) /\ Len(new) \in Nat
        /\ position \in a..position
    BY Types, TextTypes DEF LineInv
  <1>2. text' = Splice(text, a, position, new) /\ text' \in Text /\ position' = a + Len(new)
    BY <1>1, PushedEdge
  <1>3. /\ Len(text') = Len(text) - (position - a) + Len(new)
        /\ \A i \in 1..Len(new) : text'[a + i] = new[i]
    BY <1>1, <1>2, SpliceLemma
  <1> DEFINE there == SubSeq(text', a + 1, a + Len(new))
  <1>4. PICK t \in Text : t = text'
    BY <1>2
  <1>5. a + Len(new) <= Len(t) /\ a <= a + Len(new) /\ a \in Nat /\ a + Len(new) \in Nat
    BY <1>1, <1>3, <1>4
  <1>6. /\ there \in Text /\ Len(there) = (a + Len(new)) - a
        /\ \A i \in 1..((a + Len(new)) - a) : there[i] = t[a + i]
    BY <1>4, <1>5, SubPart
  <1> HIDE DEF there
  <1>7. Len(there) = Len(new)
    BY <1>1, <1>6
  <1>8. ASSUME NEW i \in 1..Len(there)  PROVE there[i] = new[i]
    <2>1. i \in 1..((a + Len(new)) - a) /\ i \in 1..Len(new)
      BY <1>1, <1>7
    <2> QED  BY <1>3, <1>4, <1>6, <2>1
  <1>9. there = new
    BY <1>6, <1>7, <1>8, SameText
  <1>10. position' - Len(new) + 1 = a + 1 /\ position' >= Len(new)
    BY <1>1, <1>2
  <1> QED  BY <1>2, <1>9, <1>10 DEF there

LEMMA YankKeeps ==
  ASSUME LineInv, RingInv, Yank
  PROVE  RingInv'
  <1>1. /\ PushEditOf(Edit(position, position, Yanked), FALSE)
        /\ last_cmd' = "yank" /\ yank_len' = Len(Yanked) /\ whole' = {} /\ ring' = ring
    BY DEF Yank, InsertString, Command
  <1>2. /\ position \in 0..Len(text) /\ position \in position..Len(text) /\ RingOK
    BY Types, TypeParts DEF LineInv
  <1>3. Yanked \in Text /\ Len(Yanked) \in Nat /\ (Len(Yanked) # 0 => ring # <<>> /\ Yanked = Head(ring))
    BY <1>2, YankedType
  <1>4. /\ position' >= Len(Yanked)
        /\ SubSeq(text', position' - Len(Yanked) + 1, position') = Yanked
    BY <1>1, <1>2, <1>3, PutInIsThere
  <1>5. YankLen' = Len(Yanked)
    BY <1>1 DEF YankLen, Yanking
  <1>6. YankInv' /\ YankPopTakesYank'
    BY <1>1, <1>3, <1>4, <1>5 DEF YankInv, YankPopTakesYank
  <1>7. KillInv'
    BY <1>1 DEF KillInv
  <1> QED  BY <1>6, <1>7 DEF RingInv

LEMMA YankPopKeeps ==
  ASSUME LineInv, RingInv, YankPop
  PROVE  RingInv'
  <1> DEFINE new == Head(Rotated(ring))
  <1>1. last_cmd' = "yank-pop" /\ whole' = whole
    BY DEF YankPop, Command
  <1>2. /\ position - YankLen \in 0..Len(text) /\ position \in (position - YankLen)..Len(text)
        /\ ring' # <<>> /\ ring' = Rotated(ring) /\ new \in Text /\ yank_len' = Len(new)
        /\ PushEditOf(Edit(position - YankLen, position, new), TRUE)
    BY YankPopEdit DEF RingInv
  <1>3. new = Head(ring')
    BY <1>2
  <1> HIDE DEF new
  <1>4. PICK a \in 0..Len(text) :
          position \in a..Len(text) /\ PushEditOf(Edit(a, position, new), TRUE)
    BY <1>2
  <1>5. position' >= Len(new) /\ SubSeq(text', position' - Len(new) + 1, position') = new
    BY <1>2, <1>4, PutInIsThere
  <1>6. YankLen' = Len(new)
    BY <1>1, <1>2 DEF YankLen, Yanking
  <1>7. YankInv' /\ YankPopTakesYank'
    BY <1>2, <1>3, <1>5, <1>6 DEF YankInv, YankPopTakesYank
  <1>8. KillInv'
    BY <1>1 DEF KillInv, Killing
  <1> QED  BY <1>7, <1>8 DEF RingInv

LEMMA ForgottenKeeps ==
  ASSUME whole' = {}, yank_len' = 0
  PROVE  RingInv'
  BY DEF RingInv, YankInv, KillInv, YankPopTakesYank, YankLen

LEMMA SameRingKeeps ==
  ASSUME RingInv, UNCHANGED <<text, position, ring, kill_item, yank_len, whole, clicked, last_cmd>>
  PROVE  RingInv'
  BY DEF RingInv, YankInv, KillInv, YankPopTakesYank, YankLen

LEMMA KillRingKeeps ==
  ASSUME LineInv, RingInv, KillRing
  PROVE  RingInv'
  <1>1. /\ position \in 0..Len(text) /\ Len(text) \in Nat
        /\ position \in 0..position /\ position \in position..Len(text)
        /\ Len(text) \in position..Len(text) /\ 0 \in 0..position
    BY Types DEF LineInv
  <1>2. "kill-line" \in Killing /\ "kill-whole-line" \in Killing /\ "kill-word" \in Killing
        /\ "backward-kill-word" \in Killing
    BY DEF Killing
  <1>3. ASSUME NEW p \in 0..Len(text), Click(p)  PROVE RingInv'
    BY <1>3 DEF Click, SameLine, RingInv, YankInv, KillInv, YankPopTakesYank, YankLen
  <1>4. CASE KillLine
    <2>1. CASE NothingToKill("kill-line")
      BY <1>2, <2>1, NothingKeeps
    <2>2. CASE Kill("kill-line", [start |-> position, end |-> Len(text)], FALSE, suppress)
      <3>1. suppress \in BOOLEAN
        BY Types DEF LineInv
      <3> QED  BY <1>1, <1>2, <2>2, <3>1, KillKeeps
    <2> QED  BY <1>4, <2>1, <2>2 DEF KillLine
  <1>5. CASE KillWholeLine
    <2>1. CASE text = <<>> /\ NothingToKill("kill-whole-line")
      BY <1>2, <2>1, NothingKeeps
    <2>2. CASE text # <<>> /\ Kill("kill-whole-line", [start |-> 0, end |-> Len(text)], FALSE, suppress)
      <3>1. suppress \in BOOLEAN
        BY Types DEF LineInv
      <3>2. ~(last_cmd = "kill-whole-line" /\ whole # {})
        BY <1>2, <2>2 DEF RingInv, KillInv
      <3> QED  BY <1>1, <1>2, <2>2, <3>1, <3>2, KillKeeps
    <2> QED  BY <1>5, <2>1, <2>2 DEF KillWholeLine
  <1>6. CASE KillWord
    <2>1. CASE NothingToKill("kill-word")
      BY <1>2, <2>1, NothingKeeps
    <2>2. ASSUME NEW end \in (position + 1)..Len(text),
                 Kill("kill-word", [start |-> position, end |-> end], FALSE, TRUE)
          PROVE  RingInv'
      <3>1. end \in position..Len(text)
        BY <1>1
      <3> QED  BY <1>1, <1>2, <2>2, <3>1, KillKeeps
    <2> QED  BY <1>6, <2>1, <2>2 DEF KillWord
  <1>7. CASE BackwardKillWord
    <2>1. CASE NothingToKill("backward-kill-word")
      BY <1>2, <2>1, NothingKeeps
    <2>2. ASSUME NEW start \in 0..(position - 1),
                 Kill("backward-kill-word", [start |-> start, end |-> position], TRUE, TRUE)
          PROVE  RingInv'
      <3>1. start \in 0..position
        BY <1>1
      <3> QED  BY <1>1, <1>2, <2>2, <3>1, KillKeeps
    <2> QED  BY <1>7, <2>1, <2>2 DEF BackwardKillWord
  <1>8. CASE Yank
    BY <1>8, YankKeeps
  <1>9. CASE YankPop
    BY <1>9, YankPopKeeps
  <1>10. CASE YankPopPanics
    BY <1>10, SameRingKeeps DEF YankPopPanics, killing
  <1> QED  BY <1>3, <1>4, <1>5, <1>6, <1>7, <1>8, <1>9, <1>10 DEF KillRing

LEMMA SuggestingKeeps ==
  ASSUME Suggesting
  PROVE  RingInv'
  <1>1. whole' = {} /\ yank_len' = 0
    BY DEF Suggesting, TypeChar, Burst, DeleteChar, UndoOrRedo, AcceptAll, AcceptNext,
           SuppressAutosuggestion, HistoryDelete, Execute, SetAutosuggestionEnabled, Plain
  <1> QED  BY <1>1, ForgottenKeeps

LEMMA RingStep ==
  ASSUME LineInv, RingInv, [Next]_vars
  PROVE  RingInv'
  <1>1. CASE Update \/ Start \/ Compute \/ Serve \/ UNCHANGED vars
    <2>1. UNCHANGED <<text, position, ring, kill_item, yank_len, whole, clicked, last_cmd>>
      BY <1>1 DEF Update, Start, Compute, Serve, background, killing, vars
    <2> QED  BY <2>1, SameRingKeeps
  <1>2. ASSUME NEW p \in 0..Len(text), MoveCursor(p)  PROVE RingInv'
    BY <1>2, ForgottenKeeps DEF MoveCursor, Plain
  <1> QED  BY <1>1, <1>2, SuggestingKeeps, KillRingKeeps DEF Next, Reader

-----------------------------------------------------------------------------
(* The theorems.                                                             *)

(* The inductive invariant of the command line: types, suggestions that fit  *)
(* and where they stand, what is found, and the kill ring.                   *)
THEOREM Invariance == Spec => [](LineInv /\ RingInv)
  <1>1. Init => LineInv /\ RingInv
    <2>1. Init => RingInv
      BY DEF Init, RingInv, YankInv, KillInv, YankPopTakesYank, YankLen
    <2> QED  BY <2>1, InitInv
  <1>2. LineInv /\ RingInv /\ [Next]_vars => (LineInv /\ RingInv)'
    BY LineStep, RingStep DEF RingInv
  <1> QED  BY <1>1, <1>2, PTL DEF Spec

(* For any history, completions, bursts and bounds: an autosuggestion always *)
(* continues the line up to where it says, and a command that finds the      *)
(* cursor at it finds it at the end of the line, unless it was restored on   *)
(* the line in flight (the assertions of reader.rs:1804 and reader.rs:4967). *)
THEOREM SuggestionsStayConsistent == Spec => []SuggestionsConsistent
  <1>1. LineInv => SuggestionsConsistent
    <2> SUFFICES ASSUME LineInv  PROVE SuggestionsConsistent
      OBVIOUS
    <2>1. TypeOK /\ SuggestionFits
      BY DEF LineInv
    <2>2. AcceptIsAtLine
      BY DEF LineInv, PlacedInv, Displaced, AcceptIsAtLine, IsAtAutosuggestion, IsAtLine
    <2> QED  BY <2>1, <2>2 DEF SuggestionsConsistent
  <1> QED  BY <1>1, Invariance, PTL

(* Unless a click moved the cursor, yank-pop replaces what was yanked last:  *)
(* it stands before the cursor, so the subtraction of reader.rs:2928 does    *)
(* not go below zero.                                                        *)
THEOREM YankPopAlwaysTakesYank == Spec => []YankPopTakesYank
  <1>1. LineInv /\ RingInv => YankPopTakesYank
    BY DEF RingInv
  <1> QED  BY <1>1, Invariance, PTL

(* However many kills of whichever kind come in a row, forwards and          *)
(* backwards, a yank after them restores the line as it was before the first *)
(* (kill_add(), kill_replace() and kill_yank() of kill.rs).                  *)
THEOREM YanksBringBack == Spec => YankBringsBack
  <1>1. LineInv /\ RingInv /\ [Next]_vars
          => [Yank /\ whole # {} /\ last_cmd \in Killing => text' \in whole]_vars
    <2> SUFFICES ASSUME LineInv, RingInv, Yank, whole # {}, last_cmd \in Killing
                 PROVE  text' \in whole
      OBVIOUS
    <2>1. /\ ring # <<>> /\ kill_item = Head(ring)
          /\ whole = {Splice(text, position, position, kill_item)}
      BY DEF RingInv, KillInv
    <2>2. PushEditOf(Edit(position, position, Yanked), FALSE) /\ Yanked = kill_item
      BY <2>1 DEF Yank, InsertString, Yanked
    <2>3. /\ position \in 0..Len(text) /\ position \in position..Len(text) /\ Yanked \in Text
      BY Types, TypeParts, YankedType DEF LineInv
    <2>4. text' = Splice(text, position, position, Yanked)
      BY <2>2, <2>3, PushedEdge
    <2> QED  BY <2>1, <2>2, <2>4
  <1> QED  BY <1>1, Invariance, PTL DEF Spec, YankBringsBack

-----------------------------------------------------------------------------
(* The line and its undo history (EditableLine): every entry tells how one  *)
(* text was made of another, from the oldest on, and the line shows the one *)
(* that the entries applied have made.                                      *)
Entries ==
  [start : Nat, end : Nat, old : Text, new : Text, before : Nat, undone : Int, group : Int]

EditableLines ==
  [text : Text, position : Nat, edits : Seq(Entries), applied : Nat, may_coalesce : BOOLEAN,
   try_coalesce : BOOLEAN, group_level : {None, 1}, group_id : Nat]

Makes(e, t, t2) ==
  /\ e.start <= e.end /\ e.end <= Len(t)
  /\ e.before <= Len(t) /\ (e.start = e.end => e.before = e.start)
  /\ e.old = Slice(t, e)
  /\ t2 = Apply(t, e)

EndsGroup(edits, k) == k < Len(edits) => ~SameGroup(edits[k], edits[k + 1])

Recounts(texts, l) ==
  /\ texts \in [0..Len(l.edits) -> Text]
  /\ texts[l.applied] = l.text
  /\ \A k \in 1..Len(l.edits) : Makes(l.edits[k], texts[k - 1], texts[k])
  /\ \A k \in (l.applied + 1)..Len(l.edits) :
       EndsGroup(l.edits, k) => l.edits[k].undone \in 0..Len(texts[k])

LineOK(l) ==
  /\ l \in EditableLines
  /\ l.position <= Len(l.text)
  /\ l.applied <= Len(l.edits)
  /\ l.may_coalesce => l.applied = Len(l.edits) /\ l.applied >= 1
  /\ \E texts : Recounts(texts, l)

LEMMA LineTypes ==
  ASSUME NEW l \in EditableLines
  PROVE  /\ l.text \in Text /\ Len(l.text) \in Nat /\ l.position \in Nat
         /\ l.edits \in Seq(Entries) /\ Len(l.edits) \in Nat /\ DOMAIN l.edits = 1..Len(l.edits)
         /\ \A k \in 1..Len(l.edits) : l.edits[k] \in Entries
         /\ l.applied \in Nat /\ l.group_id \in Nat /\ l.group_level \in {None, 1}
         /\ l.may_coalesce \in BOOLEAN /\ l.try_coalesce \in BOOLEAN
  BY TextTypes DEF EditableLines

LEMMA EntryTypes ==
  ASSUME NEW e \in Entries
  PROVE  /\ e.start \in Nat /\ e.end \in Nat /\ e.old \in Text /\ e.new \in Text
         /\ e.before \in Nat /\ e.undone \in Int /\ e.group \in Int
         /\ Len(e.old) \in Nat /\ Len(e.new) \in Nat
  BY TextTypes DEF Entries

(* What an edit does to a text, and that its inverse takes it back.         *)
LEMMA MakesLemma ==
  ASSUME NEW e \in Entries, NEW t \in Text, NEW t2, Makes(e, t, t2)
  PROVE  /\ t2 \in Text /\ t2 = Splice(t, e.start, e.end, e.new)
         /\ Len(t2) = Len(t) - (e.end - e.start) + Len(e.new)
         /\ Apply(t2, InverseEdit(e)) = t
  <1> DEFINE a == e.start
             b == e.end
             new == e.new
             old == e.old
             c == a + Len(new)
             back == Splice(t2, a, c, old)
  <1>1. a \in Nat /\ b \in Nat /\ old \in Text /\ new \in Text /\ Len(new) \in Nat /\ Len(t) \in Nat
    BY EntryTypes, TextTypes
  <1>2. a <= b /\ b <= Len(t) /\ old = SubSeq(t, a + 1, b) /\ t2 = Splice(t, a, b, new)
    BY DEF Makes, Slice, Apply, Splice
  <1>3. Apply(t2, InverseEdit(e)) = back
    <2>1. LET i == InverseEdit(e) IN i.start = a /\ i.end = c /\ i.new = old
      BY DEF InverseEdit, Entries
    <2> QED  BY <2>1 DEF Apply, Splice
  <1> HIDE DEF a, b, new, old, c, back
  <1>4. a \in 0..Len(t) /\ b \in a..Len(t)
    BY <1>1, <1>2
  <1>5. /\ t2 \in Text /\ Len(t2) = Len(t) - (b - a) + Len(new)
        /\ \A i \in 1..a : t2[i] = t[i]
        /\ \A i \in 1..Len(new) : t2[a + i] = new[i]
        /\ \A i \in 1..(Len(t) - b) : t2[a + Len(new) + i] = t[b + i]
    <2>1. t \in Text /\ a \in 0..Len(t) /\ b \in a..Len(t) /\ new \in Text
      BY <1>1, <1>4
    <2> QED  BY ONLY <2>1, <1>2, SpliceLemma
  <1>6. /\ Len(old) = b - a /\ \A i \in 1..(b - a) : old[i] = t[a + i]
    BY <1>1, <1>2, SubPart
  <1>7. c \in Nat /\ a \in 0..Len(t2) /\ c \in a..Len(t2)
    BY <1>1, <1>4, <1>5 DEF c
  <1>8. /\ back \in Text /\ Len(back) = Len(t2) - (c - a) + Len(old)
        /\ \A i \in 1..a : back[i] = t2[i]
        /\ \A i \in 1..Len(old) : back[a + i] = old[i]
        /\ \A i \in 1..(Len(t2) - c) : back[a + Len(old) + i] = t2[c + i]
    <2>1. t2 \in Text /\ a \in 0..Len(t2) /\ c \in a..Len(t2) /\ old \in Text
      BY <1>1, <1>5, <1>7
    <2> QED  BY ONLY <2>1, SpliceLemma DEF back
  <1>9. Len(back) = Len(t)
    BY <1>1, <1>4, <1>5, <1>6, <1>8 DEF c
  <1>10. ASSUME NEW i \in 1..Len(t)  PROVE  back[i] = t[i]
    <2>1. CASE i <= a
      BY <1>5, <1>8, <2>1, <1>1
    <2>2. CASE a < i /\ i <= b
      <3>1. i - a \in 1..(b - a) /\ a + (i - a) = i
        BY <1>1, <2>2
      <3>2. back[a + (i - a)] = old[i - a] /\ old[i - a] = t[a + (i - a)]
        BY <1>6, <1>8, <3>1
      <3> QED  BY <3>1, <3>2
    <2>3. CASE b < i
      <3>1. /\ i - b \in 1..(Len(t) - b) /\ b + (i - b) = i
            /\ i - b \in 1..(Len(t2) - c) /\ a + Len(old) + (i - b) = i
            /\ c + (i - b) = a + Len(new) + (i - b)
        BY <1>1, <1>2, <1>5, <1>6, <2>3 DEF c
      <3>2. back[a + Len(old) + (i - b)] = t2[c + (i - b)]
        BY <1>8, <3>1
      <3>3. t2[a + Len(new) + (i - b)] = t[b + (i - b)]
        BY <1>5, <3>1
      <3> QED  BY <3>1, <3>2, <3>3
    <2> QED  BY <1>1, <2>1, <2>2, <2>3
  <1>11. back = t
    BY <1>8, <1>9, <1>10, SameText
  <1> QED  BY <1>2, <1>3, <1>5, <1>11 DEF a, b, new

(* A number for which something fails is not the least one. *)
LEMMA Upwards ==
  ASSUME NEW m \in Nat, NEW good, good \subseteq Nat, m \in good,
         \A k \in Nat : k >= m /\ k \in good => k + 1 \in good
  PROVE  \A k \in Nat : k >= m => k \in good
  <1> DEFINE bad == {k \in Nat : k >= m /\ k \notin good}
  <1> SUFFICES ASSUME bad # {}  PROVE  FALSE
    OBVIOUS
  <1>1. PICK k \in bad : \A j \in bad : k <= j
    <2>1. bad \in SUBSET Nat
      OBVIOUS
    <2> HIDE DEF bad
    <2> QED  BY <2>1, LeastNatural
  <1>2. k \in Nat /\ k >= m /\ k # m
    BY <1>1
  <1>3. k - 1 \in Nat /\ k - 1 >= m /\ (k - 1) + 1 = k
    BY <1>2
  <1>4. k - 1 \in good
    BY <1>1, <1>3
  <1> QED  BY <1>1, <1>3, <1>4

(* Entries taken back, or applied again, one after the other: entries i .. j *)
(* make each text of the one before it.                                     *)
Forward(texts, edits, i, j) == \A k \in i..j : texts[k] = Apply(texts[k - 1], edits[k])

LEMMA ReplayLemma ==
  ASSUME NEW edits, NEW i \in Nat, NEW j \in Nat, 1 <= i, i <= j + 1,
         NEW n, n = i - 1,
         NEW texts, Forward(texts, edits, i, j)
  PROVE  Replay(texts[n], edits, i, j) = texts[j]
  <1> DEFINE Steps(f) == f = [k \in (i - 1)..j |->
                                IF k < i THEN texts[n] ELSE Apply(f[k - 1], edits[k])]
             after == CHOOSE f : Steps(f)
             told == [k \in (i - 1)..j |-> texts[k]]
  <1>1. Steps(told)
    <2>1. ASSUME NEW k \in (i - 1)..j
          PROVE  told[k] = IF k < i THEN texts[n] ELSE Apply(told[k - 1], edits[k])
      <3>1. CASE k < i
        <4>1. k = n
          BY <3>1
        <4> QED  BY <4>1
      <3>2. CASE ~(k < i)
        <4>1. k \in i..j /\ k - 1 \in (i - 1)..j
          BY <3>2
        <4> QED  BY <4>1, <3>2 DEF Forward
      <3> QED  BY <3>1, <3>2
    <2>2. told = [k \in (i - 1)..j |-> told[k]]
      OBVIOUS
    <2> HIDE DEF told
    <2> QED  BY <2>1, <2>2
  <1>2. Replay(texts[n], edits, i, j) = after[j]
    BY DEF Replay
  <1>3. Steps(after)
    <2> HIDE DEF Steps
    <2> QED  BY <1>1
  <1> HIDE DEF after, told
  <1> DEFINE good == {k \in Nat : k <= j => after[k] = texts[k]}
  <1>4. i - 1 \in Nat /\ j >= i - 1
    OBVIOUS
  <1>5. i - 1 \in good
    <2>1. i - 1 \in (i - 1)..j /\ i - 1 < i
      OBVIOUS
    <2> QED  BY <1>3, <1>4, <2>1
  <1>6. ASSUME NEW k \in Nat, k >= i - 1, k \in good  PROVE  k + 1 \in good
    <2> SUFFICES ASSUME k + 1 <= j  PROVE  after[k + 1] = texts[k + 1]
      OBVIOUS
    <2>1. k + 1 \in i..j /\ k + 1 \in (i - 1)..j /\ ~(k + 1 < i) /\ (k + 1) - 1 = k
      BY <1>6
    <2>2. after[k + 1] = Apply(after[(k + 1) - 1], edits[k + 1])
      BY <1>3, <2>1
    <2>3. texts[k + 1] = Apply(texts[(k + 1) - 1], edits[k + 1])
      BY <2>1 DEF Forward
    <2> QED  BY <1>6, <2>1, <2>2, <2>3
  <1>7. \A k \in Nat : k >= i - 1 => k \in good
    <2>1. good \subseteq Nat
      OBVIOUS
    <2> HIDE DEF good
    <2> QED  BY <1>4, <1>5, <1>6, <2>1, Upwards
  <1> QED  BY <1>2, <1>4, <1>7

LEMMA RevertLemma ==
  ASSUME NEW edits, NEW i \in Nat, NEW j \in Nat, 1 <= i, i <= j + 1,
         NEW texts, \A k \in i..j : texts[k - 1] = Apply(texts[k], InverseEdit(edits[k]))
  PROVE  Revert(texts[j], edits, i, j) = texts[i - 1]
  <1> DEFINE Steps(f) == f = [k \in i..(j + 1) |->
                                IF k > j THEN texts[j] ELSE Apply(f[k + 1], InverseEdit(edits[k]))]
             before == CHOOSE f : Steps(f)
             told == [k \in i..(j + 1) |-> texts[k - 1]]
  <1>1. Steps(told)
    <2>1. ASSUME NEW k \in i..(j + 1)
          PROVE  told[k] = IF k > j THEN texts[j] ELSE Apply(told[k + 1], InverseEdit(edits[k]))
      <3>1. CASE k > j
        <4>1. k = j + 1 /\ k - 1 = j
          BY <3>1
        <4> QED  BY <4>1, <3>1
      <3>2. CASE ~(k > j)
        <4>1. k \in i..j /\ k + 1 \in i..(j + 1) /\ (k + 1) - 1 = k
          BY <3>2
        <4>2. told[k + 1] = texts[k] /\ told[k] = texts[k - 1]
          BY <4>1
        <4> QED  BY <4>1, <4>2, <3>2
      <3> QED  BY <3>1, <3>2
    <2>2. told = [k \in i..(j + 1) |-> told[k]]
      OBVIOUS
    <2> HIDE DEF told
    <2> QED  BY <2>1, <2>2
  <1>2. Revert(texts[j], edits, i, j) = before[i]
    BY DEF Revert
  <1>3. Steps(before)
    <2> HIDE DEF Steps
    <2> QED  BY <1>1
  <1> HIDE DEF before, told
  <1> DEFINE good == {n \in Nat : n <= j + 1 - i => before[j + 1 - n] = texts[j - n]}
  <1>4. 0 \in good
    <2>1. j + 1 \in i..(j + 1) /\ j + 1 > j /\ j + 1 - 0 = j + 1 /\ j - 0 = j
      OBVIOUS
    <2> QED  BY <1>3, <2>1
  <1>5. ASSUME NEW n \in Nat, n >= 0, n \in good  PROVE  n + 1 \in good
    <2> SUFFICES ASSUME n + 1 <= j + 1 - i  PROVE  before[j + 1 - (n + 1)] = texts[j - (n + 1)]
      OBVIOUS
    <2> DEFINE k == j - n
    <2>1. /\ k \in i..j /\ k \in i..(j + 1) /\ ~(k > j)
          /\ j + 1 - (n + 1) = k /\ j - (n + 1) = k - 1 /\ k + 1 = j + 1 - n
      OBVIOUS
    <2>2. before[k + 1] = texts[k]
      BY <1>5, <2>1
    <2> HIDE DEF k
    <2>3. before[k] = Apply(before[k + 1], InverseEdit(edits[k]))
      BY <1>3, <2>1
    <2> QED  BY <2>1, <2>2, <2>3
  <1>6. \A n \in Nat : n >= 0 => n \in good
    <2>1. good \subseteq Nat
      OBVIOUS
    <2> HIDE DEF good
    <2> QED  BY <1>4, <1>5, <2>1, Upwards
  <1>7. j + 1 - i \in Nat /\ j + 1 - (j + 1 - i) = i /\ j - (j + 1 - i) = i - 1
    OBVIOUS
  <1>8. before[i] = texts[i - 1]
    BY <1>6, <1>7
  <1> QED  BY <1>2, <1>8

(* A group of entries has a first and a last one. *)
LEMMA FirstLemma ==
  ASSUME NEW edits, NEW k \in Nat, k >= 1
  PROVE  LET i == FirstOfGroup(edits, k) IN
         /\ i \in 1..k
         /\ \A j \in i..(k - 1) : SameGroup(edits[j], edits[j + 1])
         /\ i > 1 => ~SameGroup(edits[i - 1], edits[i])
  <1> DEFINE OneGroup(i) == \A j \in i..(k - 1) : SameGroup(edits[j], edits[j + 1])
             starts == {i \in 1..k : OneGroup(i)}
             First(i) == OneGroup(i) /\ (i > 1 => ~SameGroup(edits[i - 1], edits[i]))
  <1>1. PICK i \in starts : \A m \in starts : i <= m
    <2>1. starts \in SUBSET Nat /\ k \in starts
      OBVIOUS
    <2> HIDE DEF starts
    <2> QED  BY <2>1, LeastNatural
  <1>2. i \in 1..k /\ OneGroup(i)
    BY <1>1
  <1>3. i > 1 => ~SameGroup(edits[i - 1], edits[i])
    <2> SUFFICES ASSUME i > 1, SameGroup(edits[i - 1], edits[i])  PROVE  FALSE
      OBVIOUS
    <2>1. i - 1 \in 1..k /\ i \in Nat /\ (i - 1) + 1 = i
      BY <1>2
    <2>2. \A j \in (i - 1)..(k - 1) : j = i - 1 \/ j \in i..(k - 1)
      BY <2>1
    <2>3. OneGroup(i - 1)
      BY <1>2, <2>1, <2>2
    <2> QED  BY <1>1, <2>1, <2>3
  <1>4. \E n \in 1..k : First(n)
    BY <1>2, <1>3
  <1>5. FirstOfGroup(edits, k) = CHOOSE n \in 1..k : First(n)
    BY DEF FirstOfGroup
  <1> HIDE DEF First
  <1>6. FirstOfGroup(edits, k) \in 1..k /\ First(FirstOfGroup(edits, k))
    BY <1>4, <1>5
  <1> QED  BY <1>6 DEF First

LEMMA LastLemma ==
  ASSUME NEW edits, Len(edits) \in Nat, NEW k \in 1..Len(edits)
  PROVE  LET i == LastOfGroup(edits, k) IN
         /\ i \in k..Len(edits)
         /\ \A j \in k..(i - 1) : SameGroup(edits[j], edits[j + 1])
         /\ EndsGroup(edits, i)
  <1> DEFINE OneGroup(i) == \A j \in k..(i - 1) : SameGroup(edits[j], edits[j + 1])
             ends == {n \in Nat : n <= Len(edits) - k /\ OneGroup(Len(edits) - n)}
             Last1(i) == OneGroup(i) /\ (i < Len(edits) => ~SameGroup(edits[i], edits[i + 1]))
  <1>1. PICK n \in ends : \A m \in ends : n <= m
    <2>1. Len(edits) - k \in Nat /\ Len(edits) - (Len(edits) - k) = k
      OBVIOUS
    <2>2. ends \in SUBSET Nat /\ Len(edits) - k \in ends
      BY <2>1
    <2> HIDE DEF ends
    <2> QED  BY <2>2, LeastNatural
  <1> DEFINE i == Len(edits) - n
  <1>2. n \in Nat /\ i \in k..Len(edits) /\ OneGroup(i)
    BY <1>1
  <1>3. i < Len(edits) => ~SameGroup(edits[i], edits[i + 1])
    <2> SUFFICES ASSUME i < Len(edits), SameGroup(edits[i], edits[i + 1])  PROVE  FALSE
      OBVIOUS
    <2>1. n - 1 \in Nat /\ n - 1 <= Len(edits) - k /\ Len(edits) - (n - 1) = i + 1
      BY <1>2
    <2>2. \A j \in k..((i + 1) - 1) : j = i \/ j \in k..(i - 1)
      BY <1>2
    <2>3. OneGroup(i + 1)
      BY <1>2, <2>2
    <2>4. n - 1 \in ends
      BY <2>1, <2>3
    <2> HIDE DEF ends
    <2> QED  BY <1>1, <1>2, <2>4
  <1> HIDE DEF i
  <1>4. \E m \in k..Len(edits) : Last1(m)
    BY <1>2, <1>3
  <1>5. LastOfGroup(edits, k) = CHOOSE m \in k..Len(edits) : Last1(m)
    BY DEF LastOfGroup
  <1> HIDE DEF Last1
  <1>6. LastOfGroup(edits, k) \in k..Len(edits) /\ Last1(LastOfGroup(edits, k))
    BY <1>4, <1>5
  <1> QED  BY <1>6 DEF Last1, EndsGroup

LEMMA EmptyLineOK == LineOK(EmptyLine) /\ EmptyLine.group_level = None
  <1> DEFINE texts == [k \in 0..0 |-> <<>>]
  <1>1. <<>> \in Text /\ <<>> \in Seq(Entries) /\ Len(<<>>) = 0
    BY DEF Text
  <1>2. Recounts(texts, EmptyLine)
    BY <1>1 DEF Recounts, EmptyLine
  <1>3. EmptyLine \in EditableLines
    BY <1>1 DEF EditableLines, EmptyLine, None
  <1> HIDE DEF texts
  <1>4. /\ EmptyLine.group_level = None /\ EmptyLine.position = 0 /\ EmptyLine.text = <<>>
        /\ EmptyLine.applied = 0 /\ EmptyLine.edits = <<>> /\ EmptyLine.may_coalesce = FALSE
    BY DEF EmptyLine
  <1> QED  BY <1>1, <1>2, <1>3, <1>4 DEF LineOK

LEMMA SetPositionLemma ==
  ASSUME NEW l, LineOK(l), NEW p \in 0..Len(l.text)
  PROVE  LET r == SetPosition(l, p) IN
         /\ LineOK(r) /\ r.text = l.text /\ r.position = p
         /\ r.edits = l.edits /\ r.applied = l.applied
         /\ r.group_level = l.group_level /\ r.group_id = l.group_id
  <1> DEFINE r == SetPosition(l, p)
  <1>1. l \in EditableLines
    BY DEF LineOK
  <1>2. p \in Nat /\ p <= Len(l.text)
    BY <1>1, LineTypes
  <1>3. /\ r \in EditableLines /\ r.text = l.text /\ r.position = p /\ r.edits = l.edits
        /\ r.applied = l.applied /\ r.may_coalesce = l.may_coalesce
        /\ r.group_level = l.group_level /\ r.group_id = l.group_id
    BY <1>1, <1>2 DEF SetPosition, EditableLines
  <1> HIDE DEF r
  <1>4. PICK texts : Recounts(texts, l)
    BY DEF LineOK
  <1>5. Recounts(texts, r)
    BY <1>3, <1>4 DEF Recounts
  <1>6. LineOK(r)
    BY <1>2, <1>3, <1>5 DEF LineOK
  <1> QED  BY <1>3, <1>6 DEF r

(* Lines that differ only in what joins later edits.                        *)
LEMMA SameHistory ==
  ASSUME NEW l, LineOK(l), NEW r \in EditableLines, r.text = l.text, r.position = l.position,
         r.edits = l.edits, r.applied = l.applied, r.may_coalesce => l.may_coalesce
  PROVE  LineOK(r)
  <1>1. PICK texts : Recounts(texts, l)
    BY DEF LineOK
  <1>2. Recounts(texts, r)
    BY <1>1 DEF Recounts
  <1> QED  BY <1>2 DEF LineOK

LEMMA BeginGroupLemma ==
  ASSUME NEW l, LineOK(l)
  PROVE  LET r == BeginGroup(l) IN
         /\ LineOK(r) /\ r.text = l.text /\ r.position = l.position
         /\ r.edits = l.edits /\ r.applied = l.applied
         /\ IF l.group_level # None THEN r = l
            ELSE r.group_level = 1 /\ r.group_id = l.group_id + 1
  <1>1. l \in EditableLines
    BY DEF LineOK
  <1> DEFINE r == [l EXCEPT !.group_level = 1, !.may_coalesce = FALSE,
                            !.try_coalesce = TRUE, !.group_id = @ + 1]
  <1>2. /\ r \in EditableLines /\ r.text = l.text /\ r.position = l.position /\ r.edits = l.edits
        /\ r.applied = l.applied /\ r.may_coalesce = FALSE
        /\ r.group_level = 1 /\ r.group_id = l.group_id + 1
    <2> DEFINE n == l.group_id + 1
    <2>1. n \in Nat /\ r = [l EXCEPT !.group_level = 1, !.may_coalesce = FALSE,
                                    !.try_coalesce = TRUE, !.group_id = n]
      BY <1>1, LineTypes
    <2> HIDE DEF n, r
    <2>2. /\ r \in EditableLines /\ r.text = l.text /\ r.position = l.position /\ r.edits = l.edits
          /\ r.applied = l.applied /\ r.may_coalesce = FALSE
          /\ r.group_level = 1 /\ r.group_id = n
      BY <1>1, <2>1 DEF EditableLines
    <2> QED  BY <2>2 DEF n
  <1> HIDE DEF r
  <1>3. LineOK(r)
    BY <1>2, SameHistory
  <1>4. BeginGroup(l) = IF l.group_level # None THEN l ELSE r
    BY DEF BeginGroup, r
  <1> QED  BY <1>2, <1>3, <1>4

LEMMA EndGroupLemma ==
  ASSUME NEW l, LineOK(l)
  PROVE  LET r == EndGroup(l) IN
         /\ LineOK(r) /\ r.text = l.text /\ r.position = l.position
         /\ r.edits = l.edits /\ r.applied = l.applied /\ r.group_level = None
         /\ r.group_id = l.group_id
  <1>1. l \in EditableLines
    BY DEF LineOK
  <1> DEFINE r == [l EXCEPT !.group_level = None, !.try_coalesce = FALSE,
                            !.may_coalesce = FALSE]
  <1>2. /\ r \in EditableLines /\ r.text = l.text /\ r.position = l.position /\ r.edits = l.edits
        /\ r.applied = l.applied /\ r.may_coalesce = FALSE /\ r.group_level = None
        /\ r.group_id = l.group_id
    BY <1>1 DEF EditableLines
  <1>3. l.group_level = None \/ l.group_level = 1
    BY <1>1, LineTypes
  <1>4. EndGroup(l) = IF l.group_level = None THEN l ELSE r
    BY <1>3 DEF EndGroup
  <1> HIDE DEF r
  <1>5. LineOK(r)
    BY <1>2, SameHistory
  <1> QED  BY <1>2, <1>4, <1>5

-----------------------------------------------------------------------------
(* An edit of the line in the range [a, b).                                  *)

(* The entry of an edit of t when the cursor is at p. *)
Entry(t, a, b, p, new, group) ==
  [start |-> a, end |-> b, old |-> SubSeq(t, a + 1, b), new |-> new,
   before |-> p, undone |-> None, group |-> group]

LEMMA EntryEdit ==
  ASSUME NEW t, NEW a, NEW b, NEW p, NEW new, NEW group
  PROVE  [Edit(a, b, new) EXCEPT !.group = group, !.before = p, !.old = Slice(t, Edit(a, b, new))]
           = Entry(t, a, b, p, new, group)
  <1>1. Slice(t, Edit(a, b, new)) = SubSeq(t, a + 1, b)
    <2> DEFINE e == Edit(a, b, new)
    <2>1. e.start = a /\ e.end = b
      BY EditFields
    <2> HIDE DEF e
    <2>2. Slice(t, e) = SubSeq(t, a + 1, b)
      BY <2>1 DEF Slice
    <2> QED  BY <2>2 DEF e
  <1> DEFINE old == SubSeq(t, a + 1, b)
  <1> HIDE DEF old
  <1>2. [Edit(a, b, new) EXCEPT !.group = group, !.before = p, !.old = old]
          = [start |-> a, end |-> b, old |-> old, new |-> new,
             before |-> p, undone |-> None, group |-> group]
    <2> DEFINE e == Edit(a, b, new)
    <2>1. e = [start |-> a, end |-> b, old |-> <<>>, new |-> new,
               before |-> 0, undone |-> None, group |-> None]
      BY DEF Edit
    <2> HIDE DEF e
    <2> DEFINE e1 == [e EXCEPT !.group = group]
               e2 == [e1 EXCEPT !.before = p]
               e3 == [e2 EXCEPT !.old = old]
    <2>2. e1 = [start |-> a, end |-> b, old |-> <<>>, new |-> new,
                before |-> 0, undone |-> None, group |-> group]
      BY <2>1
    <2> HIDE DEF e1
    <2>3. e2 = [start |-> a, end |-> b, old |-> <<>>, new |-> new,
                before |-> p, undone |-> None, group |-> group]
      BY <2>2
    <2> HIDE DEF e2
    <2>4. e3 = [start |-> a, end |-> b, old |-> old, new |-> new,
                before |-> p, undone |-> None, group |-> group]
      BY <2>3
    <2> QED  BY <2>4 DEF e, e1, e2
  <1> QED  BY <1>1, <1>2 DEF Entry, old

LEMMA EntryFields ==
  ASSUME NEW t, NEW a, NEW b, NEW p, NEW new, NEW group
  PROVE  LET e == Entry(t, a, b, p, new, group) IN
         /\ e.start = a /\ e.end = b /\ e.new = new /\ e.old = SubSeq(t, a + 1, b)
         /\ e.before = p /\ e.group = group
  BY DEF Entry

LEMMA EntryLemma ==
  ASSUME NEW t \in Text, NEW a \in Nat, NEW b \in Nat, NEW p \in Nat, NEW new \in Text,
         NEW group \in Int, a <= b, b <= Len(t), p <= Len(t), a = b => p = a
  PROVE  LET e == Entry(t, a, b, p, new, group)
             r == Apply(t, Edit(a, b, new))
         IN /\ e \in Entries /\ Makes(e, t, r)
            /\ CursorAfter(e) \in Nat /\ CursorAfter(e) <= Len(r)
            /\ p <= b => CursorAfter(e) <= a + Len(new)
  <1> DEFINE e == Entry(t, a, b, p, new, group)
             r == Apply(t, Edit(a, b, new))
             old == SubSeq(t, a + 1, b)
  <1>1. Len(t) \in Nat /\ Len(new) \in Nat
    BY TextTypes
  <1>2. old \in Text
    BY <1>1, SubPart
  <1>3. /\ e.start = a /\ e.end = b /\ e.new = new /\ e.old = old
        /\ e.before = p /\ e.group = group
    BY EntryFields
  <1>4. e \in Entries
    <2> HIDE DEF old
    <2> QED  BY <1>1, <1>2 DEF Entry, Entries, None, old
  <1> HIDE DEF e
  <1>5. r = Apply(t, e) /\ old = Slice(t, e)
    <2> DEFINE d == Edit(a, b, new)
    <2>1. d.start = a /\ d.end = b /\ d.new = new
      BY EditFields
    <2> HIDE DEF d
    <2>2. Apply(t, d) = Apply(t, e)
      BY <1>3, <2>1 DEF Apply
    <2>3. old = Slice(t, e)
      BY <1>3 DEF Slice
    <2> QED  BY <2>2, <2>3 DEF d
  <1> HIDE DEF r, old
  <1>6. Makes(e, t, r)
    BY <1>1, <1>3, <1>5 DEF Makes
  <1>7. CursorAfter(e) = IF p <= a THEN p + Len(new)
                         ELSE IF p <= b THEN a + Len(new) ELSE p - (b - a) + Len(new)
    BY <1>1, <1>3 DEF CursorAfter
  <1>8. Len(r) = Len(t) - (b - a) + Len(new)
    BY <1>3, <1>4, <1>6, MakesLemma
  <1>9. /\ CursorAfter(e) \in Nat /\ CursorAfter(e) <= Len(r)
        /\ p <= b => CursorAfter(e) <= a + Len(new)
    BY <1>1, <1>7, <1>8
  <1> QED  BY <1>4, <1>6, <1>9 DEF e, r

LEMMA PushedLemma ==
  ASSUME NEW l, LineOK(l), NEW a \in 0..Len(l.text), NEW b \in a..Len(l.text),
         NEW new \in Text, a = b => l.position = a
  PROVE  LET r == Pushed(l, Edit(a, b, new)) IN
         /\ LineOK(r) /\ r.text = Apply(l.text, Edit(a, b, new))
         /\ r.group_level = l.group_level /\ r.applied = l.applied + 1
         /\ Len(r.edits) = l.applied + 1
         /\ r.edits[r.applied].before = l.position
         /\ Apply(r.text, InverseEdit(r.edits[r.applied])) = l.text
         /\ r.edits[r.applied].group = IF l.group_level = None THEN None ELSE l.group_id
         /\ r.group_id = l.group_id
         /\ \A k \in 1..l.applied : r.edits[k] = l.edits[k]
         /\ l.position <= b => r.position <= a + Len(new)
  <1> DEFINE edit == Edit(a, b, new)
             group == IF l.group_level = None THEN None ELSE l.group_id
             entry == Entry(l.text, a, b, l.position, new, group)
             n == l.applied
             kept == SubSeq(l.edits, 1, n)
             made == Append(kept, entry)
             text2 == Apply(l.text, edit)
             may == /\ edit.start = edit.end /\ (l.try_coalesce \/ Len(edit.new) = 1)
             r == Pushed(l, edit)
  <1>1. l \in EditableLines /\ n <= Len(l.edits) /\ l.position <= Len(l.text) /\ n \in Nat /\ Len(l.edits) \in Nat
    BY LineTypes DEF LineOK
  <1>2. /\ l.text \in Text /\ l.position \in 0..Len(l.text) /\ group \in Int
        /\ l.edits \in Seq(Entries)
    BY <1>1, LineTypes DEF None
  <1> HIDE DEF group
  <1>3. /\ entry \in Entries /\ Makes(entry, l.text, text2)
        /\ entry.group = group /\ entry.before = l.position
        /\ CursorAfter(entry) \in Nat /\ CursorAfter(entry) <= Len(text2)
        /\ l.position <= b => CursorAfter(entry) <= a + Len(new)
    <2>1. /\ a \in 0..Len(l.text) /\ b \in a..Len(l.text) /\ new \in Text
          /\ (a = b => l.position = a)
      OBVIOUS
    <2> DEFINE t == l.text
               p == l.position
    <2>2. t \in Text /\ group \in Int /\ new \in Text /\ (a = b => p = a)
      BY <1>2, <2>1
    <2>3. a \in Nat /\ b \in Nat /\ p \in Nat /\ a <= b /\ b <= Len(t) /\ p <= Len(t)
      BY <1>1, <1>2, <2>1, TextTypes
    <2>4. entry.group = group /\ entry.before = l.position
      BY EntryFields
    <2> HIDE DEF t, p
    <2>5. /\ Entry(t, a, b, p, new, group) \in Entries
          /\ Makes(Entry(t, a, b, p, new, group), t, Apply(t, Edit(a, b, new)))
          /\ CursorAfter(Entry(t, a, b, p, new, group)) \in Nat
          /\ CursorAfter(Entry(t, a, b, p, new, group)) <= Len(Apply(t, Edit(a, b, new)))
          /\ p <= b => CursorAfter(Entry(t, a, b, p, new, group)) <= a + Len(new)
      BY <2>2, <2>3, EntryLemma, Zenon
    <2> QED  BY <2>4, <2>5 DEF t, p
  <1>4. text2 \in Text
    BY <1>2, <1>3, MakesLemma
  <1>5. edit.start = a /\ edit.end = b /\ edit.new = new /\ Len(new) \in Nat /\ a \in Nat
    BY EditFields, TextTypes, <1>2
  <1>6. r = [l EXCEPT !.edits = made, !.applied = n + 1, !.text = text2,
                      !.position = CursorAfter(entry), !.may_coalesce = may]
    BY EntryEdit DEF Pushed, group
  <1>7. may \in BOOLEAN
    BY <1>1, LineTypes
  <1>8. /\ kept \in Seq(Entries) /\ Len(kept) = n /\ \A i \in 1..n : kept[i] = l.edits[i]
    <2>1. \A i \in 1..n : l.edits[i] \in Entries
      BY <1>1, LineTypes
    <2> QED  BY <1>1, <1>2, <2>1, SubSeqProperties
  <1> HIDE DEF kept, entry, edit, may, text2
  <1>9. /\ made \in Seq(Entries) /\ Len(made) = n + 1 /\ made[n + 1] = entry
        /\ \A i \in 1..n : made[i] = kept[i]
    BY <1>1, <1>3, <1>8, AppendProperties
  <1> HIDE DEF made
  <1>10. CursorAfter(entry) \in Nat /\ CursorAfter(entry) <= Len(text2)
    BY <1>3, <1>4, TextTypes
  <1>11. /\ r \in EditableLines /\ r.edits = made /\ r.applied = n + 1 /\ r.text = text2
         /\ r.position = CursorAfter(entry) /\ r.may_coalesce = may /\ r.group_level = l.group_level
         /\ r.group_id = l.group_id
    <2>1. n + 1 \in Nat
      BY <1>1
    <2> DEFINE c == CursorAfter(entry)
               m == n + 1
    <2>2. /\ l \in EditableLines /\ made \in Seq(Entries) /\ m \in Nat /\ text2 \in Text /\ c \in Nat
          /\ may \in BOOLEAN
          /\ r = [l EXCEPT !.edits = made, !.applied = m, !.text = text2,
                           !.position = c, !.may_coalesce = may]
      BY <1>1, <1>4, <1>6, <1>7, <1>9, <1>10, <2>1
    <2> HIDE DEF c, m, r, n
    <2>3. /\ r \in EditableLines /\ r.edits = made /\ r.applied = m /\ r.text = text2
          /\ r.position = c /\ r.may_coalesce = may /\ r.group_level = l.group_level
          /\ r.group_id = l.group_id
      BY <2>2 DEF EditableLines
    <2> QED  BY <2>3 DEF c, m
  <1> HIDE DEF r
  <1>12. PICK texts : Recounts(texts, l)
    BY DEF LineOK
  <1> DEFINE texts2 == [k \in 0..(n + 1) |-> IF k <= n THEN texts[k] ELSE text2]
  <1>13. texts \in [0..Len(l.edits) -> Text] /\ texts[n] = l.text
    BY <1>12 DEF Recounts
  <1>14. texts2 \in [0..Len(r.edits) -> Text] /\ texts2[r.applied] = r.text
    BY <1>1, <1>4, <1>9, <1>11, <1>13
  <1>15. ASSUME NEW k \in 1..Len(r.edits)  PROVE  Makes(r.edits[k], texts2[k - 1], texts2[k])
    <2>1. CASE k <= n
      <3>1. k \in 1..n /\ k - 1 \in 0..n /\ k \in 1..Len(l.edits)
        BY <1>1, <1>9, <1>11, <2>1
      <3>2. r.edits[k] = l.edits[k] /\ texts2[k - 1] = texts[k - 1] /\ texts2[k] = texts[k]
        BY <1>8, <1>9, <1>11, <3>1
      <3>3. Makes(l.edits[k], texts[k - 1], texts[k])
        BY <1>12, <3>1 DEF Recounts
      <3> QED  BY <3>2, <3>3
    <2>2. CASE ~(k <= n)
      <3>1. k = n + 1 /\ k - 1 = n
        BY <1>1, <1>9, <1>11, <2>2
      <3>2. r.edits[k] = entry /\ texts2[k - 1] = l.text /\ texts2[k] = text2
        BY <1>1, <1>9, <1>11, <1>13, <3>1
      <3> QED  BY <1>3, <3>2
    <2> QED  BY <2>1, <2>2
  <1>16. (r.applied + 1)..Len(r.edits) = {}
    BY <1>1, <1>9, <1>11
  <1> HIDE DEF texts2
  <1>17. Recounts(texts2, r)
    BY <1>14, <1>15, <1>16 DEF Recounts
  <1>18. LineOK(r)
    BY <1>1, <1>9, <1>10, <1>11, <1>17 DEF LineOK
  <1>19. r.edits[r.applied] = entry
    BY <1>9, <1>11
  <1>20. Apply(text2, InverseEdit(entry)) = l.text
    BY <1>2, <1>3, MakesLemma
  <1>21. \A k \in 1..n : r.edits[k] = l.edits[k]
    BY <1>8, <1>9, <1>11
  <1> QED  BY <1>3, <1>9, <1>11, <1>18, <1>19, <1>20, <1>21 DEF r, edit, text2, group

LEMMA InsertedText ==
  ASSUME NEW t \in Text, NEW new \in Text, NEW a \in Nat, a <= Len(t)
  PROVE  LET r == Splice(t, a, a, new) IN
         /\ r \in Text /\ Len(r) = Len(t) + Len(new)
         /\ \A i \in 1..a : r[i] = t[i]
         /\ \A i \in 1..(Len(t) - a) : r[a + Len(new) + i] = t[a + i]
  <1> DEFINE r == Splice(t, a, a, new)
  <1>1. Len(t) \in Nat /\ Len(new) \in Nat /\ a \in 0..Len(t) /\ a \in a..Len(t)
    BY TextTypes
  <1>2. /\ r \in Text /\ Len(r) = Len(t) - (a - a) + Len(new)
        /\ \A i \in 1..a : r[i] = t[i]
        /\ \A i \in 1..Len(new) : r[a + i] = new[i]
        /\ \A i \in 1..(Len(t) - a) : r[a + Len(new) + i] = t[a + i]
    BY <1>1, SpliceLemma
  <1> HIDE DEF r
  <1> QED  BY <1>1, <1>2 DEF r

(* Two insertions, one where the other ended, are one. *)
LEMMA SpliceTwice ==
  ASSUME NEW t \in Text, NEW x \in Text, NEW y \in Text, NEW a \in Nat, a <= Len(t)
  PROVE  Splice(Splice(t, a, a, x), a + Len(x), a + Len(x), y) = Splice(t, a, a, x \o y)
  <1> DEFINE m == Splice(t, a, a, x)
             c == a + Len(x)
             r == Splice(m, c, c, y)
             xy == x \o y
             s == Splice(t, a, a, xy)
  <1>1. Len(t) \in Nat /\ Len(x) \in Nat /\ Len(y) \in Nat /\ a \in 0..Len(t) /\ a \in a..Len(t)
    BY TextTypes
  <1>2. /\ m \in Text /\ Len(m) = Len(t) - (a - a) + Len(x)
        /\ \A i \in 1..a : m[i] = t[i]
        /\ \A i \in 1..Len(x) : m[a + i] = x[i]
        /\ \A i \in 1..(Len(t) - a) : m[a + Len(x) + i] = t[a + i]
    BY <1>1, SpliceLemma
  <1> HIDE DEF m
  <1>3. c \in 0..Len(m) /\ c \in c..Len(m) /\ c \in Nat /\ Len(m) = Len(t) + Len(x)
    BY <1>1, <1>2
  <1>4. /\ xy \in Text /\ Len(xy) = Len(x) + Len(y)
        /\ \A i \in 1..(Len(x) + Len(y)) : xy[i] = IF i <= Len(x) THEN x[i] ELSE y[i - Len(x)]
    BY Joins
  <1> HIDE DEF xy
  <1>5. /\ s \in Text /\ Len(s) = Len(t) - (a - a) + Len(xy)
        /\ \A i \in 1..a : s[i] = t[i]
        /\ \A i \in 1..Len(xy) : s[a + i] = xy[i]
        /\ \A i \in 1..(Len(t) - a) : s[a + Len(xy) + i] = t[a + i]
    BY <1>1, <1>4, SpliceLemma
  <1> HIDE DEF s, c
  <1>6. /\ r \in Text /\ Len(r) = Len(m) - (c - c) + Len(y)
        /\ \A i \in 1..c : r[i] = m[i]
        /\ \A i \in 1..Len(y) : r[c + i] = y[i]
        /\ \A i \in 1..(Len(m) - c) : r[c + Len(y) + i] = m[c + i]
    <2>1. m \in Text /\ c \in 0..Len(m) /\ c \in c..Len(m) /\ y \in Text
      BY <1>2, <1>3
    <2>2. LET q == Splice(m, c, c, y) IN
          /\ q \in Text /\ Len(q) = Len(m) - (c - c) + Len(y)
          /\ \A i \in 1..c : q[i] = m[i]
          /\ \A i \in 1..Len(y) : q[c + i] = y[i]
          /\ \A i \in 1..(Len(m) - c) : q[c + Len(y) + i] = m[c + i]
      BY ONLY <2>1, SpliceLemma
    <2> QED  BY ONLY <2>2 DEF r
  <1> HIDE DEF r
  <1>7. Len(r) = Len(s) /\ Len(s) = Len(t) + Len(x) + Len(y) /\ c = a + Len(x)
    BY <1>1, <1>3, <1>4, <1>5, <1>6 DEF c
  <1>8. ASSUME NEW i \in 1..Len(s)  PROVE  r[i] = s[i]
    <2>1. CASE i <= a
      <3>1. i \in 1..a /\ i \in 1..c
        BY <1>1, <1>3, <1>7, <2>1
      <3> QED  BY <1>2, <1>5, <1>6, <3>1
    <2>2. CASE a < i /\ i <= c
      <3>1. /\ i - a \in 1..Len(x) /\ i - a \in 1..Len(xy) /\ i - a \in 1..(Len(x) + Len(y))
            /\ a + (i - a) = i /\ i \in 1..c /\ i - a <= Len(x)
        BY <1>1, <1>4, <1>7, <2>2
      <3>2. r[i] = m[i] /\ m[a + (i - a)] = x[i - a] /\ s[a + (i - a)] = xy[i - a]
        BY <1>2, <1>5, <1>6, <3>1
      <3>3. xy[i - a] = x[i - a]
        BY <1>4, <3>1
      <3> QED  BY <3>1, <3>2, <3>3
    <2>3. CASE c < i /\ i <= c + Len(y)
      <3>1. /\ i - c \in 1..Len(y) /\ c + (i - c) = i
            /\ i - a \in 1..Len(xy) /\ i - a \in 1..(Len(x) + Len(y))
            /\ a + (i - a) = i /\ ~(i - a <= Len(x)) /\ (i - a) - Len(x) = i - c
        BY <1>1, <1>3, <1>4, <1>7, <2>3
      <3>2. r[c + (i - c)] = y[i - c] /\ s[a + (i - a)] = xy[i - a]
        BY <1>5, <1>6, <3>1
      <3>3. xy[i - a] = y[(i - a) - Len(x)]
        BY <1>4, <3>1
      <3> QED  BY <3>1, <3>2, <3>3
    <2>4. CASE c + Len(y) < i
      <3> DEFINE j == i - (c + Len(y))
      <3>1. /\ j \in 1..(Len(m) - c) /\ j \in 1..(Len(t) - a)
            /\ c + Len(y) + j = i /\ a + Len(xy) + j = i /\ c + j = a + Len(x) + j
        BY <1>1, <1>3, <1>4, <1>7, <2>4
      <3> HIDE DEF j
      <3>2. r[c + Len(y) + j] = m[c + j] /\ m[a + Len(x) + j] = t[a + j]
            /\ s[a + Len(xy) + j] = t[a + j]
        BY <1>2, <1>5, <1>6, <3>1
      <3> QED  BY <3>1, <3>2
    <2> QED  BY <1>1, <1>3, <1>7, <2>1, <2>2, <2>3, <2>4
  <1>9. r = s
    BY <1>5, <1>6, <1>7, <1>8, SameText
  <1> QED  BY <1>9 DEF r, s, m, c, xy

LEMMA CoalescedLemma ==
  ASSUME NEW l, LineOK(l), NEW new \in Text, WantToCoalesce(l, new)
  PROVE  LET r == Coalesced(l, Edit(l.position, l.position, new)) IN
         /\ LineOK(r) /\ r.group_level = l.group_level /\ r.group_id = l.group_id
         /\ l.applied = Len(l.edits) /\ l.applied >= 1
         /\ r.applied = l.applied /\ Len(r.edits) = Len(l.edits)
         /\ \A k \in 1..Len(l.edits) :
              /\ k # l.applied => r.edits[k] = l.edits[k]
              /\ r.edits[k].before = l.edits[k].before
              /\ r.edits[k].group = l.edits[k].group
         /\ Apply(r.text, InverseEdit(r.edits[r.applied])) =
              Apply(l.text, InverseEdit(l.edits[l.applied]))
  <1> DEFINE p == l.position
             edit == Edit(p, p, new)
             n == Len(l.edits)
             last == l.edits[n]
             joined == last.new \o new
             last2 == [last EXCEPT !.new = joined]
             edits2 == [l.edits EXCEPT ![n] = last2]
             text2 == Apply(l.text, edit)
             r == Coalesced(l, edit)
  <1>1. /\ l \in EditableLines /\ p <= Len(l.text) /\ l.applied = n /\ n >= 1
        /\ last.start = last.end /\ CursorAfter(last) = p
    BY LineTypes DEF LineOK, WantToCoalesce, Last
  <1>2. /\ n \in Nat /\ p \in Nat /\ l.text \in Text /\ Len(l.text) \in Nat /\ Len(new) \in Nat
        /\ last \in Entries /\ l.edits \in Seq(Entries) /\ DOMAIN l.edits = 1..n
        /\ \A k \in 1..n : l.edits[k] \in Entries
    BY <1>1, LineTypes, TextTypes
  <1>3. PICK texts : Recounts(texts, l)
    BY DEF LineOK
  <1> DEFINE t == texts[n - 1]
             a == last.start
  <1>4. texts \in [0..n -> Text] /\ texts[n] = l.text /\ t \in Text /\ Makes(last, t, l.text)
    <2>1. n - 1 \in 0..n /\ n \in 1..n
      BY <1>1, <1>2
    <2> QED  BY <1>1, <1>3, <2>1 DEF Recounts
  <1>5. /\ edit.start = p /\ edit.end = p /\ edit.new = new
    BY EditFields
  <1>6. /\ text2 = Splice(l.text, p, p, new)
    BY ApplyIsSplice
  <1>7. /\ joined \in Text
    BY <1>2, EntryTypes, Joins
  <1> HIDE DEF last, edit, text2, joined, t
  <1>8. /\ a \in Nat /\ a <= Len(t) /\ Len(t) \in Nat /\ last.end = a /\ last.before = a
        /\ last.new \in Text /\ Len(last.new) \in Nat
    BY <1>1, <1>2, <1>4, EntryTypes, TextTypes DEF Makes
  <1>9. p = a + Len(last.new)
    BY <1>1, <1>8 DEF CursorAfter
  <1>10. l.text = Splice(t, a, a, last.new)
    BY <1>2, <1>4, <1>8, MakesLemma
  <1>11. text2 = Splice(t, a, a, joined)
    BY <1>4, <1>6, <1>8, <1>9, <1>10, SpliceTwice DEF joined
  <1>12. /\ last2 \in Entries /\ last2.start = a /\ last2.end = a /\ last2.before = a
         /\ last2.new = joined /\ last2.old = last.old /\ last2.group = last.group
    BY <1>2, <1>7, <1>8 DEF Entries
  <1> HIDE DEF last2
  <1>13. Makes(last2, t, text2)
    <2>1. text2 = Apply(t, last2)
      BY <1>11, <1>12 DEF Apply, Splice
    <2>2. Slice(t, last2) = Slice(t, last)
      BY <1>8, <1>12 DEF Slice
    <2>3. last.old = Slice(t, last)
      BY <1>4 DEF Makes
    <2> QED  BY <1>8, <1>12, <2>1, <2>2, <2>3 DEF Makes
  <1>14. text2 \in Text /\ Len(text2) = Len(l.text) + Len(new)
    BY <1>1, <1>2, <1>6, InsertedText
  <1>15. /\ edits2 \in Seq(Entries) /\ Len(edits2) = n
         /\ \A k \in 1..n : edits2[k] = IF k = n THEN last2 ELSE l.edits[k]
    BY <1>1, <1>2, <1>12, ExceptSeq
  <1> HIDE DEF edits2
  <1>16. r = [l EXCEPT !.text = text2, !.position = p + Len(new), !.edits = edits2]
    BY <1>5 DEF Coalesced, edits2, last2, joined, last, text2
  <1>17. /\ r \in EditableLines /\ r.text = text2 /\ r.position = p + Len(new) /\ r.edits = edits2
         /\ r.applied = n /\ r.group_level = l.group_level /\ r.may_coalesce = l.may_coalesce
         /\ r.group_id = l.group_id
    <2> DEFINE c == p + Len(new)
    <2>1. /\ c \in Nat /\ l \in EditableLines /\ text2 \in Text /\ edits2 \in Seq(Entries)
          /\ r = [l EXCEPT !.text = text2, !.position = c, !.edits = edits2] /\ l.applied = n
      BY <1>1, <1>2, <1>14, <1>15, <1>16
    <2> HIDE DEF c, r, n
    <2>2. /\ r \in EditableLines /\ r.text = text2 /\ r.position = c /\ r.edits = edits2
          /\ r.applied = n /\ r.group_level = l.group_level /\ r.may_coalesce = l.may_coalesce
          /\ r.group_id = l.group_id
      BY <2>1 DEF EditableLines
    <2> QED  BY <2>2 DEF c
  <1> HIDE DEF r
  <1> DEFINE texts2 == [k \in 0..n |-> IF k = n THEN text2 ELSE texts[k]]
  <1>18. Recounts(texts2, r)
    <2>1. texts2 \in [0..Len(r.edits) -> Text] /\ texts2[r.applied] = r.text
      BY <1>2, <1>4, <1>14, <1>15, <1>17
    <2>2. ASSUME NEW k \in 1..Len(r.edits)  PROVE  Makes(r.edits[k], texts2[k - 1], texts2[k])
      <3>1. k \in 1..n /\ k - 1 \in 0..n /\ k - 1 # n /\ k \in 0..n
        BY <1>2, <1>15, <1>17
      <3>2. texts2[k - 1] = texts[k - 1] /\ texts2[k] = IF k = n THEN text2 ELSE texts[k]
        BY <3>1
      <3>3. Makes(l.edits[k], texts[k - 1], texts[k])
        BY <1>3, <3>1 DEF Recounts
      <3>4. r.edits[k] = IF k = n THEN last2 ELSE l.edits[k]
        BY <1>15, <1>17, <3>1
      <3> QED  BY <1>13, <3>2, <3>3, <3>4 DEF t
    <2>3. (r.applied + 1)..Len(r.edits) = {}
      BY <1>2, <1>15, <1>17
    <2> HIDE DEF texts2
    <2> QED  BY <2>1, <2>2, <2>3 DEF Recounts
  <1> HIDE DEF texts2
  <1>19. LineOK(r)
    BY <1>1, <1>2, <1>14, <1>15, <1>17, <1>18 DEF LineOK
  <1>20. \A k \in 1..n : /\ k # n => r.edits[k] = l.edits[k]
                         /\ r.edits[k].before = l.edits[k].before
                         /\ r.edits[k].group = l.edits[k].group
    BY <1>8, <1>12, <1>15, <1>17 DEF last
  <1>21. /\ r.edits[n] = last2 /\ l.edits[n] = last
         /\ Apply(r.text, InverseEdit(last2)) = t /\ Apply(l.text, InverseEdit(last)) = t
    <2>1. n \in 1..n
      BY <1>1, <1>2
    <2>2. r.edits[n] = last2 /\ l.edits[n] = last
      BY <1>15, <1>17, <2>1 DEF last
    <2>3. t \in Text /\ last \in Entries /\ last2 \in Entries
          /\ Makes(last, t, l.text) /\ Makes(last2, t, text2)
      BY <1>2, <1>4, <1>12, <1>13
    <2>4. Apply(l.text, InverseEdit(last)) = t
      BY <2>3, MakesLemma
    <2>5. Apply(text2, InverseEdit(last2)) = t
      BY <2>3, MakesLemma
    <2> QED  BY <1>17, <2>2, <2>4, <2>5
  <1> QED  BY <1>1, <1>15, <1>17, <1>19, <1>20, <1>21 DEF r, edit

(* An edit of the line, made by the reader. *)
LEMMA ReplaceLemma ==
  ASSUME NEW l, LineOK(l), NEW a \in 0..Len(l.text), NEW b \in a..Len(l.text),
         NEW new \in Text, a = b => l.position = a
  PROVE  LET r == Replace(l, a, b, new) IN
         /\ LineOK(r) /\ r.text = Apply(l.text, Edit(a, b, new))
         /\ r.group_level = l.group_level
         /\ a = b /\ new = <<>> => r = l
         /\ ~(a = b /\ new = <<>>) => r = Pushed(l, Edit(a, b, new))
         /\ l.position <= b => r.position <= a + Len(new)
  <1> DEFINE edit == Edit(a, b, new)
             r == Replace(l, a, b, new)
  <1>1. edit.start = a /\ edit.end = b /\ edit.new = new
    BY EditFields
  <1>2. r = IF a = b /\ new = <<>> THEN l ELSE Pushed(l, edit)
    BY <1>1 DEF Replace, PushEdit
  <1>3. CASE ~(a = b /\ new = <<>>)
    BY <1>2, <1>3, PushedLemma
  <1>4. CASE a = b /\ new = <<>>
    <2>1. /\ l.text \in Text /\ Len(l.text) \in Nat /\ Len(new) = 0 /\ a \in Nat /\ l.position = a
      BY <1>4, LineTypes DEF LineOK
    <2>2. a <= Len(l.text)
      BY <2>1
    <2>3. Splice(l.text, a, a, <<>>) = l.text
      <3> DEFINE s == Splice(l.text, a, a, new)
      <3>1. /\ s \in Text
            /\ Len(s) = Len(l.text) + Len(new)
            /\ \A i \in 1..a : s[i] = l.text[i]
            /\ \A i \in 1..(Len(l.text) - a) : s[a + Len(new) + i] = l.text[a + i]
        <4>1. l.text \in Text /\ new \in Text /\ a \in Nat /\ a <= Len(l.text)
          BY <2>1, <2>2
        <4> QED  BY ONLY <4>1, InsertedText DEF s
      <3> HIDE DEF s
      <3>2. Len(s) = Len(l.text)
        BY <2>1, <3>1
      <3>3. ASSUME NEW i \in 1..Len(l.text)  PROVE  s[i] = l.text[i]
        <4>1. CASE i <= a
          BY <2>1, <3>1, <4>1
        <4>2. CASE a < i
          <5>1. i - a \in 1..(Len(l.text) - a) /\ a + (i - a) = i /\ a + Len(new) + (i - a) = i
            BY <2>1, <4>2
          <5> QED  BY <3>1, <5>1
        <4> QED  BY <2>1, <4>1, <4>2
      <3>4. s = l.text
        BY <2>1, <3>1, <3>2, <3>3, SameText
      <3> QED  BY <1>4, <3>4 DEF s
    <2>4. Apply(l.text, edit) = l.text
      BY <1>4, <2>3, ApplyIsSplice
    <2>5. r = l /\ l.position <= a + Len(new)
      BY <1>2, <1>4, <2>1
    <2> QED  BY <1>4, <2>4, <2>5
  <1> QED  BY <1>3, <1>4

(* What is typed at the cursor. *)
LEMMA InsertLemma ==
  ASSUME NEW l, LineOK(l), NEW new \in Text, NEW allow \in BOOLEAN
  PROVE  LineOK(PushEdit(l, Edit(l.position, l.position, new), allow))
  <1> DEFINE p == l.position
             edit == Edit(p, p, new)
             r == PushEdit(l, edit, allow)
  <1>1. edit.start = p /\ edit.end = p /\ edit.new = new
    BY EditFields
  <1>2. p \in 0..Len(l.text) /\ p \in p..Len(l.text)
    BY LineTypes DEF LineOK
  <1>3. \/ r = Coalesced(l, edit) /\ WantToCoalesce(l, new)
        \/ r = l \/ r = Pushed(l, edit)
    BY <1>1 DEF PushEdit
  <1>4. LineOK(Pushed(l, edit))
    BY <1>2, PushedLemma
  <1>5. WantToCoalesce(l, new) => LineOK(Coalesced(l, edit))
    BY CoalescedLemma
  <1> QED  BY <1>3, <1>4, <1>5

(* What undo() brings back: the text before the group of entries, with the  *)
(* cursor where it was then.                                                *)
LEMMA TakenBackLemma ==
  ASSUME NEW l, LineOK(l), l.applied # 0, NEW texts, Recounts(texts, l)
  PROVE  LET r == TakenBack(l)
             first == FirstOfGroup(l.edits, l.applied) IN
         /\ first \in 1..l.applied
         /\ r \in EditableLines /\ Recounts(texts, r)
         /\ r.text = texts[first - 1] /\ r.position = l.edits[first].before
         /\ r.position <= Len(r.text) /\ r.applied = first - 1 /\ Len(r.edits) = Len(l.edits)
         /\ r.group_level = l.group_level /\ r.group_id = l.group_id
         /\ \A k \in 1..Len(l.edits) :
              /\ k # l.applied => r.edits[k] = l.edits[k]
              /\ r.edits[k].before = l.edits[k].before
              /\ r.edits[k].group = l.edits[k].group
              /\ k = l.applied => r.edits[k].undone = l.position
  <1> DEFINE n == l.applied
             first == FirstOfGroup(l.edits, n)
             undone == [l.edits[n] EXCEPT !.undone = l.position]
             edits2 == [l.edits EXCEPT ![n] = undone]
             r == TakenBack(l)
  <1>1. /\ l \in EditableLines /\ n \in Nat /\ n >= 1 /\ n <= Len(l.edits) /\ Len(l.edits) \in Nat
        /\ l.position \in Nat /\ l.position <= Len(l.text) /\ l.text \in Text
        /\ l.edits \in Seq(Entries) /\ \A k \in 1..Len(l.edits) : l.edits[k] \in Entries
    BY LineTypes DEF LineOK
  <1>2. /\ first \in 1..n
        /\ \A j \in first..(n - 1) : SameGroup(l.edits[j], l.edits[j + 1])
    BY <1>1, FirstLemma
  <1>3. /\ texts \in [0..Len(l.edits) -> Text] /\ texts[n] = l.text
        /\ \A k \in 1..Len(l.edits) : Makes(l.edits[k], texts[k - 1], texts[k])
        /\ \A k \in (n + 1)..Len(l.edits) :
             EndsGroup(l.edits, k) => l.edits[k].undone \in 0..Len(texts[k])
    BY DEF Recounts
  <1> HIDE DEF first
  <1>4. ASSUME NEW k \in first..n  PROVE  texts[k - 1] = Apply(texts[k], InverseEdit(l.edits[k]))
    <2>1. k \in 1..Len(l.edits) /\ k - 1 \in 0..Len(l.edits)
      BY <1>1, <1>2
    <2> QED  BY <1>1, <1>3, <2>1, MakesLemma
  <1>5. Revert(l.text, l.edits, first, n) = texts[first - 1]
    <2>1. first \in Nat /\ 1 <= first /\ first <= n + 1
      BY <1>1, <1>2
    <2> DEFINE es == l.edits
    <2>2. n \in Nat /\ \A k \in first..n : texts[k - 1] = Apply(texts[k], InverseEdit(es[k]))
      BY <1>1, <1>4
    <2> HIDE DEF n, es
    <2>3. Revert(texts[n], es, first, n) = texts[first - 1]
      BY <2>1, <2>2, RevertLemma
    <2>4. Revert(texts[n], l.edits, first, n) = texts[first - 1]
      BY <2>3 DEF es
    <2> QED  BY <1>3, <2>4
  <1> DEFINE text2 == texts[first - 1]
             p2 == l.edits[first].before
             m == first - 1
  <1>6. /\ first \in 1..Len(l.edits) /\ m \in Nat /\ m \in 0..Len(l.edits) /\ text2 \in Text
        /\ p2 \in Nat /\ p2 <= Len(text2)
    <2>1. first \in 1..Len(l.edits) /\ m \in Nat /\ m \in 0..Len(l.edits)
      BY <1>1, <1>2
    <2>2. text2 \in Text /\ l.edits[first] \in Entries /\ Makes(l.edits[first], texts[first - 1], texts[first])
      BY <1>1, <1>3, <2>1
    <2> QED  BY <2>1, <2>2, EntryTypes DEF Makes
  <1>7. /\ n \in 1..Len(l.edits) /\ l.edits[n] \in Entries /\ undone \in Entries
        /\ undone.start = l.edits[n].start /\ undone.end = l.edits[n].end
        /\ undone.old = l.edits[n].old /\ undone.new = l.edits[n].new
        /\ undone.before = l.edits[n].before /\ undone.group = l.edits[n].group
        /\ undone.undone = l.position
    <2> DEFINE e == l.edits[n]
               p == l.position
    <2>1. n \in 1..Len(l.edits) /\ e \in Entries /\ p \in Int
      BY <1>1
    <2>2. undone = [e EXCEPT !.undone = p]
      OBVIOUS
    <2> HIDE DEF e, p, undone
    <2>3. /\ undone \in Entries /\ undone.start = e.start /\ undone.end = e.end /\ undone.old = e.old
          /\ undone.new = e.new /\ undone.before = e.before /\ undone.group = e.group
          /\ undone.undone = p
      BY <2>1, <2>2 DEF Entries
    <2> QED  BY <2>1, <2>3 DEF e, p
  <1>8. r = [l EXCEPT !.text = text2, !.position = p2, !.edits = edits2, !.applied = m]
    BY <1>1, <1>5 DEF TakenBack, first
  <1> HIDE DEF undone
  <1>9. /\ edits2 \in Seq(Entries) /\ Len(edits2) = Len(l.edits)
        /\ \A k \in 1..Len(l.edits) : edits2[k] = IF k = n THEN undone ELSE l.edits[k]
    BY <1>1, <1>7, ExceptSeq
  <1> HIDE DEF edits2
  <1>10. /\ r \in EditableLines /\ r.text = text2 /\ r.position = p2 /\ r.edits = edits2
         /\ r.applied = m /\ r.group_level = l.group_level /\ r.group_id = l.group_id
    <2> HIDE DEF text2, p2, m, r
    <2> QED  BY <1>1, <1>6, <1>8, <1>9 DEF EditableLines
  <1> HIDE DEF r
  <1>11. ASSUME NEW k \in 1..Len(l.edits)
         PROVE  /\ k # n => edits2[k] = l.edits[k]
                /\ edits2[k].before = l.edits[k].before
                /\ edits2[k].group = l.edits[k].group
                /\ edits2[k].undone = IF k = n THEN l.position ELSE l.edits[k].undone
                /\ Makes(edits2[k], texts[k - 1], texts[k])
    <2>1. CASE k = n
      <3>1. edits2[k] = undone /\ Makes(l.edits[n], texts[k - 1], texts[k])
        BY <1>3, <1>7, <1>9, <2>1
      <3>2. Slice(texts[k - 1], undone) = Slice(texts[k - 1], l.edits[n])
        BY <1>7 DEF Slice
      <3>3. Apply(texts[k - 1], undone) = Apply(texts[k - 1], l.edits[n])
        BY <1>7 DEF Apply
      <3>4. Makes(undone, texts[k - 1], texts[k])
        BY <1>7, <3>1, <3>2, <3>3 DEF Makes
      <3> QED  BY <1>7, <2>1, <3>1, <3>4
    <2>2. CASE k # n
      BY <1>3, <1>9, <2>2
    <2> QED  BY <2>1, <2>2
  <1>12. ASSUME NEW k \in (m + 1)..Len(l.edits), EndsGroup(edits2, k)
         PROVE  edits2[k].undone \in 0..Len(texts[k])
    <2>1. k \in 1..Len(l.edits) /\ (k < Len(l.edits) => k + 1 \in 1..Len(l.edits))
      BY <1>1, <1>6
    <2>2. EndsGroup(l.edits, k)
      <3>1. edits2[k].group = l.edits[k].group
            /\ (k < Len(l.edits) => edits2[k + 1].group = l.edits[k + 1].group)
        BY <1>11, <2>1
      <3> QED  BY <1>9, <1>12, <3>1 DEF EndsGroup, SameGroup
    <2>3. CASE k = n
      BY <1>1, <1>3, <1>11, <2>1, <2>3, TextTypes
    <2>4. CASE k > n
      <3>1. k \in (n + 1)..Len(l.edits)
        BY <1>1, <2>1, <2>4
      <3> QED  BY <1>3, <1>11, <2>1, <2>2, <2>4, <3>1
    <2>5. CASE k < n
      <3>1. k \in first..(n - 1) /\ k < Len(l.edits)
        BY <1>1, <1>2, <2>1, <2>5
      <3>2. SameGroup(l.edits[k], l.edits[k + 1])
        BY <1>2, <3>1
      <3> QED  BY <2>2, <3>1, <3>2 DEF EndsGroup
    <2> QED  BY <1>1, <2>1, <2>3, <2>4, <2>5
  <1>13. Recounts(texts, r)
    <2>1. texts \in [0..Len(r.edits) -> Text] /\ texts[r.applied] = r.text
      BY <1>3, <1>9, <1>10
    <2> HIDE DEF text2, p2, m
    <2>2. \A k \in 1..Len(r.edits) : Makes(r.edits[k], texts[k - 1], texts[k])
      BY <1>9, <1>10, <1>11
    <2>3. \A k \in (r.applied + 1)..Len(r.edits) :
            EndsGroup(r.edits, k) => r.edits[k].undone \in 0..Len(texts[k])
      BY <1>9, <1>10, <1>12
    <2> QED  BY <2>1, <2>2, <2>3 DEF Recounts
  <1> QED  BY <1>2, <1>6, <1>9, <1>10, <1>11, <1>13 DEF first, r

LEMMA UndoLemma ==
  ASSUME NEW l, LineOK(l)
  PROVE  LET r == Undo(l)
             back == IF l.applied = 0 THEN l ELSE TakenBack(l) IN
         /\ LineOK(r) /\ r.group_level = None
         /\ r.text = back.text /\ r.position = back.position
         /\ r.edits = back.edits /\ r.applied = back.applied /\ r.group_id = back.group_id
  <1> DEFINE back == IF l.applied = 0 THEN l ELSE TakenBack(l)
             ended == EndGroup(back)
             r == Undo(l)
  <1>1. l \in EditableLines /\ l.position <= Len(l.text) /\ l.applied <= Len(l.edits) /\ l.applied \in Nat
    BY LineTypes DEF LineOK
  <1>2. PICK texts : Recounts(texts, l)
    BY DEF LineOK
  <1>3. /\ back \in EditableLines /\ Recounts(texts, back) /\ back.position <= Len(back.text)
        /\ back.applied <= Len(back.edits)
    <2>1. CASE l.applied = 0
      BY <1>1, <1>2, <2>1
    <2>2. CASE l.applied # 0
      <3> DEFINE first == FirstOfGroup(l.edits, l.applied)
                 taken == TakenBack(l)
      <3>1. /\ first \in 1..l.applied
            /\ taken \in EditableLines /\ Recounts(texts, taken)
            /\ taken.position <= Len(taken.text) /\ taken.applied = first - 1
            /\ Len(taken.edits) = Len(l.edits)
        BY <1>2, <2>2, TakenBackLemma
      <3>2. Len(l.edits) \in Nat
        BY <1>1, LineTypes
      <3> HIDE DEF first, taken
      <3>3. taken.applied <= Len(taken.edits)
        BY <1>1, <3>1, <3>2
      <3>4. back = taken
        BY <2>2 DEF taken
      <3> QED  BY <3>1, <3>3, <3>4
    <2> QED  BY <2>1, <2>2
  <1> HIDE DEF back
  <1>4. back.group_level = None \/ back.group_level = 1
    BY <1>3, LineTypes
  <1> DEFINE stopped == [back EXCEPT !.group_level = None, !.try_coalesce = FALSE,
                                     !.may_coalesce = FALSE]
  <1>5. ended = IF back.group_level = None THEN back ELSE stopped
    BY <1>4 DEF EndGroup
  <1>6. /\ stopped \in EditableLines /\ stopped.text = back.text /\ stopped.position = back.position
        /\ stopped.edits = back.edits /\ stopped.applied = back.applied
        /\ stopped.group_level = None /\ stopped.group_id = back.group_id
    BY <1>3 DEF EditableLines
  <1> HIDE DEF stopped, ended
  <1>7. /\ ended \in EditableLines /\ ended.text = back.text /\ ended.position = back.position
        /\ ended.edits = back.edits /\ ended.applied = back.applied
        /\ ended.group_level = None /\ ended.group_id = back.group_id
    BY <1>3, <1>5, <1>6
  <1>8. r = [ended EXCEPT !.may_coalesce = FALSE]
    BY DEF Undo, ended, back
  <1> HIDE DEF r
  <1>9. /\ r \in EditableLines /\ r.text = back.text /\ r.position = back.position
        /\ r.edits = back.edits /\ r.applied = back.applied
        /\ r.group_level = None /\ r.may_coalesce = FALSE /\ r.group_id = back.group_id
    BY <1>7, <1>8 DEF EditableLines
  <1>10. Recounts(texts, r)
    BY <1>3, <1>9 DEF Recounts
  <1>11. LineOK(r)
    BY <1>3, <1>9, <1>10 DEF LineOK
  <1> QED  BY <1>9, <1>11 DEF r, back

LEMMA DoneAgainLemma ==
  ASSUME NEW l, LineOK(l), l.applied # Len(l.edits), NEW texts, Recounts(texts, l)
  PROVE  LET r == DoneAgain(l)
             last == LastOfGroup(l.edits, l.applied + 1) IN
         /\ LineOK(r) /\ Recounts(texts, r)
         /\ last \in (l.applied + 1)..Len(l.edits) /\ EndsGroup(l.edits, last)
         /\ \A j \in (l.applied + 1)..(last - 1) : SameGroup(l.edits[j], l.edits[j + 1])
         /\ r.text = texts[last] /\ r.position = l.edits[last].undone
         /\ r.edits = l.edits /\ r.applied = last
         /\ r.group_level = l.group_level /\ r.group_id = l.group_id
  <1> DEFINE n == l.applied
             len == Len(l.edits)
             first == n + 1
             last == LastOfGroup(l.edits, first)
             said == {i \in first..last : l.edits[i].undone # None}
             latest == CHOOSE i \in said : \A j \in said : j <= i
             r == DoneAgain(l)
  <1>1. /\ l \in EditableLines /\ n \in Nat /\ len \in Nat /\ n < len /\ l.may_coalesce = FALSE
        /\ l.position \in Nat /\ l.text \in Text
        /\ l.edits \in Seq(Entries) /\ \A k \in 1..len : l.edits[k] \in Entries
    BY LineTypes DEF LineOK
  <1>2. Recounts(texts, l)
    OBVIOUS
  <1>3. /\ texts \in [0..len -> Text] /\ texts[n] = l.text
        /\ \A k \in 1..len : Makes(l.edits[k], texts[k - 1], texts[k])
        /\ \A k \in (n + 1)..len : EndsGroup(l.edits, k) => l.edits[k].undone \in 0..Len(texts[k])
    BY <1>2 DEF Recounts
  <1>4. /\ last \in first..len /\ EndsGroup(l.edits, last)
        /\ \A j \in first..(last - 1) : SameGroup(l.edits[j], l.edits[j + 1])
    <2>1. first \in 1..len
      BY <1>1
    <2> HIDE DEF first
    <2> QED  BY <1>1, <2>1, LastLemma
  <1> HIDE DEF last
  <1>5. last \in Nat /\ last \in (n + 1)..len /\ last \in 0..len /\ first \in Nat /\ first <= last
    BY <1>1, <1>4
  <1>6. l.edits[last].undone \in 0..Len(texts[last]) /\ texts[last] \in Text
    BY <1>3, <1>4, <1>5
  <1>7. last \in said /\ \A j \in said : j <= last
    <2>1. Len(texts[last]) \in Nat
      BY <1>6, TextTypes
    <2>2. l.edits[last].undone # None
      BY <1>6, <2>1 DEF None
    <2> QED  BY <1>5, <2>2
  <1>8. latest = last
    <2>1. said \subseteq Int
      BY <1>5
    <2> HIDE DEF said
    <2>2. latest \in said /\ \A j \in said : j <= latest
      BY <1>7
    <2> HIDE DEF latest
    <2>3. last \in said /\ latest <= last /\ last <= latest /\ latest \in Int /\ last \in Int
      BY <1>5, <1>7, <2>1, <2>2
    <2> QED  BY <2>3
  <1>9. Replay(l.text, l.edits, first, last) = texts[last]
    <2>1. \A k \in first..last : texts[k] = Apply(texts[k - 1], l.edits[k])
      <3>1. \A k \in first..last : k \in 1..len
        BY <1>1, <1>5
      <3> QED  BY <1>3, <3>1 DEF Makes
    <2>2. first \in Nat /\ last \in Nat /\ 1 <= first /\ first <= last + 1 /\ n = first - 1
      BY <1>1, <1>5
    <2> DEFINE es == l.edits
    <2>3. Forward(texts, es, first, last)
      BY <2>1 DEF Forward
    <2> HIDE DEF first, es, n
    <2>4. Replay(texts[n], es, first, last) = texts[last]
      BY <2>2, <2>3, ReplayLemma
    <2>5. Replay(texts[n], l.edits, first, last) = texts[last]
      BY <2>4 DEF es
    <2> QED  BY <1>3, <2>2, <2>5
  <1> DEFINE text2 == texts[last]
             p2 == l.edits[last].undone
  <1>10. r = [l EXCEPT !.text = text2, !.position = p2, !.applied = last]
    BY <1>7, <1>8, <1>9 DEF DoneAgain, last
  <1>11. p2 \in Nat /\ p2 <= Len(text2) /\ text2 \in Text
    BY <1>6, TextTypes
  <1> HIDE DEF r, text2, p2
  <1>12. /\ r \in EditableLines /\ r.text = text2 /\ r.position = p2 /\ r.edits = l.edits
         /\ r.applied = last /\ r.may_coalesce = FALSE
         /\ r.group_level = l.group_level /\ r.group_id = l.group_id
    BY <1>1, <1>5, <1>10, <1>11 DEF EditableLines
  <1>13. Recounts(texts, r)
    <2>1. texts \in [0..Len(r.edits) -> Text] /\ texts[r.applied] = r.text
      BY <1>3, <1>12 DEF text2
    <2>2. \A k \in (r.applied + 1)..Len(r.edits) : k \in (n + 1)..len
      BY <1>1, <1>5, <1>12
    <2> QED  BY <1>3, <1>12, <2>1, <2>2 DEF Recounts
  <1>14. LineOK(r)
    BY <1>1, <1>5, <1>11, <1>12, <1>13 DEF LineOK
  <1> QED  BY <1>4, <1>5, <1>12, <1>13, <1>14 DEF r, text2, p2, last

LEMMA RedoLemma ==
  ASSUME NEW l, LineOK(l)
  PROVE  LineOK(Redo(l))
  <1> DEFINE again == IF l.applied = Len(l.edits) THEN l ELSE DoneAgain(l)
  <1>1. LineOK(again)
    <2>1. PICK texts : Recounts(texts, l)
      BY DEF LineOK
    <2> QED  BY <2>1, DoneAgainLemma
  <1> HIDE DEF again
  <1>2. LineOK(EndGroup(again))
    BY <1>1, EndGroupLemma
  <1> QED  BY <1>2 DEF Redo, again

-----------------------------------------------------------------------------
(* What is left of a list (Thinning).                                       *)
LEMMA KeptOfCounts ==
  ASSUME NEW len \in Nat, NEW keep \in SUBSET (1..len)
  PROVE  /\ IsFiniteSet(keep) /\ Cardinality(keep) \in Nat
         /\ \A n \in Nat : KeptOf(n, keep) \in 0..Cardinality(keep)
         /\ KeptOf(0, keep) = 0 /\ KeptOf(len, keep) = Cardinality(keep)
         /\ \A n \in Nat : KeptOf(n + 1, keep) =
              IF n + 1 \in keep THEN KeptOf(n, keep) + 1 ELSE KeptOf(n, keep)
  <1>1. IsFiniteSet(1..len)
    BY FS_Interval
  <1>2. IsFiniteSet(keep) /\ Cardinality(keep) \in Nat
    BY <1>1, FS_Subset, FS_CardinalityType
  <1>3. ASSUME NEW n \in Nat
        PROVE  IsFiniteSet(keep \cap (1..n)) /\ KeptOf(n, keep) \in 0..Cardinality(keep)
    <2>1. keep \cap (1..n) \in SUBSET keep
      OBVIOUS
    <2>2. IsFiniteSet(keep \cap (1..n)) /\ Cardinality(keep \cap (1..n)) <= Cardinality(keep)
      BY <2>1, <1>2, FS_Subset
    <2>3. Cardinality(keep \cap (1..n)) \in Nat
      BY <2>2, FS_CardinalityType
    <2> QED  BY <2>2, <2>3, <1>2 DEF KeptOf
  <1>4. KeptOf(0, keep) = 0
    <2>1. keep \cap (1..0) = {}
      OBVIOUS
    <2> QED  BY <2>1, FS_EmptySet DEF KeptOf
  <1>5. KeptOf(len, keep) = Cardinality(keep)
    <2>1. keep \cap (1..len) = keep
      OBVIOUS
    <2> QED  BY <2>1 DEF KeptOf
  <1>6. ASSUME NEW n \in Nat
        PROVE  KeptOf(n + 1, keep) =
                 IF n + 1 \in keep THEN KeptOf(n, keep) + 1 ELSE KeptOf(n, keep)
    <2>1. CASE n + 1 \in keep
      <3>1. keep \cap (1..(n + 1)) = (keep \cap (1..n)) \cup {n + 1} /\ n + 1 \notin keep \cap (1..n)
        BY <2>1
      <3>2. Cardinality((keep \cap (1..n)) \cup {n + 1}) = Cardinality(keep \cap (1..n)) + 1
        BY <1>3, <3>1, FS_AddElement
      <3> QED  BY <2>1, <3>1, <3>2 DEF KeptOf
    <2>2. CASE n + 1 \notin keep
      <3>1. keep \cap (1..(n + 1)) = keep \cap (1..n)
        BY <2>2
      <3> QED  BY <2>2, <3>1 DEF KeptOf
    <2> QED  BY <2>1, <2>2
  <1> QED  BY <1>2, <1>3, <1>4, <1>5, <1>6

LEMMA KeptOfMonotone ==
  ASSUME NEW len \in Nat, NEW keep \in SUBSET (1..len),
         NEW m \in Nat, NEW n \in Nat, m <= n
  PROVE  KeptOf(m, keep) <= KeptOf(n, keep)
  <1>1. IsFiniteSet(keep \cap (1..n))
    <2>1. IsFiniteSet(1..n)
      BY FS_Interval
    <2>2. keep \cap (1..n) \in SUBSET (1..n)
      OBVIOUS
    <2> QED  BY <2>1, <2>2, FS_Subset
  <1>2. keep \cap (1..m) \in SUBSET (keep \cap (1..n))
    OBVIOUS
  <1> QED  BY <1>1, <1>2, FS_Subset DEF KeptOf

(* The k-th kept index exists, and is one only. *)
LEMMA KthKept ==
  ASSUME NEW len \in Nat, NEW keep \in SUBSET (1..len), NEW k \in 1..Cardinality(keep)
  PROVE  \E i \in keep : KeptOf(i, keep) = k
  <1> DEFINE Enough == {n \in Nat : KeptOf(n, keep) >= k}
  <1>1. Enough \in SUBSET Nat /\ len \in Enough
    BY KeptOfCounts
  <1>2. PICK n \in Enough : \A m \in Enough : n <= m
    <2> HIDE DEF Enough
    <2> QED  BY <1>1, LeastNatural
  <1>3. n \in Nat /\ KeptOf(n, keep) >= k
    BY <1>2
  <1>4. KeptOf(0, keep) = 0 /\ k \in Nat /\ k >= 1
    BY KeptOfCounts
  <1>5. n # 0
    BY <1>3, <1>4
  <1>6. n - 1 \in Nat /\ n - 1 \notin Enough /\ (n - 1) + 1 = n
    BY <1>2, <1>3, <1>5
  <1>7. KeptOf(n - 1, keep) < k
    <2>1. KeptOf(n - 1, keep) \in 0..Cardinality(keep) /\ Cardinality(keep) \in Nat
      BY <1>6, KeptOfCounts
    <2> QED  BY <1>4, <1>6, <2>1
  <1>8. KeptOf((n - 1) + 1, keep) =
          IF (n - 1) + 1 \in keep THEN KeptOf(n - 1, keep) + 1 ELSE KeptOf(n - 1, keep)
    BY <1>6, KeptOfCounts
  <1>9. KeptOf(n - 1, keep) \in Nat /\ KeptOf(n, keep) \in Nat
    BY <1>3, <1>6, KeptOfCounts
  <1>10. n \in keep /\ KeptOf(n, keep) = k
    BY <1>3, <1>4, <1>6, <1>7, <1>8, <1>9
  <1> QED  BY <1>10

LEMMA KeptOnce ==
  ASSUME NEW len \in Nat, NEW keep \in SUBSET (1..len),
         NEW i \in keep, NEW n \in Nat
  PROVE  /\ i <= n <=> KeptOf(i, keep) <= KeptOf(n, keep)
         /\ KeptOf(i, keep) \in 1..Cardinality(keep)
         /\ n \in keep /\ KeptOf(n, keep) = KeptOf(i, keep) => n = i
  <1>1. ASSUME NEW a \in Nat, NEW b \in keep, a < b  PROVE  KeptOf(a, keep) < KeptOf(b, keep)
    <2>1. b \in Nat /\ b - 1 \in Nat /\ a <= b - 1 /\ (b - 1) + 1 = b
      BY <1>1
    <2>2. KeptOf(a, keep) <= KeptOf(b - 1, keep)
      BY <2>1, KeptOfMonotone
    <2>3. KeptOf((b - 1) + 1, keep) =
            IF (b - 1) + 1 \in keep THEN KeptOf(b - 1, keep) + 1 ELSE KeptOf(b - 1, keep)
      BY <2>1, KeptOfCounts
    <2>4. KeptOf(b, keep) = KeptOf(b - 1, keep) + 1
      BY <2>1, <2>3
    <2>5. KeptOf(a, keep) \in 0..Cardinality(keep) /\ KeptOf(b - 1, keep) \in 0..Cardinality(keep)
      BY <2>1, KeptOfCounts
    <2>6. KeptOf(a, keep) \in Nat /\ KeptOf(b - 1, keep) \in Nat
      BY <2>5
    <2> QED  BY <2>2, <2>4, <2>6
  <1>2. i \in Nat /\ i > 0 /\ KeptOf(i, keep) \in 0..Cardinality(keep) /\ KeptOf(n, keep) \in Nat
    <2>1. i \in Nat /\ i > 0
      OBVIOUS
    <2>2. KeptOf(i, keep) \in 0..Cardinality(keep) /\ KeptOf(n, keep) \in 0..Cardinality(keep)
      BY <2>1, KeptOfCounts
    <2> QED  BY <2>1, <2>2
  <1>3. i <= n => KeptOf(i, keep) <= KeptOf(n, keep)
    BY <1>2, KeptOfMonotone
  <1>4. n < i => KeptOf(n, keep) < KeptOf(i, keep)
    BY <1>1
  <1>5. n \in keep /\ i < n => KeptOf(i, keep) < KeptOf(n, keep)
    BY <1>1, <1>2
  <1>6. KeptOf(i, keep) >= 1
    <2>1. KeptOf(0, keep) < KeptOf(i, keep) /\ KeptOf(0, keep) = 0
      BY <1>1, <1>2, KeptOfCounts
    <2> QED  BY <2>1, <1>2
  <1>7. KeptOf(i, keep) \in 1..Cardinality(keep)
    <2>1. Cardinality(keep) \in Nat
      BY KeptOfCounts
    <2> QED  BY <2>1, <1>2, <1>6
  <1> QED  BY <1>2, <1>3, <1>4, <1>5, <1>7

LEMMA KeptLemma ==
  ASSUME NEW S, NEW its \in Seq(S), NEW keep \in SUBSET (1..Len(its))
  PROVE  LET left == Kept(its, keep) IN
         /\ Cardinality(keep) \in Nat
         /\ left \in Seq(S) /\ Len(left) = Cardinality(keep)
         /\ \A k \in 1..Cardinality(keep) :
              \E i \in keep : KeptOf(i, keep) = k /\ left[k] = its[i]
  <1> DEFINE n == Cardinality(keep)
             At(k) == CHOOSE i \in keep : KeptOf(i, keep) = k
             left == Kept(its, keep)
  <1>1. Len(its) \in Nat /\ \A i \in 1..Len(its) : its[i] \in S
    OBVIOUS
  <1>2. n \in Nat
    BY <1>1, KeptOfCounts
  <1>3. ASSUME NEW k \in 1..n  PROVE  At(k) \in keep /\ KeptOf(At(k), keep) = k
    <2>1. \E i \in keep : KeptOf(i, keep) = k
      BY <1>1, KthKept
    <2> QED  BY <2>1
  <1>4. left = [k \in 1..n |-> its[At(k)]]
    BY DEF Kept
  <1> HIDE DEF At, n, left
  <1>5. \A k \in 1..n : its[At(k)] \in S
    BY <1>1, <1>3
  <1>6. left \in Seq(S) /\ Len(left) = n
    BY <1>2, <1>4, <1>5
  <1>7. ASSUME NEW k \in 1..n  PROVE  \E i \in keep : KeptOf(i, keep) = k /\ left[k] = its[i]
    BY <1>3, <1>4
  <1> QED  BY <1>2, <1>6, <1>7 DEF n, left

-----------------------------------------------------------------------------
(* The search through the history (ReaderHistorySearch).                    *)
Searches ==
  [mode : SearchModes \cup {Inactive}, matches : Seq(Text), skips : SUBSET Text,
   match_index : Nat, offset : Nat, current_index : Nat]

(* No match is what is searched for, but the first, and none is empty. *)
Distinct(s) ==
  /\ s.matches[1] \in s.skips
  /\ \A k \in 2..Len(s.matches) : s.matches[k] # s.matches[1] /\ s.matches[k] # <<>>

SearchOK(s) ==
  /\ s \in Searches
  /\ Active(s) => s.match_index < Len(s.matches)
  /\ ~Active(s) => s.match_index = 0
  /\ s.mode = "prefix" => \A k \in 1..Len(s.matches) : Len(s.matches[1]) <= Len(s.matches[k])
  /\ Active(s) => Distinct(s)

(* Whatever the items up to the place of the search have to offer. *)
NothingMissed(s, items) ==
  \A i \in 1..Len(items) :
    i <= s.current_index /\ MatchesSearch(s, items[i]) =>
      \A n \in DOMAIN Offers(s, items[i]) : Offers(s, items[i])[n] \in s.skips

LEMMA SearchTypes ==
  ASSUME NEW s, SearchOK(s)
  PROVE  /\ s \in Searches
         /\ s.matches \in Seq(Text) /\ Len(s.matches) \in Nat
         /\ \A k \in 1..Len(s.matches) : s.matches[k] \in Text
         /\ s.skips \in SUBSET Text /\ s.match_index \in Nat /\ s.current_index \in Nat
         /\ s.offset \in Nat /\ s.mode \in SearchModes \cup {Inactive}
         /\ Active(s) => SearchString(s) \in Text /\ CurrentResult(s) \in Text
  <1>1. /\ s \in Searches
        /\ s.matches \in Seq(Text) /\ Len(s.matches) \in Nat
        /\ \A k \in 1..Len(s.matches) : s.matches[k] \in Text
        /\ s.skips \in SUBSET Text /\ s.match_index \in Nat /\ s.current_index \in Nat
        /\ s.offset \in Nat /\ s.mode \in SearchModes \cup {Inactive}
    BY DEF SearchOK, Searches
  <1>2. Active(s) => 1 \in 1..Len(s.matches) /\ s.match_index + 1 \in 1..Len(s.matches)
    BY <1>1 DEF SearchOK
  <1> QED  BY <1>1, <1>2 DEF SearchString, CurrentResult

(* What a search asks of an item depends on its mode and its text only.     *)
LEMMA SameSearch ==
  ASSUME NEW s, NEW r, s.mode = r.mode, s.matches[1] = r.matches[1], NEW item
  PROVE  MatchesSearch(s, item) = MatchesSearch(r, item) /\ Offers(s, item) = Offers(r, item)
  <1>1. SearchString(s) = SearchString(r)
    BY DEF SearchString
  <1>2. MatchesSearch(s, item) = MatchesSearch(r, item)
    BY <1>1 DEF MatchesSearch
  <1>3. MatchingWords(s, item) = MatchingWords(r, item)
    BY <1>1 DEF MatchingWords
  <1>4. Offers(s, item) = Offers(r, item)
    BY <1>3 DEF Offers
  <1> QED  BY <1>2, <1>4

LEMMA NoSearchOK == SearchOK(NoSearch) /\ ~Active(NoSearch) /\ AtPresent(NoSearch)
  <1>1. <<>> \in Seq(Text) /\ Len(<<>>) = 0
    OBVIOUS
  <1>2. NoSearch \in Searches
    BY <1>1 DEF NoSearch, Searches
  <1>3. NoSearch.mode = Inactive /\ NoSearch.match_index = 0
    BY DEF NoSearch
  <1> QED  BY <1>2, <1>3 DEF SearchOK, Active, AtPresent, Inactive

LEMMA StartSearchOK ==
  ASSUME NEW t \in Text, NEW mode \in SearchModes, NEW offset \in Nat, NEW h
  PROVE  LET s == StartSearch(t, mode, offset, {}) IN
         /\ SearchOK(s) /\ Active(s) /\ AtPresent(s) /\ NothingMissed(s, h)
         /\ s.mode = mode /\ s.matches[1] = t /\ s.offset = offset
  <1> DEFINE s == StartSearch(t, mode, offset, {})
  <1>1. <<t>> \in Seq(Text) /\ Len(<<t>>) = 1 /\ <<t>>[1] = t
    OBVIOUS
  <1>2. /\ s.mode = mode /\ s.matches = <<t>> /\ s.match_index = 0 /\ s.current_index = 0
        /\ s.skips = {t} \cup {} /\ s.offset = offset
    BY DEF StartSearch
  <1>3. s \in Searches
    BY <1>1 DEF StartSearch, Searches
  <1> HIDE DEF s
  <1>4. mode # Inactive
    BY DEF SearchModes, Inactive
  <1>5. Len(t) \in Nat
    BY TextTypes
  <1>6. SearchOK(s)
    <2>1. Distinct(s)
      BY <1>1, <1>2 DEF Distinct
    <2> QED  BY <1>1, <1>2, <1>3, <1>4, <1>5, <2>1 DEF SearchOK, Active
  <1>7. NothingMissed(s, h)
    BY <1>2 DEF NothingMissed
  <1> QED  BY <1>1, <1>2, <1>4, <1>6, <1>7 DEF Active, AtPresent, s

LEMMA WordTypes ==
  ASSUME NEW t \in Text, NEW r \in Words(t)
  PROVE  /\ r.start \in Nat /\ r.end \in Nat /\ r.start < r.end /\ r.end <= Len(t)
         /\ Slice(t, r) \in Text /\ Slice(t, r) # <<>>
  <1>1. Len(t) \in Nat
    BY TextTypes
  <1>2. r.start \in Nat /\ r.end \in Nat /\ r.start < r.end /\ r.end <= Len(t)
    BY <1>1 DEF Words
  <1>3. Slice(t, r) \in Text /\ Len(Slice(t, r)) = r.end - r.start
    BY <1>1, <1>2, SubPart DEF Slice
  <1>4. Len(<<>>) = 0 /\ Len(Slice(t, r)) # 0
    BY <1>2, <1>3
  <1> QED  BY <1>2, <1>3, <1>4

LEMMA OffersTypes ==
  ASSUME NEW s, NEW item \in Text
  PROVE  /\ Offers(s, item) \in Seq(Text)
         /\ \A n \in DOMAIN Offers(s, item) :
              IF s.mode = "token" THEN Offers(s, item)[n] # <<>> ELSE Offers(s, item)[n] = item
  <1>1. CASE s.mode # "token"
    <2>1. <<item>> \in Seq(Text) /\ \A n \in DOMAIN <<item>> : <<item>>[n] = item
      OBVIOUS
    <2> QED  BY <1>1, <2>1 DEF Offers
  <1>2. CASE s.mode = "token"
    <2> DEFINE words == MatchingWords(s, item)
               starts == {r.start + 1 : r \in words}
               count == Cardinality(starts)
               At(n) == CHOOSE r \in words : KeptOf(r.start + 1, starts) = count + 1 - n
    <2>1. words \subseteq Words(item)
      BY DEF MatchingWords
    <2> HIDE DEF words
    <2>2. Len(item) \in Nat
      BY TextTypes
    <2>3. starts \in SUBSET (1..Len(item))
      BY <2>1, <2>2, WordTypes
    <2>4. count \in Nat
      <3> HIDE DEF starts
      <3> QED  BY <2>2, <2>3, KeptOfCounts
    <2>5. ASSUME NEW n \in 1..count  PROVE  At(n) \in words
      <3>1. count + 1 - n \in 1..count
        BY <2>4
      <3>2. \E i \in starts : KeptOf(i, starts) = count + 1 - n
        <4> DEFINE k == count + 1 - n
        <4> HIDE DEF starts, k
        <4>1. k \in 1..Cardinality(starts)
          BY <3>1 DEF k
        <4>2. \E i \in starts : KeptOf(i, starts) = k
          BY <2>2, <2>3, <4>1, KthKept
        <4> QED  BY <4>2 DEF k
      <3>3. \E r \in words : KeptOf(r.start + 1, starts) = count + 1 - n
        BY <3>2
      <3> HIDE DEF starts, count
      <3> QED  BY <3>3
    <2>6. Offers(s, item) = [n \in 1..count |-> Slice(item, At(n))]
      BY <1>2 DEF Offers, words
    <2> HIDE DEF At, count
    <2>7. \A n \in 1..count : Slice(item, At(n)) \in Text /\ Slice(item, At(n)) # <<>>
      BY <2>1, <2>5, WordTypes
    <2>8. Offers(s, item) \in Seq(Text)
      BY <2>4, <2>6, <2>7
    <2>9. \A n \in DOMAIN Offers(s, item) : Offers(s, item)[n] # <<>>
      BY <2>6, <2>7
    <2> QED  BY <1>2, <2>8, <2>9
  <1> QED  BY <1>1, <1>2

LEMMA EmptyText ==
  ASSUME NEW t \in Text, Len(t) = 0
  PROVE  t = <<>>
  BY EmptySeq DEF Text

(* What is new is not empty: only an empty search finds the empty item, and *)
(* skips it.                                                                *)
LEMMA NewIsSomething ==
  ASSUME NEW s, SearchOK(s), Active(s), NEW item \in Text, MatchesSearch(s, item),
         NEW n \in DOMAIN Offers(s, item), Offers(s, item)[n] \notin s.skips
  PROVE  Offers(s, item)[n] # <<>>
  <1>1. CASE s.mode = "token"
    BY <1>1, OffersTypes
  <1>2. CASE s.mode # "token"
    <2>1. Offers(s, item)[n] = item /\ SearchString(s) \in Text /\ s.matches[1] \in s.skips
      BY <1>2, OffersTypes, SearchTypes DEF SearchOK, Distinct
    <2>2. ASSUME item = <<>>  PROVE  SearchString(s) = <<>>
      <3>1. Len(item) = 0 /\ Len(SearchString(s)) \in Nat
        BY <2>1, <2>2, TextTypes
      <3>2. CASE IsPrefix(SearchString(s), item)
        <4>1. Len(SearchString(s)) <= Len(item)
          BY <3>2 DEF IsPrefix
        <4> QED  BY <2>1, <3>1, <4>1, EmptyText
      <3>3. CASE HasText(item, SearchString(s))
        <4>1. PICK i \in 0..(Len(item) - Len(SearchString(s))) : TRUE
          BY <3>3 DEF HasText
        <4>2. Len(SearchString(s)) = 0
          BY <3>1, <4>1
        <4> QED  BY <2>1, <4>2, EmptyText
      <3> QED  BY <3>2, <3>3 DEF MatchesSearch
    <2> QED  BY <2>1, <2>2 DEF SearchString
  <1> QED  BY <1>1, <1>2

(* An item with something new brings new matches, and is not missed.        *)
LEMMA AppendLemma ==
  ASSUME NEW s, SearchOK(s), Active(s), NEW item \in Text, MatchesSearch(s, item),
         \E n \in DOMAIN Offers(s, item) : Offers(s, item)[n] \notin s.skips
  PROVE  LET r == AppendMatches(s, item) IN
         /\ r \in Searches /\ r.mode = s.mode /\ r.match_index = s.match_index
         /\ r.current_index = s.current_index /\ r.offset = s.offset
         /\ Distinct(r)
         /\ r.matches[1] = s.matches[1] /\ Len(r.matches) > Len(s.matches)
         /\ r.mode = "prefix" => \A k \in 1..Len(r.matches) : Len(r.matches[1]) <= Len(r.matches[k])
         /\ s.skips \subseteq r.skips
         /\ \A n \in DOMAIN Offers(s, item) : Offers(s, item)[n] \in r.skips
  <1> DEFINE offers == Offers(s, item)
             keep == FirstOffered(s, offers)
             new == Kept(offers, keep)
             brought == {offers[n] : n \in DOMAIN offers}
             r == AppendMatches(s, item)
  <1>1. /\ s \in Searches /\ s.matches \in Seq(Text) /\ Len(s.matches) \in Nat
        /\ s.skips \in SUBSET Text /\ Len(s.matches) >= 1
        /\ s.match_index \in Nat /\ s.match_index < Len(s.matches)
        /\ \A k \in 1..Len(s.matches) : s.matches[k] \in Text
    BY SearchTypes DEF SearchOK
  <1>2. offers \in Seq(Text) /\ \A n \in DOMAIN offers : offers[n] \notin s.skips => offers[n] # <<>>
    BY OffersTypes, NewIsSomething
  <1>3. s.mode = "prefix" => offers = <<item>>
    BY DEF Offers
  <1> HIDE DEF offers
  <1>4. /\ Len(offers) \in Nat /\ DOMAIN offers = 1..Len(offers)
        /\ \A n \in 1..Len(offers) : offers[n] \in Text
    BY <1>2
  <1>5. keep \in SUBSET (1..Len(offers))
    BY <1>4 DEF FirstOffered
  <1>6. PICK first \in keep : TRUE
    <2> DEFINE fresh == {n \in 1..Len(offers) : offers[n] \notin s.skips}
    <2>1. fresh \in SUBSET Nat /\ \E n : n \in fresh
      BY <1>4 DEF offers
    <2>2. PICK n \in fresh : \A m \in fresh : n <= m
      <3> HIDE DEF fresh
      <3> QED  BY <2>1, LeastNatural
    <2>3. n \in 1..Len(offers) /\ offers[n] \notin s.skips
      BY <2>2
    <2>4. ASSUME NEW m \in 1..(n - 1)  PROVE  offers[m] # offers[n]
      <3>1. m \in 1..Len(offers) /\ m < n
        BY <1>4, <2>3
      <3>2. m \notin fresh
        <4> HIDE DEF fresh
        <4> QED  BY <2>1, <2>2, <3>1
      <3> QED  BY <2>3, <3>1, <3>2
    <2>5. n \in keep
      BY <1>4, <2>3, <2>4 DEF FirstOffered
    <2> QED  BY <2>5
  <1>7. \A i \in keep : offers[i] \notin s.skips /\ offers[i] # <<>>
    BY <1>2 DEF FirstOffered
  <1> HIDE DEF keep
  <1>8. /\ Cardinality(keep) \in Nat /\ new \in Seq(Text) /\ Len(new) = Cardinality(keep)
        /\ \A k \in 1..Cardinality(keep) :
             \E i \in keep : KeptOf(i, keep) = k /\ new[k] = offers[i]
    BY <1>2, <1>5, KeptLemma
  <1>9. Cardinality(keep) >= 1
    <2>1. KeptOf(first, keep) \in 1..Cardinality(keep)
      <3>1. first \in Nat
        BY <1>4, <1>5, <1>6
      <3> QED  BY <1>4, <1>5, <1>6, <3>1, KeptOnce
    <2> QED  BY <1>8, <2>1
  <1> HIDE DEF new
  <1>10. r = [s EXCEPT !.skips = s.skips \cup brought, !.matches = s.matches \o new]
    BY DEF AppendMatches, offers, new, keep
  <1> DEFINE skips2 == s.skips \cup brought
             matches2 == s.matches \o new
  <1>11. brought \subseteq Text /\ skips2 \in SUBSET Text
    BY <1>1, <1>4
  <1>12. /\ matches2 \in Seq(Text) /\ Len(matches2) = Len(s.matches) + Len(new)
         /\ \A k \in 1..(Len(s.matches) + Len(new)) :
              matches2[k] = IF k <= Len(s.matches) THEN s.matches[k] ELSE new[k - Len(s.matches)]
    BY <1>1, <1>8, ConcatProperties
  <1> HIDE DEF brought, skips2, matches2
  <1>13. r = [s EXCEPT !.skips = skips2, !.matches = matches2]
    BY <1>10 DEF skips2, matches2
  <1> HIDE DEF r
  <1>14. /\ r \in Searches /\ r.mode = s.mode /\ r.match_index = s.match_index
         /\ r.current_index = s.current_index /\ r.matches = matches2 /\ r.skips = skips2
         /\ r.offset = s.offset
    BY <1>1, <1>11, <1>12, <1>13 DEF Searches
  <1>15. r.matches[1] = s.matches[1] /\ Len(r.matches) > Len(s.matches)
    <2>1. Len(new) \in Nat /\ Len(new) >= 1
      BY <1>8, <1>9
    <2>2. 1 \in 1..(Len(s.matches) + Len(new)) /\ 1 <= Len(s.matches)
      BY <1>1, <2>1
    <2> QED  BY <1>1, <1>12, <1>14, <2>1, <2>2
  <1>16. ASSUME r.mode = "prefix", NEW k \in 1..Len(r.matches)
         PROVE  Len(r.matches[1]) <= Len(r.matches[k])
    <2>1. CASE k <= Len(s.matches)
      <3>1. k \in 1..Len(s.matches) /\ k \in 1..(Len(s.matches) + Len(new))
        BY <1>1, <1>8, <2>1
      <3>2. r.matches[k] = s.matches[k]
        BY <1>12, <1>14, <2>1, <3>1
      <3>3. Len(s.matches[1]) <= Len(s.matches[k])
        BY <1>14, <1>16, <3>1 DEF SearchOK
      <3> QED  BY <1>15, <3>2, <3>3
    <2>2. CASE k > Len(s.matches)
      <3>1. k - Len(s.matches) \in 1..Cardinality(keep) /\ k \in 1..(Len(s.matches) + Len(new))
        BY <1>1, <1>8, <1>12, <1>14, <2>2
      <3>2. PICK i \in keep : new[k - Len(s.matches)] = offers[i]
        BY <1>8, <3>1
      <3>3. r.matches[k] = offers[i] /\ offers = <<item>>
        BY <1>1, <1>3, <1>12, <1>14, <1>16, <2>2, <3>1, <3>2
      <3>4. r.matches[k] = item
        BY <1>5, <3>2, <3>3
      <3>5. IsPrefix(SearchString(s), item)
        BY <1>14, <1>16 DEF MatchesSearch
      <3> QED  BY <1>15, <3>4, <3>5 DEF IsPrefix, SearchString
    <2> QED  BY <1>1, <1>8, <1>12, <1>14, <2>1, <2>2
  <1>17. s.skips \subseteq r.skips /\ \A n \in DOMAIN offers : offers[n] \in r.skips
    BY <1>14 DEF skips2, brought
  <1>18. Distinct(s)
    BY DEF SearchOK
  <1>19. ASSUME NEW k \in 2..Len(r.matches)
         PROVE  r.matches[k] # r.matches[1] /\ r.matches[k] # <<>>
    <2>1. CASE k <= Len(s.matches)
      <3>1. k \in 2..Len(s.matches) /\ k \in 1..(Len(s.matches) + Len(new))
        BY <1>1, <1>8, <2>1
      <3> QED  BY <1>12, <1>14, <1>15, <1>18, <2>1, <3>1 DEF Distinct
    <2>2. CASE k > Len(s.matches)
      <3>1. k - Len(s.matches) \in 1..Cardinality(keep) /\ k \in 1..(Len(s.matches) + Len(new))
        BY <1>1, <1>8, <1>12, <1>14, <2>2
      <3>2. PICK i \in keep : new[k - Len(s.matches)] = offers[i]
        BY <1>8, <3>1
      <3>3. r.matches[k] = offers[i]
        BY <1>1, <1>12, <1>14, <2>2, <3>1, <3>2
      <3> QED  BY <1>15, <1>18, <1>7, <3>2, <3>3 DEF Distinct
    <2> QED  BY <1>1, <1>8, <1>12, <1>14, <2>1, <2>2
  <1>20. Distinct(r)
    BY <1>15, <1>17, <1>18, <1>19 DEF Distinct
  <1> QED  BY <1>14, <1>15, <1>16, <1>17, <1>20 DEF r, offers

(* A list without one of its elements. *)
LEMMA RemovedAt ==
  ASSUME NEW S, NEW seq \in Seq(S), NEW k \in 1..Len(seq)
  PROVE  LET r == RemoveAt(seq, k) IN
         /\ r \in Seq(S) /\ Len(r) = Len(seq) - 1
         /\ \A i \in 1..Len(r) : r[i] = IF i < k THEN seq[i] ELSE seq[i + 1]
  <1> DEFINE before == SubSeq(seq, 1, k - 1)
             after == SubSeq(seq, k + 1, Len(seq))
             r == RemoveAt(seq, k)
  <1>1. Len(seq) \in Nat /\ \A i \in 1..Len(seq) : seq[i] \in S
    OBVIOUS
  <1>2. /\ before \in Seq(S) /\ Len(before) = k - 1
        /\ \A i \in 1..(k - 1) : before[i] = seq[i]
    <2> DEFINE n == k - 1
    <2>1. n \in Nat /\ n <= Len(seq) /\ \A i \in 1..n : seq[i] \in S
      BY <1>1
    <2> HIDE DEF n
    <2>2. /\ SubSeq(seq, 1, n) \in Seq(S) /\ Len(SubSeq(seq, 1, n)) = n
          /\ \A i \in 1..n : SubSeq(seq, 1, n)[i] = seq[i]
      BY <1>1, <2>1, SubSeqProperties
    <2> QED  BY <2>2 DEF n
  <1>3. /\ after \in Seq(S) /\ Len(after) = Len(seq) - k
        /\ \A i \in 1..(Len(seq) - k) : after[i] = seq[k + i]
    <2> DEFINE m == k + 1
    <2>1. /\ m \in Int /\ m >= 1 /\ \A i \in m..Len(seq) : seq[i] \in S
          /\ (IF m <= Len(seq) THEN Len(seq) - m + 1 ELSE 0) = Len(seq) - k
          /\ Len(seq) - m + 1 = Len(seq) - k
          /\ \A i \in 1..(Len(seq) - k) : m + i - 1 = k + i
      BY <1>1
    <2> HIDE DEF m
    <2>2. /\ SubSeq(seq, m, Len(seq)) \in Seq(S)
          /\ Len(SubSeq(seq, m, Len(seq))) = IF m <= Len(seq) THEN Len(seq) - m + 1 ELSE 0
          /\ \A i \in 1..(Len(seq) - m + 1) : SubSeq(seq, m, Len(seq))[i] = seq[m + i - 1]
      BY <1>1, <2>1, SubSeqProperties
    <2> QED  BY <2>1, <2>2 DEF m
  <1>4. r = before \o after
    BY DEF RemoveAt
  <1> HIDE DEF before, after, r
  <1>5. /\ r \in Seq(S) /\ Len(r) = Len(before) + Len(after)
        /\ \A i \in 1..(Len(before) + Len(after)) :
             r[i] = IF i <= Len(before) THEN before[i] ELSE after[i - Len(before)]
    BY <1>2, <1>3, <1>4, ConcatProperties
  <1>6. Len(r) = Len(seq) - 1
    BY <1>1, <1>2, <1>3, <1>5
  <1>7. ASSUME NEW i \in 1..Len(r)  PROVE  r[i] = IF i < k THEN seq[i] ELSE seq[i + 1]
    <2>1. CASE i < k
      <3>1. i \in 1..(k - 1) /\ i <= Len(before) /\ i \in 1..(Len(before) + Len(after))
        BY <1>1, <1>2, <1>3, <2>1
      <3> QED  BY <1>2, <1>5, <2>1, <3>1
    <2>2. CASE ~(i < k)
      <3>1. /\ i - Len(before) \in 1..(Len(seq) - k) /\ ~(i <= Len(before))
            /\ i \in 1..(Len(before) + Len(after)) /\ k + (i - Len(before)) = i + 1
        BY <1>1, <1>2, <1>3, <1>6, <2>2
      <3>2. r[i] = after[i - Len(before)]
        BY <1>5, <3>1
      <3>3. after[i - Len(before)] = seq[k + (i - Len(before))]
        BY <1>3, <3>1
      <3> QED  BY <2>2, <3>1, <3>2, <3>3
    <2> QED  BY <2>1, <2>2
  <1> QED  BY <1>5, <1>6, <1>7 DEF r

(* Two searches that ask the same of the items. *)
Alike(s, r) == s.mode = r.mode /\ s.offset = r.offset /\ s.matches[1] = r.matches[1]

LEMMA MoveBackwardsLemma ==
  ASSUME NEW s, SearchOK(s), Active(s), NEW items \in Seq(Text)
  PROVE  LET r == MoveBackwards(s, items) IN
         /\ SearchOK(r) /\ Active(r) /\ Alike(r, s)
         /\ NothingMissed(s, items) => NothingMissed(r, items)
  <1> DEFINE r == MoveBackwards(s, items)
             fruitful == Fruitful(s, items)
  <1>1. /\ s \in Searches /\ s.match_index \in Nat /\ Len(s.matches) \in Nat
        /\ s.match_index < Len(s.matches) /\ Len(items) \in Nat
        /\ s.current_index \in Nat /\ \A i \in 1..Len(items) : items[i] \in Text
    BY SearchTypes DEF SearchOK
  <1>2. CASE s.match_index + 1 < Len(s.matches)
    <2> DEFINE m == s.match_index + 1
    <2>1. r = [s EXCEPT !.match_index = m] /\ m \in Nat /\ m < Len(s.matches)
      BY <1>1, <1>2 DEF MoveBackwards
    <2> HIDE DEF m, r
    <2>2. /\ r \in Searches /\ r.mode = s.mode /\ r.matches = s.matches /\ r.skips = s.skips
          /\ r.current_index = s.current_index /\ r.match_index = m /\ r.offset = s.offset
      BY <1>1, <2>1 DEF Searches
    <2>3. SearchOK(r) /\ Active(r) /\ Alike(r, s)
      BY <2>1, <2>2 DEF SearchOK, Active, Alike, Distinct
    <2>4. NothingMissed(s, items) => NothingMissed(r, items)
      <3>1. \A item : MatchesSearch(r, item) = MatchesSearch(s, item) /\ Offers(r, item) = Offers(s, item)
        BY <2>3, SameSearch DEF Alike
      <3> QED  BY <2>2, <3>1 DEF NothingMissed
    <2> QED  BY <2>3, <2>4 DEF r
  <1>3. CASE ~(s.match_index + 1 < Len(s.matches)) /\ fruitful = {}
    <2> DEFINE c == Len(items) + 1
    <2>1. r = [s EXCEPT !.current_index = c] /\ c \in Nat
      BY <1>1, <1>3 DEF MoveBackwards
    <2> HIDE DEF c, r, fruitful
    <2>2. /\ r \in Searches /\ r.mode = s.mode /\ r.matches = s.matches /\ r.skips = s.skips
          /\ r.current_index = c /\ r.match_index = s.match_index /\ r.offset = s.offset
      BY <1>1, <2>1 DEF Searches
    <2>3. SearchOK(r) /\ Active(r) /\ Alike(r, s)
      BY <2>2 DEF SearchOK, Active, Alike, Distinct
    <2>4. ASSUME NothingMissed(s, items), NEW i \in 1..Len(items), MatchesSearch(r, items[i]),
                 NEW n \in DOMAIN Offers(r, items[i])
          PROVE  Offers(r, items[i])[n] \in r.skips
      <3>1. MatchesSearch(r, items[i]) = MatchesSearch(s, items[i])
            /\ Offers(r, items[i]) = Offers(s, items[i])
        BY <2>3, SameSearch DEF Alike
      <3>2. CASE i <= s.current_index
        BY <2>2, <2>4, <3>1, <3>2 DEF NothingMissed
      <3>3. CASE ~(i <= s.current_index)
        <4>1. i \in (s.current_index + 1)..Len(items)
          BY <1>1, <3>3
        <4> QED  BY <1>3, <2>2, <2>4, <3>1, <4>1 DEF fruitful, Fruitful
      <3> QED  BY <3>2, <3>3
    <2>5. NothingMissed(s, items) => NothingMissed(r, items)
      BY <2>4 DEF NothingMissed
    <2> QED  BY <2>3, <2>5 DEF r
  <1>4. CASE ~(s.match_index + 1 < Len(s.matches)) /\ fruitful # {}
    <2> DEFINE i == CHOOSE i \in fruitful : \A j \in fruitful : i <= j
               a == AppendMatches(s, items[i])
               m == s.match_index + 1
    <2>1. i \in fruitful /\ \A j \in fruitful : i <= j
      <3>1. fruitful \in SUBSET Nat
        BY <1>1 DEF Fruitful
      <3> HIDE DEF fruitful
      <3>2. \E k \in fruitful : \A j \in fruitful : k <= j
        BY <1>4, <3>1, LeastNatural
      <3> QED  BY <3>2
    <2>2. r = [a EXCEPT !.current_index = i, !.match_index = a.match_index + 1]
      BY <1>4 DEF MoveBackwards
    <2> HIDE DEF i
    <2>3. /\ i \in (s.current_index + 1)..Len(items) /\ MatchesSearch(s, items[i])
          /\ \E n \in DOMAIN Offers(s, items[i]) : Offers(s, items[i])[n] \notin s.skips
      BY <2>1 DEF Fruitful
    <2>4. i \in 1..Len(items) /\ i \in Nat /\ items[i] \in Text
      BY <1>1, <2>3
    <2>5. /\ a \in Searches /\ a.mode = s.mode /\ a.match_index = s.match_index
          /\ a.current_index = s.current_index /\ a.offset = s.offset /\ Distinct(a)
          /\ a.matches[1] = s.matches[1] /\ Len(a.matches) > Len(s.matches)
          /\ a.mode = "prefix" => \A k \in 1..Len(a.matches) : Len(a.matches[1]) <= Len(a.matches[k])
          /\ s.skips \subseteq a.skips
          /\ \A n \in DOMAIN Offers(s, items[i]) : Offers(s, items[i])[n] \in a.skips
      BY <2>3, <2>4, AppendLemma
    <2> HIDE DEF a, r, fruitful
    <2>6. m \in Nat /\ r = [a EXCEPT !.current_index = i, !.match_index = m]
      BY <1>1, <2>2, <2>5
    <2> HIDE DEF m
    <2>7. /\ r \in Searches /\ r.mode = a.mode /\ r.matches = a.matches /\ r.skips = a.skips
          /\ r.current_index = i /\ r.match_index = m /\ r.offset = a.offset
      BY <2>4, <2>5, <2>6 DEF Searches
    <2>8. Len(r.matches) \in Nat /\ m < Len(r.matches)
      <3>1. Len(r.matches) \in Nat
        BY <2>7 DEF Searches
      <3> QED  BY <1>1, <1>4, <2>5, <2>7, <3>1 DEF m
    <2>9. SearchOK(r) /\ Active(r) /\ Alike(r, s)
      BY <2>5, <2>7, <2>8 DEF SearchOK, Active, Alike, Distinct
    <2>10. ASSUME NothingMissed(s, items), NEW k \in 1..Len(items), k <= i,
                  MatchesSearch(r, items[k]), NEW n \in DOMAIN Offers(r, items[k])
           PROVE  Offers(r, items[k])[n] \in r.skips
      <3>1. MatchesSearch(r, items[k]) = MatchesSearch(s, items[k])
            /\ Offers(r, items[k]) = Offers(s, items[k])
        BY <2>9, SameSearch DEF Alike
      <3>2. CASE k <= s.current_index
        BY <2>5, <2>7, <2>10, <3>1, <3>2 DEF NothingMissed
      <3>3. CASE k = i
        BY <2>5, <2>7, <2>10, <3>1, <3>3
      <3>4. CASE ~(k <= s.current_index) /\ k # i
        <4>1. k \in (s.current_index + 1)..Len(items) /\ ~(i <= k)
          BY <1>1, <2>4, <2>10, <3>4
        <4>2. k \notin fruitful
          BY <2>1, <4>1
        <4>3. Offers(s, items[k])[n] \in s.skips
          BY <2>10, <3>1, <4>1, <4>2 DEF fruitful, Fruitful
        <4> QED  BY <2>5, <2>7, <3>1, <4>3
      <3> QED  BY <3>2, <3>3, <3>4
    <2>11. NothingMissed(s, items) => NothingMissed(r, items)
      BY <2>7, <2>10 DEF NothingMissed
    <2> QED  BY <2>9, <2>11 DEF r
  <1> QED  BY <1>2, <1>3, <1>4

(* Moving among the matches found. *)
LEMMA AtMatchLemma ==
  ASSUME NEW s, SearchOK(s), Active(s), NEW m \in Nat, m < Len(s.matches), NEW items
  PROVE  LET r == [s EXCEPT !.match_index = m] IN
         /\ SearchOK(r) /\ Active(r) /\ Alike(r, s)
         /\ NothingMissed(s, items) => NothingMissed(r, items)
  <1> DEFINE r == [s EXCEPT !.match_index = m]
  <1>1. s \in Searches
    BY SearchTypes
  <1>2. /\ r \in Searches /\ r.mode = s.mode /\ r.matches = s.matches /\ r.skips = s.skips
        /\ r.current_index = s.current_index /\ r.match_index = m /\ r.offset = s.offset
    BY <1>1 DEF Searches
  <1> HIDE DEF r
  <1>3. SearchOK(r) /\ Active(r) /\ Alike(r, s)
    BY <1>2 DEF SearchOK, Active, Alike, Distinct
  <1>4. NothingMissed(s, items) => NothingMissed(r, items)
    <2>1. \A item : MatchesSearch(r, item) = MatchesSearch(s, item) /\ Offers(r, item) = Offers(s, item)
      BY <1>3, SameSearch DEF Alike
    <2> QED  BY <1>2, <2>1 DEF NothingMissed
  <1> QED  BY <1>3, <1>4 DEF r

LEMMA MovesLemma ==
  ASSUME NEW s, SearchOK(s), Active(s), NEW items,
         NEW r \in {MoveForwards(s), GoToOldest(s), GoToPresent(s)}
  PROVE  /\ SearchOK(r) /\ Active(r) /\ Alike(r, s)
         /\ NothingMissed(s, items) => NothingMissed(r, items)
  <1>1. /\ s \in Searches /\ s.match_index \in Nat /\ Len(s.matches) \in Nat
        /\ s.match_index < Len(s.matches) /\ s.matches \in Seq(Text)
    BY SearchTypes DEF SearchOK
  <1>2. PICK m \in Nat : m < Len(s.matches) /\ r = [s EXCEPT !.match_index = m]
    <2>1. CASE r = MoveForwards(s)
      <3> DEFINE m == IF s.match_index > 0 THEN s.match_index - 1 ELSE s.match_index
      <3>1. m \in Nat /\ m < Len(s.matches)
        BY <1>1
      <3>2. r = [s EXCEPT !.match_index = m]
        BY <2>1 DEF MoveForwards
      <3> HIDE DEF m
      <3> QED  BY <3>1, <3>2
    <2>2. CASE r = GoToOldest(s)
      <3> DEFINE m == Len(s.matches) - 1
      <3>1. m \in Nat /\ m < Len(s.matches) /\ s.matches # <<>>
        BY <1>1
      <3>2. r = [s EXCEPT !.match_index = m]
        BY <2>2, <3>1 DEF GoToOldest
      <3> HIDE DEF m
      <3> QED  BY <3>1, <3>2
    <2>3. CASE r = GoToPresent(s)
      <3>1. 0 \in Nat /\ 0 < Len(s.matches)
        BY <1>1
      <3>2. r = [s EXCEPT !.match_index = 0]
        BY <2>3 DEF GoToPresent
      <3> QED  BY <3>1, <3>2
    <2> QED  BY <2>1, <2>2, <2>3
  <1> QED  BY <1>2, AtMatchLemma

(* A match deleted.  Whatever the history is then, nothing of it is missed  *)
(* if it has nothing before the search's place that was not before.         *)
LEMMA HandleDeletionLemma ==
  ASSUME NEW s, SearchOK(s), Active(s), ~AtPresent(s), MayDelete(s),
         NEW items \in Seq(Text), NEW left \in Seq(Text)
  PROVE  LET r == HandleDeletion(s, left) IN
         /\ SearchOK(r) /\ Active(r) /\ Alike(r, s)
         /\ NothingMissed(s, items) /\ ~Surfaces(s.current_index, items, left) =>
              NothingMissed(r, left)
  <1> DEFINE fewer == RemoveAt(s.matches, s.match_index + 1)
             m == s.match_index - 1
             c == s.current_index - 1
             s1 == [s EXCEPT !.matches = fewer, !.match_index = m, !.current_index = c]
             r == HandleDeletion(s, left)
  <1>1. /\ s \in Searches /\ s.match_index \in Nat /\ s.match_index > 0 /\ Len(s.matches) \in Nat
        /\ s.match_index < Len(s.matches) /\ s.matches \in Seq(Text)
        /\ s.current_index \in Nat /\ s.current_index > 0 /\ Len(items) \in Nat
        /\ m \in Nat /\ c \in Nat
        /\ \A i \in 1..Len(s.matches) : s.matches[i] \in Text
        /\ s.mode = "prefix" => \A k \in 1..Len(s.matches) : Len(s.matches[1]) <= Len(s.matches[k])
    BY SearchTypes DEF SearchOK, AtPresent, MayDelete
  <1>2. Len(left) \in Nat /\ DOMAIN left = 1..Len(left) /\ DOMAIN items = 1..Len(items)
    OBVIOUS
  <1>3. /\ fewer \in Seq(Text) /\ Len(fewer) = Len(s.matches) - 1
        /\ \A i \in 1..Len(fewer) :
             fewer[i] = IF i < s.match_index + 1 THEN s.matches[i] ELSE s.matches[i + 1]
    <2> DEFINE k == s.match_index + 1
               matches == s.matches
    <2>1. matches \in Seq(Text) /\ k \in 1..Len(matches)
      <3>1. /\ s.match_index \in Nat /\ Len(s.matches) \in Nat
            /\ s.match_index < Len(s.matches) /\ s.matches \in Seq(Text)
        BY ONLY <1>1
      <3> QED  BY ONLY <3>1 DEF k, matches
    <2> HIDE DEF k, matches
    <2>2. /\ RemoveAt(matches, k) \in Seq(Text) /\ Len(RemoveAt(matches, k)) = Len(matches) - 1
          /\ \A i \in 1..Len(RemoveAt(matches, k)) :
               RemoveAt(matches, k)[i] = IF i < k THEN matches[i] ELSE matches[i + 1]
      BY <2>1, RemovedAt
    <2> QED  BY <2>2 DEF k, matches
  <1>4. r = MoveBackwards(s1, left)
    BY DEF HandleDeletion
  <1> HIDE DEF fewer, m, c
  <1>5. /\ s1 \in Searches /\ s1.mode = s.mode /\ s1.matches = fewer /\ s1.skips = s.skips
        /\ s1.match_index = m /\ s1.current_index = c /\ s1.offset = s.offset
    <2>1. s \in Searches /\ fewer \in Seq(Text) /\ m \in Nat /\ c \in Nat
      BY <1>1, <1>3
    <2> QED  BY ONLY <2>1 DEF s1, Searches
  <1> HIDE DEF s1
  <1>6. s1.matches[1] = s.matches[1] /\ s1.match_index < Len(s1.matches)
    <2>1. 1 \in 1..Len(fewer) /\ 1 < s.match_index + 1 /\ m < Len(fewer)
      <3>1. /\ s.match_index \in Nat /\ s.match_index > 0 /\ Len(s.matches) \in Nat
            /\ s.match_index < Len(s.matches) /\ Len(fewer) = Len(s.matches) - 1
        BY ONLY <1>1, <1>3
      <3> QED  BY ONLY <3>1 DEF m
    <2>2. fewer[1] = s.matches[1]
      BY ONLY <1>3, <2>1
    <2>3. s1.matches = fewer /\ s1.match_index = m
      BY ONLY <1>5
    <2> QED  BY ONLY <2>1, <2>2, <2>3
  <1>7. ASSUME s1.mode = "prefix", NEW k \in 1..Len(s1.matches)
        PROVE  Len(s1.matches[1]) <= Len(s1.matches[k])
    <2>1. k \in 1..Len(s.matches) /\ k + 1 \in 1..Len(s.matches)
      BY <1>1, <1>3, <1>5
    <2>2. s1.matches[k] = s.matches[k] \/ s1.matches[k] = s.matches[k + 1]
      BY <1>3, <1>5
    <2> QED  BY <1>1, <1>5, <1>6, <1>7, <2>1, <2>2
  <1>8. SearchOK(s1) /\ Active(s1) /\ Alike(s1, s)
    <2>1. ASSUME NEW k \in 2..Len(s1.matches)
          PROVE  s1.matches[k] # s1.matches[1] /\ s1.matches[k] # <<>>
      <3>1. k \in 2..Len(s.matches) /\ k + 1 \in 2..Len(s.matches)
        BY <1>1, <1>3, <1>5
      <3>2. s1.matches[k] = s.matches[k] \/ s1.matches[k] = s.matches[k + 1]
        BY <1>3, <1>5
      <3> QED  BY <1>6, <3>1, <3>2 DEF SearchOK, Distinct
    <2>2. Distinct(s1)
      BY <1>5, <1>6, <2>1 DEF SearchOK, Distinct
    <2> QED  BY <1>5, <1>6, <1>7, <2>2 DEF SearchOK, Active, Alike
  <1>9. SearchOK(r) /\ Active(r) /\ Alike(r, s1) /\ (NothingMissed(s1, left) => NothingMissed(r, left))
    BY <1>2, <1>4, <1>8, MoveBackwardsLemma
  <1>10. ASSUME NothingMissed(s, items), ~Surfaces(s.current_index, items, left),
                NEW k \in 1..Len(left), k <= s1.current_index, MatchesSearch(s1, left[k]),
                NEW n \in DOMAIN Offers(s1, left[k])
         PROVE  Offers(s1, left[k])[n] \in s1.skips
    <2>1. k < s.current_index
      BY <1>1, <1>2, <1>5, <1>10 DEF c
    <2>2. PICK i \in 1..Len(items) : i <= s.current_index /\ items[i] = left[k]
      BY <1>2, <1>10, <2>1 DEF Surfaces
    <2>3. MatchesSearch(s1, left[k]) = MatchesSearch(s, left[k])
          /\ Offers(s1, left[k]) = Offers(s, left[k])
      BY <1>8, SameSearch DEF Alike
    <2>4. Offers(s, items[i])[n] \in s.skips
      BY <1>10, <2>2, <2>3 DEF NothingMissed
    <2> QED  BY <1>5, <2>2, <2>3, <2>4
  <1>11. NothingMissed(s, items) /\ ~Surfaces(s.current_index, items, left) => NothingMissed(s1, left)
    BY <1>10 DEF NothingMissed
  <1>12. Alike(r, s)
    BY <1>8, <1>9 DEF Alike
  <1> QED  BY <1>2, <1>9, <1>11, <1>12 DEF r

-----------------------------------------------------------------------------
(* The editor: the line and the search are consistent, and the search has   *)
(* missed nothing of the history as it is.                                  *)
EditorIInv ==
  /\ LineOK(line)
  /\ SearchOK(search)
  /\ history \in Seq(Text)
  /\ transient \in BOOLEAN /\ panic \in BOOLEAN /\ surfaced \in BOOLEAN
  /\ Active(search) /\ ~surfaced => NothingMissed(search, history)

LEMMA EditorInitInvariant == EditorInit => EditorIInv
  <1> SUFFICES ASSUME EditorInit  PROVE  EditorIInv
    OBVIOUS
  <1>1. line = EmptyLine /\ search = NoSearch /\ history = Recorded
        /\ transient = FALSE /\ panic = FALSE /\ surfaced = FALSE
    BY DEF EditorInit
  <1> QED  BY <1>1, EmptyLineOK, NoSearchOK, EditorAssumption DEF EditorIInv

(* The word at the cursor. *)
LEMMA TokenLemma ==
  ASSUME NEW t \in Text, NEW p \in Nat, p <= Len(t)
  PROVE  LET r == TokenExtent(t, p) IN
         /\ r.start \in Nat /\ r.end \in Nat
         /\ r.start <= p /\ p <= r.end /\ r.end <= Len(t)
         /\ Slice(t, r) \in Text
  <1> DEFINE At(r) == r.start <= p /\ p <= r.end
             r == TokenExtent(t, p)
  <1>1. Len(t) \in Nat
    BY TextTypes
  <1>2. CASE \E w \in Words(t) : At(w)
    <2>1. r = CHOOSE w \in Words(t) : At(w)
      BY <1>2 DEF TokenExtent
    <2>2. r \in Words(t) /\ At(r)
      <3> HIDE DEF At
      <3> QED  BY <1>2, <2>1
    <2> QED  BY <2>2, WordTypes
  <1>3. CASE ~ \E w \in Words(t) : At(w)
    <2>1. r.start = p /\ r.end = p
      BY <1>3 DEF TokenExtent
    <2> HIDE DEF r
    <2> QED  BY <1>1, <2>1, SubPart DEF Slice, r
  <1> QED  BY <1>2, <1>3

LEMMA WholeReplaced ==
  ASSUME NEW l, LineOK(l), NEW new \in Text
  PROVE  LET r == Replace(l, 0, Len(l.text), new) IN
         LineOK(r) /\ r.text \in Text /\ Len(r.text) = Len(new) /\ r.group_level = l.group_level
  <1> DEFINE r == Replace(l, 0, Len(l.text), new)
             t == l.text
             n == Len(t)
  <1>1. t \in Text /\ n \in Nat /\ l.position \in Nat /\ l.position <= n /\ Len(new) \in Nat
    BY LineTypes, TextTypes DEF LineOK
  <1>2. 0 \in 0..n /\ n \in 0..n /\ (0 = n => l.position = 0)
    BY <1>1
  <1>3. /\ LineOK(r) /\ r.text = Apply(t, Edit(0, n, new))
        /\ r.group_level = l.group_level
    BY <1>2, ReplaceLemma
  <1>4. r.text = Splice(t, 0, n, new)
    BY <1>3, ApplyIsSplice
  <1> HIDE DEF r, t
  <1>5. /\ Splice(t, 0, n, new) \in Text
        /\ Len(Splice(t, 0, n, new)) = Len(t) - (n - 0) + Len(new)
        /\ \A i \in 1..0 : Splice(t, 0, n, new)[i] = t[i]
        /\ \A i \in 1..Len(new) : Splice(t, 0, n, new)[0 + i] = new[i]
        /\ \A i \in 1..(Len(t) - n) : Splice(t, 0, n, new)[0 + Len(new) + i] = t[n + i]
    BY <1>1, <1>2, SpliceLemma
  <1> QED  BY <1>1, <1>3, <1>4, <1>5 DEF r, t

(* A match is put where it belongs. *)
LEMMA PlacedLemma ==
  ASSUME NEW l, LineOK(l), NEW s, SearchOK(s), Active(s)
  PROVE  LineOK(Placed(l, s))
  <1>1. /\ l.text \in Text /\ l.position \in Nat /\ l.position <= Len(l.text) /\ Len(l.text) \in Nat
    BY LineTypes DEF LineOK
  <1>2. CurrentResult(s) \in Text /\ SearchString(s) \in Text
    BY SearchTypes
  <1>3. CASE s.mode = "token"
    <2> DEFINE r == TokenExtent(l.text, l.position)
               a == r.start
               b == r.end
    <2>1. a \in Nat /\ b \in Nat /\ a <= l.position /\ l.position <= b /\ b <= Len(l.text)
      BY <1>1, TokenLemma
    <2>2. Placed(l, s) = Replace(l, a, b, CurrentResult(s))
      BY <1>3 DEF Placed
    <2> HIDE DEF a, b
    <2>3. a \in 0..Len(l.text) /\ b \in a..Len(l.text) /\ (a = b => l.position = a)
      BY <1>1, <2>1
    <2>4. LineOK(Replace(l, a, b, CurrentResult(s)))
      BY <1>2, <2>3, ReplaceLemma
    <2> QED  BY <2>2, <2>4
  <1>4. CASE s.mode # "token"
    <2> DEFINE whole_line == Replace(l, 0, Len(l.text), CurrentResult(s))
               n == Len(SearchString(s))
    <2>1. LineOK(whole_line) /\ Len(whole_line.text) = Len(CurrentResult(s))
      BY <1>2, WholeReplaced
    <2>2. Placed(l, s) = IF s.mode = "prefix" /\ SearchString(s) # <<>>
                         THEN SetPosition(whole_line, n) ELSE whole_line
      BY <1>4 DEF Placed
    <2> HIDE DEF whole_line
    <2>3. ASSUME s.mode = "prefix"  PROVE  n \in 0..Len(whole_line.text)
      <3>1. s.match_index + 1 \in 1..Len(s.matches)
        BY SearchTypes DEF SearchOK
      <3>2. Len(s.matches[1]) <= Len(s.matches[s.match_index + 1])
        BY <2>3, <3>1 DEF SearchOK
      <3>3. n \in Nat /\ Len(CurrentResult(s)) \in Nat
        BY <1>2, TextTypes
      <3> QED  BY <2>1, <3>2, <3>3 DEF SearchString, CurrentResult
    <2>4. s.mode = "prefix" => LineOK(SetPosition(whole_line, n))
      <3> HIDE DEF n
      <3> QED  BY <2>1, <2>3, SetPositionLemma
    <2> QED  BY <2>1, <2>2, <2>4
  <1> QED  BY <1>3, <1>4

LEMMA ShowMatchLemma ==
  ASSUME LineOK(line), NEW s, SearchOK(s), Active(s), ShowMatch(s)
  PROVE  LineOK(line') /\ transient' \in BOOLEAN
  <1> DEFINE l == IF transient THEN Undo(line) ELSE line
  <1>1. line' = (IF AtPresent(s) THEN l ELSE Placed(l, s)) /\ transient' = ~AtPresent(s)
    BY DEF ShowMatch
  <1>2. LineOK(l)
    BY UndoLemma
  <1> HIDE DEF l
  <1>3. LineOK(Placed(l, s))
    BY <1>2, PlacedLemma
  <1>4. LineOK(line')
    BY <1>1, <1>2, <1>3
  <1>5. transient' \in BOOLEAN
    BY <1>1 DEF AtPresent
  <1> QED  BY <1>4, <1>5

LEMMA EditingStep ==
  ASSUME EditorIInv, NEW l, LineOK(l), Editing(l)
  PROVE  EditorIInv'
  <1>1. line' = l /\ search' = NoSearch /\ transient' = FALSE /\ surfaced' = FALSE
        /\ history' = history /\ panic' = panic
    BY DEF Editing, SearchEnds
  <1>2. LineOK(line') /\ SearchOK(search') /\ ~Active(search')
    BY <1>1, NoSearchOK
  <1> QED  BY <1>1, <1>2 DEF EditorIInv

LEMMA CommandStep ==
  ASSUME EditorIInv,
         \/ CursorCommand \/ BackwardDeleteChar
         \/ UndoCommand \/ RedoCommand \/ BeginUndoGroup \/ EndUndoGroup \/ Cancel
         \/ \E c \in Keys : InsertChar(c)
         \/ \E text0 \in Scripted : ScriptSets(text0)
  PROVE  EditorIInv'
  <1>1. /\ LineOK(line) /\ line.text \in Text /\ line.position \in Nat
        /\ Len(line.text) \in Nat /\ line.position <= Len(line.text)
    BY LineTypes DEF EditorIInv, LineOK
  <1>2. CASE CursorCommand
    <2>1. PICK p \in 0..Len(line.text) : Editing(SetPosition(line, p))
      BY <1>2 DEF CursorCommand
    <2>2. LineOK(SetPosition(line, p))
      BY <1>1, SetPositionLemma
    <2> QED  BY <2>1, <2>2, EditingStep
  <1>3. CASE BackwardDeleteChar
    <2> DEFINE a == line.position - 1
               b == line.position
               l == Replace(line, a, b, <<>>)
    <2>1. a \in 0..Len(line.text) /\ b \in a..Len(line.text) /\ a # b /\ <<>> \in Text
      BY <1>1, <1>3 DEF BackwardDeleteChar, Text
    <2>2. Editing(l)
      BY <1>3 DEF BackwardDeleteChar
    <2> HIDE DEF a, b
    <2>3. LineOK(l)
      BY <1>1, <2>1, ReplaceLemma
    <2> HIDE DEF l
    <2> QED  BY <2>2, <2>3, EditingStep
  <1>4. CASE UndoCommand
    <2>1. LineOK(Undo(line))
      BY <1>1, UndoLemma
    <2> QED  BY <1>4, <2>1, EditingStep DEF UndoCommand
  <1>5. CASE RedoCommand
    <2>1. LineOK(Redo(line))
      BY <1>1, RedoLemma
    <2> QED  BY <1>5, <2>1, EditingStep DEF RedoCommand
  <1>6. CASE BeginUndoGroup
    <2>1. LineOK(BeginGroup(line))
      BY <1>1, BeginGroupLemma
    <2> QED  BY <1>6, <2>1, EditingStep DEF BeginUndoGroup
  <1>7. CASE EndUndoGroup
    <2>1. LineOK(EndGroup(line))
      BY <1>1, EndGroupLemma
    <2> QED  BY <1>7, <2>1, EditingStep DEF EndUndoGroup
  <1>8. CASE Cancel
    <2>1. LineOK(ClearTransient(line))
      BY <1>1, UndoLemma DEF ClearTransient
    <2> QED  BY <1>8, <2>1, EditingStep DEF Cancel
  <1>9. ASSUME NEW c \in Keys, InsertChar(c)  PROVE  EditorIInv'
    <2>1. <<c>> \in Text /\ (~Active(search)) \in BOOLEAN
      BY EditorAssumption DEF Text, Active
    <2>2. LineOK(Insert(<<c>>))
      BY <1>1, <2>1, InsertLemma DEF Insert
    <2> QED  BY <1>9, <2>2, EditingStep DEF InsertChar
  <1>10. ASSUME NEW text0 \in Scripted, ScriptSets(text0)  PROVE  EditorIInv'
    <2> DEFINE whole_line == Replace(line, 0, Len(line.text), text0)
    <2>1. text0 \in Text
      BY EditorAssumption
    <2>2. PICK p \in 0..Len(text0) : Editing(SetPosition(whole_line, p))
      BY <1>10 DEF ScriptSets
    <2>3. LineOK(whole_line) /\ Len(whole_line.text) = Len(text0)
      BY <1>1, <2>1, WholeReplaced
    <2> HIDE DEF whole_line
    <2>4. LineOK(SetPosition(whole_line, p))
      BY <2>3, SetPositionLemma
    <2> QED  BY <2>2, <2>4, EditingStep
  <1> QED  BY <1>2, <1>3, <1>4, <1>5, <1>6, <1>7, <1>8, <1>9, <1>10

LEMMA OtherInputStep ==
  ASSUME EditorIInv, ClickAt \/ \E new \in Pastes : InsertBurst(new)
  PROVE  EditorIInv'
  <1>1. LineOK(line)
    BY DEF EditorIInv
  <1>2. LineOK(line') /\ transient' \in BOOLEAN /\ UNCHANGED <<search, history, panic, surfaced>>
    <2>1. CASE ClickAt
      <3>1. PICK p \in 0..Len(line.text) : line' = SetPosition(line, p)
        BY <2>1 DEF ClickAt
      <3>2. LineOK(SetPosition(line, p))
        BY <1>1, SetPositionLemma
      <3> QED  BY <2>1, <3>1, <3>2 DEF ClickAt, EditorIInv
    <2>2. ASSUME NEW new \in Pastes, InsertBurst(new)
          PROVE  LineOK(line') /\ transient' \in BOOLEAN /\ UNCHANGED <<search, history, panic, surfaced>>
      <3>1. new \in Text /\ (~Active(search)) \in BOOLEAN
        BY EditorAssumption DEF Active
      <3>2. LineOK(Insert(new))
        BY <1>1, <3>1, InsertLemma DEF Insert
      <3> QED  BY <2>2, <3>2 DEF InsertBurst
    <2> QED  BY <2>1, <2>2
  <1> QED  BY <1>2 DEF EditorIInv

-----------------------------------------------------------------------------
(* The commands of the search.                                               *)

LEMMA StartedLemma ==
  ASSUME EditorIInv, NEW mode \in SearchModes
  PROVE  LET s == Started(mode) IN
         /\ SearchOK(s) /\ Active(s)
         /\ Starts(mode) \/ ~surfaced => NothingMissed(s, history)
  <1>1. /\ LineOK(line) /\ line.text \in Text /\ line.position \in Nat
        /\ line.position <= Len(line.text)
    BY LineTypes DEF EditorIInv, LineOK
  <1>2. CASE ~Starts(mode)
    <2>1. Active(search)
      <3>1. mode # Inactive
        BY DEF SearchModes, Inactive
      <3> QED  BY <1>2, <3>1 DEF EditorIInv, SearchOK, Starts, AtPresent, Active
    <2> QED  BY <1>2, <2>1 DEF Started, EditorIInv
  <1>3. CASE Starts(mode)
    <2> DEFINE r == TokenExtent(line.text, line.position)
    <2>1. r.start \in Nat /\ Slice(line.text, r) \in Text
      BY <1>1, TokenLemma
    <2> HIDE DEF r
    <2>2. \/ Started(mode) = StartSearch(Slice(line.text, r), mode, r.start, {})
          \/ Started(mode) = StartSearch(line.text, mode, 0, {})
      BY <1>3 DEF Started, r
    <2>3. PICK t \in Text, offset \in Nat : Started(mode) = StartSearch(t, mode, offset, {})
      BY <1>1, <2>1, <2>2
    <2> DEFINE s == StartSearch(t, mode, offset, {})
    <2>4. SearchOK(s) /\ Active(s) /\ NothingMissed(s, history)
      BY StartSearchOK
    <2> HIDE DEF s
    <2> QED  BY <2>3, <2>4 DEF s
  <1> QED  BY <1>2, <1>3

LEMMA MoveToStep ==
  ASSUME EditorIInv, NEW mode \in SearchModes, NEW s, SearchOK(s), Active(s),
         Starts(mode) \/ ~surfaced => NothingMissed(s, history),
         MoveTo(mode, Started(mode), s), UNCHANGED <<history, panic>>
  PROVE  EditorIInv'
  <1> DEFINE start == Started(mode)
  <1>1. CASE s.match_index = start.match_index /\ ~Active(search)
    <2>1. UNCHANGED <<line, search, transient, surfaced>>
      BY <1>1 DEF MoveTo, ghosts
    <2> QED  BY <2>1 DEF EditorIInv
  <1>2. CASE ~(s.match_index = start.match_index /\ ~Active(search))
    <2>1. /\ IF s.match_index = start.match_index THEN UNCHANGED <<line, transient>> ELSE ShowMatch(s)
          /\ search' = s /\ surfaced' = (surfaced /\ ~Starts(mode))
      BY <1>2 DEF MoveTo
    <2>2. LineOK(line) /\ transient \in BOOLEAN /\ surfaced \in BOOLEAN
          /\ history \in Seq(Text) /\ panic \in BOOLEAN
      BY DEF EditorIInv
    <2>3. LineOK(line') /\ transient' \in BOOLEAN
      <3>1. CASE s.match_index = start.match_index
        BY <2>1, <2>2, <3>1
      <3>2. CASE s.match_index # start.match_index
        <4>1. ShowMatch(s)
          BY <2>1, <3>2
        <4> QED  BY <2>2, <4>1, ShowMatchLemma
      <3> QED  BY <3>1, <3>2
    <2>4. SearchOK(search') /\ (~surfaced' => NothingMissed(search', history'))
      BY <2>1, <2>2
    <2>5. surfaced' \in BOOLEAN
      BY <2>1
    <2> QED  BY <2>2, <2>3, <2>4, <2>5 DEF EditorIInv
  <1> QED  BY <1>1, <1>2

LEMMA SearchStep ==
  ASSUME EditorIInv, NEW mode \in SearchModes,
         HistorySearchBackward(mode) \/ HistorySearchForward(mode)
  PROVE  EditorIInv'
  <1> DEFINE start == Started(mode)
  <1>1. /\ SearchOK(start) /\ Active(start)
        /\ Starts(mode) \/ ~surfaced => NothingMissed(start, history)
    BY StartedLemma
  <1> HIDE DEF start
  <1>2. history \in Seq(Text)
    BY DEF EditorIInv
  <1>3. CASE HistorySearchBackward(mode)
    <2> DEFINE s == MoveBackwards(start, history)
    <2>1. MoveTo(mode, start, s) /\ UNCHANGED <<history, panic>>
      BY <1>3 DEF HistorySearchBackward, Searching, start
    <2>2. /\ SearchOK(s) /\ Active(s)
          /\ NothingMissed(start, history) => NothingMissed(s, history)
      BY <1>1, <1>2, MoveBackwardsLemma
    <2> HIDE DEF s
    <2> QED  BY <1>1, <2>1, <2>2, MoveToStep DEF start
  <1>4. CASE HistorySearchForward(mode)
    <2> DEFINE s == MoveForwards(start)
    <2>1. MoveTo(mode, start, s) /\ UNCHANGED <<history, panic>>
      BY <1>4 DEF HistorySearchForward, Searching, start
    <2>2. /\ SearchOK(s) /\ Active(s)
          /\ NothingMissed(start, history) => NothingMissed(s, history)
      BY <1>1, MovesLemma
    <2> HIDE DEF s
    <2> QED  BY <1>1, <2>1, <2>2, MoveToStep DEF start
  <1> QED  BY <1>3, <1>4

LEMMA EndsStep ==
  ASSUME EditorIInv, BeginningOfHistory \/ EndOfHistory
  PROVE  EditorIInv'
  <1>1. /\ Active(search) /\ search' \in {MoveForwards(search), GoToOldest(search), GoToPresent(search)}
        /\ ShowMatch(search') /\ UNCHANGED <<history, panic, surfaced>>
    BY DEF BeginningOfHistory, EndOfHistory, Searching, ghosts
  <1>2. LineOK(line) /\ SearchOK(search)
    BY DEF EditorIInv
  <1>3. /\ SearchOK(search') /\ Active(search')
        /\ NothingMissed(search, history) => NothingMissed(search', history)
    BY <1>1, <1>2, MovesLemma
  <1>4. LineOK(line') /\ transient' \in BOOLEAN
    BY <1>1, <1>2, <1>3, ShowMatchLemma
  <1> QED  BY <1>1, <1>3, <1>4 DEF EditorIInv

(* The history rewritten is one of texts. *)
LEMMA RewrittenLemma ==
  ASSUME NEW gone, history \in Seq(Text), NEW items \in Rewritten(gone)
  PROVE  items \in Seq(Text)
  <1> DEFINE left == {i \in DOMAIN history : history[i] \notin gone}
             latest == {i \in left : \A j \in left : j < i => history[j] # history[i]}
             size == Cardinality(latest)
  <1>1. PICK order \in [1..size -> latest] : items = [n \in DOMAIN order |-> history[order[n]]]
    BY DEF Rewritten
  <1>2. latest \in SUBSET (1..Len(history)) /\ Len(history) \in Nat
    OBVIOUS
  <1>3. size \in Nat
    <2> HIDE DEF latest
    <2>1. IsFiniteSet(1..Len(history))
      BY <1>2, FS_Interval
    <2>2. IsFiniteSet(latest)
      BY <1>2, <2>1, FS_Subset
    <2> QED  BY <2>2, FS_CardinalityType
  <1> HIDE DEF size, latest
  <1>4. items \in [1..size -> Text]
    <2>1. ASSUME NEW n \in 1..size  PROVE  history[order[n]] \in Text
      <3>1. order[n] \in 1..Len(history)
        BY <1>2
      <3> QED  BY <3>1
    <2>2. items = [n \in 1..size |-> history[order[n]]]
      BY <1>1
    <2> QED  BY <2>1, <2>2
  <1> QED  BY <1>3, <1>4

LEMMA RemoveAndSaveLemma ==
  ASSUME history \in Seq(Text), NEW t, RemoveAndSave(t)
  PROVE  history' \in Seq(Text)
  <1>1. history' = history \/ \E gone \in {deleted_items \cup {t} \cup others : others \in SUBSET Elsewhere} :
                              history' \in Rewritten(gone)
    BY DEF RemoveAndSave
  <1> QED  BY <1>1, RewrittenLemma

LEMMA DeleteStep ==
  ASSUME EditorIInv, DeleteFromHistory \/ DeletePanics
  PROVE  EditorIInv'
  <1>1. /\ LineOK(line) /\ SearchOK(search) /\ history \in Seq(Text)
        /\ ~AtPresent(search) /\ Active(search)
    BY DEF EditorIInv, SearchOK, AtPresent, DeleteFromHistory, DeletePanics
  <1>2. RemoveAndSave(CurrentResult(search))
    BY DEF DeleteFromHistory, DeletePanics
  <1>3. history' \in Seq(Text)
    BY <1>1, <1>2, RemoveAndSaveLemma
  <1>4. CASE DeleteFromHistory
    <2>1. /\ MayDelete(search) /\ search' = HandleDeletion(search, history')
          /\ ShowMatch(search')
          /\ surfaced' = (surfaced \/ Surfaces(search.current_index, history, history'))
          /\ panic' = panic
      BY <1>4 DEF DeleteFromHistory, Searching
    <2>2. /\ history' \in Seq(Text) /\ SearchOK(search') /\ Active(search')
          /\ NothingMissed(search, history) /\ ~Surfaces(search.current_index, history, history') =>
               NothingMissed(search', history')
      BY <1>1, <1>3, <2>1, HandleDeletionLemma
    <2>3. LineOK(line') /\ transient' \in BOOLEAN
      BY <1>1, <2>1, <2>2, ShowMatchLemma
    <2>4. ASSUME ~surfaced'  PROVE  NothingMissed(search', history')
      <3>1. ~surfaced /\ ~Surfaces(search.current_index, history, history')
        BY <2>1, <2>4, Zenon
      <3> QED  BY <1>1, <2>2, <3>1 DEF EditorIInv
    <2>5. surfaced' \in BOOLEAN /\ panic' \in BOOLEAN
      BY <2>1 DEF EditorIInv
    <2> QED  BY <2>2, <2>3, <2>4, <2>5 DEF EditorIInv
  <1>5. CASE DeletePanics
    <2>1. panic' = TRUE /\ UNCHANGED <<line, search, transient, surfaced>> /\ search.current_index = 0
      BY <1>5 DEF DeletePanics, MayDelete, ghosts
    <2>2. history' \in Seq(Text)
      BY <1>3
    <2>3. NothingMissed(search, history')
      BY <2>1 DEF NothingMissed
    <2>4. search' = search /\ surfaced' = surfaced /\ line' = line /\ transient' = transient
      BY <2>1
    <2>5. NothingMissed(search', history')
      BY <2>3, <2>4
    <2> QED  BY <2>1, <2>2, <2>4, <2>5 DEF EditorIInv
  <1> QED  BY <1>4, <1>5

LEMMA EditorNextStep == EditorIInv /\ [EditorNext]_editorVars => EditorIInv'
  <1> SUFFICES ASSUME EditorIInv, [EditorNext]_editorVars  PROVE  EditorIInv'
    OBVIOUS
  <1>1. CASE UNCHANGED editorVars
    BY <1>1 DEF EditorIInv, editorVars
  <1>2. CASE \/ CursorCommand \/ BackwardDeleteChar
             \/ UndoCommand \/ RedoCommand \/ BeginUndoGroup \/ EndUndoGroup \/ Cancel
             \/ \E c \in Keys : InsertChar(c)
             \/ \E text0 \in Scripted : ScriptSets(text0)
    BY <1>2, CommandStep
  <1>3. CASE ClickAt \/ \E new \in Pastes : InsertBurst(new)
    BY <1>3, OtherInputStep
  <1>4. ASSUME NEW mode \in SearchModes, HistorySearchBackward(mode) \/ HistorySearchForward(mode)
        PROVE  EditorIInv'
    BY <1>4, SearchStep
  <1>5. CASE BeginningOfHistory \/ EndOfHistory
    BY <1>5, EndsStep
  <1>6. CASE DeleteFromHistory \/ DeletePanics
    BY <1>6, DeleteStep
  <1> QED  BY <1>1, <1>2, <1>3, <1>4, <1>5, <1>6 DEF EditorNext

LEMMA EditorConsequence == EditorIInv => SearchConsistent
  <1> SUFFICES ASSUME EditorIInv  PROVE  SearchConsistent
    OBVIOUS
  <1>1. LineOK(line) /\ SearchOK(search)
    BY DEF EditorIInv
  <1>2. /\ line.position \in 0..Len(line.text) /\ line.applied \in 0..Len(line.edits)
        /\ line.group_level \in {None, 1}
    BY <1>1, LineTypes DEF LineOK
  <1>3. Active(search) => search.match_index + 1 \in DOMAIN search.matches
    BY <1>1, SearchTypes DEF SearchOK
  <1>4. EditorTypeOK
    BY <1>2, <1>3 DEF EditorTypeOK, EditorIInv
  <1>5. SearchMissesNothing
    BY DEF EditorIInv, SearchMissesNothing, NothingMissed
  <1> QED  BY <1>4, <1>5 DEF SearchConsistent

LEMMA EditorInvariant == EditorSpec => []EditorIInv
  BY EditorInitInvariant, EditorNextStep, PTL DEF EditorSpec

(* While the user edits, undoes, searches and deletes from the history in   *)
(* any order, the cursor stays in the line, the undo history stays one of   *)
(* that line, a search stays at one of its matches, and it passes over      *)
(* nothing that the history has to offer.                                   *)
THEOREM SearchAlwaysConsistent == EditorSpec => []SearchConsistent
  BY EditorInvariant, EditorConsequence, PTL

-----------------------------------------------------------------------------
(* A search and what was shown when it began.  Undoing the last entry of    *)
(* the line brings `then` back.                                             *)
ComesBack(l, then) ==
  /\ l.applied # 0
  /\ l.edits[l.applied].group = None
  /\ l.edits[l.applied].before = then.position
  /\ Apply(l.text, InverseEdit(l.edits[l.applied])) = then.text

SearchedFor(s, then) ==
  IF s.mode = "token"
  THEN LET r == TokenExtent(then.text, then.position)
       IN s.offset = r.start /\ SearchString(s) = Slice(then.text, r)
  ELSE SearchString(s) = then.text

(* The line as the search at s shows it. *)
ShownBy(s, then) ==
  IF AtPresent(s) THEN then.text
  ELSE IF s.mode = "token"
  THEN Apply(then.text, [start |-> s.offset, end |-> s.offset + Len(SearchString(s)),
                         new |-> CurrentResult(s)])
  ELSE CurrentResult(s)

ViewOK(v) ==
  v = Shown(v.text, v.position) /\ v.text \in Text /\ v.position \in Nat /\ v.position <= Len(v.text)

Watched(l, tr, s, then) ==
  /\ l.group_level = None
  /\ ViewOK(then)
  /\ SearchedFor(s, then)
  /\ l.text = ShownBy(s, then)
  /\ AtPresent(s) => Now(l) = then
  /\ ~AtPresent(s) => tr /\ ComesBack(l, then)

TakesBackInv ==
  /\ EditorIInv
  /\ AtPresent(search) => ~transient
  /\ Active(search) /\ ~strayed => Watched(line, transient, search, searched)

LEMMA UndoComesBack ==
  ASSUME NEW l, LineOK(l), NEW then, ComesBack(l, then)
  PROVE  LET r == Undo(l) IN
         /\ LineOK(r) /\ r.group_level = None
         /\ r.text = then.text /\ r.position = then.position
  <1> DEFINE n == l.applied
             first == FirstOfGroup(l.edits, n)
             taken == TakenBack(l)
  <1>1. n # 0 /\ l.edits[n].group = None
    BY DEF ComesBack
  <1>2. PICK texts : Recounts(texts, l)
    BY DEF LineOK
  <1>3. /\ first \in 1..n /\ taken.text = texts[first - 1] /\ taken.position = l.edits[first].before
    BY <1>1, <1>2, TakenBackLemma
  <1>4. n \in Nat /\ n <= Len(l.edits) /\ Len(l.edits) \in Nat /\ n >= 1
        /\ \A k \in 1..Len(l.edits) : l.edits[k] \in Entries
    BY <1>1, LineTypes DEF LineOK
  <1>5. first = n
    <2>1. \A j \in first..(n - 1) : SameGroup(l.edits[j], l.edits[j + 1])
      BY <1>4, FirstLemma
    <2>2. ~SameGroup(l.edits[n - 1], l.edits[n])
      BY <1>1 DEF SameGroup
    <2>3. first # n => n - 1 \in first..(n - 1) /\ (n - 1) + 1 = n
      BY <1>3, <1>4
    <2> HIDE DEF first, n
    <2> QED  BY <2>1, <2>2, <2>3
  <1>6. texts[n - 1] = then.text
    <2>1. n \in 1..Len(l.edits) /\ n - 1 \in 0..Len(l.edits)
      BY <1>4
    <2>2. texts[n - 1] \in Text /\ Makes(l.edits[n], texts[n - 1], l.text)
      BY <1>2, <2>1 DEF Recounts
    <2>3. Apply(l.text, InverseEdit(l.edits[n])) = texts[n - 1]
      BY <1>4, <2>1, <2>2, MakesLemma
    <2> QED  BY <2>3 DEF ComesBack
  <1>7. taken.text = then.text /\ taken.position = then.position
    BY <1>3, <1>5, <1>6 DEF ComesBack
  <1> HIDE DEF taken
  <1>8. Undo(l).text = taken.text /\ Undo(l).position = taken.position
        /\ LineOK(Undo(l)) /\ Undo(l).group_level = None
    BY <1>1, UndoLemma DEF taken
  <1> QED  BY <1>7, <1>8

LEMMA ReplaceComesBack ==
  ASSUME NEW l, LineOK(l), l.group_level = None, NEW a \in 0..Len(l.text), NEW b \in a..Len(l.text),
         NEW new \in Text, a = b => l.position = a /\ new # <<>>
  PROVE  LET r == Replace(l, a, b, new) IN
         /\ LineOK(r) /\ r.group_level = None
         /\ r.text = Splice(l.text, a, b, new)
         /\ ComesBack(r, Now(l))
  <1> DEFINE r == Replace(l, a, b, new)
             edit == Edit(a, b, new)
  <1>1. /\ LineOK(r) /\ r.text = Apply(l.text, edit) /\ r.group_level = None
        /\ r = Pushed(l, edit)
    BY ReplaceLemma
  <1>2. r.applied = l.applied + 1 /\ r.edits[r.applied].before = l.position
        /\ r.edits[r.applied].group = None
        /\ Apply(r.text, InverseEdit(r.edits[r.applied])) = l.text
    BY <1>1, PushedLemma
  <1>3. l.applied \in Nat
    BY LineTypes DEF LineOK
  <1>4. Now(l).text = l.text /\ Now(l).position = l.position
    BY DEF Now, Shown
  <1>5. r.text = Splice(l.text, a, b, new)
    BY <1>1, ApplyIsSplice
  <1> HIDE DEF r
  <1>6. ComesBack(r, Now(l))
    BY <1>2, <1>3, <1>4 DEF ComesBack
  <1> QED  BY <1>1, <1>5, <1>6 DEF r

LEMMA WholeSplice ==
  ASSUME NEW t \in Text, NEW new \in Text
  PROVE  Splice(t, 0, Len(t), new) = new
  <1> DEFINE n == Len(t)
             r == Splice(t, 0, n, new)
  <1>1. n \in Nat /\ Len(new) \in Nat /\ 0 \in 0..n /\ n \in 0..n
    BY TextTypes
  <1>2. /\ r \in Text
        /\ Len(r) = Len(t) - (n - 0) + Len(new)
        /\ \A i \in 1..0 : r[i] = t[i]
        /\ \A i \in 1..Len(new) : r[0 + i] = new[i]
        /\ \A i \in 1..(Len(t) - n) : r[0 + Len(new) + i] = t[n + i]
    BY <1>1, SpliceLemma
  <1> HIDE DEF r
  <1>3. Len(r) = Len(new) /\ \A i \in 1..Len(new) : 0 + i = i
    BY <1>1, <1>2
  <1>4. r = new
    BY <1>2, <1>3, SameText
  <1> QED  BY <1>4 DEF r

LEMMA PlacedComesBack ==
  ASSUME NEW l, LineOK(l), l.group_level = None, NEW s, SearchOK(s), Active(s), ~AtPresent(s),
         SearchedFor(s, Now(l))
  PROVE  LET r == Placed(l, s) IN
         /\ r.group_level = None
         /\ r.text = ShownBy(s, Now(l))
         /\ ComesBack(r, Now(l))
  <1> DEFINE new == CurrentResult(s)
             p == l.position
             t == l.text
  <1>1. /\ t \in Text /\ p \in Nat /\ p <= Len(t) /\ Len(t) \in Nat
    BY LineTypes DEF LineOK
  <1>2. new \in Text /\ SearchString(s) \in Text
    BY SearchTypes
  <1>3. new # SearchString(s)
    <2>1. s.match_index + 1 \in 2..Len(s.matches)
      BY SearchTypes DEF SearchOK, AtPresent
    <2> QED  BY <2>1 DEF SearchOK, Distinct, CurrentResult, SearchString
  <1>4. Now(l).text = t /\ Now(l).position = p
    BY DEF Now, Shown
  <1> HIDE DEF new
  <1>5. CASE s.mode = "token"
    <2> DEFINE e == TokenExtent(t, p)
               a == e.start
               b == e.end
               r == Replace(l, a, b, new)
    <2>1. a \in Nat /\ b \in Nat /\ a <= p /\ p <= b /\ b <= Len(t)
      BY <1>1, TokenLemma
    <2>2. s.offset = a /\ SearchString(s) = SubSeq(t, a + 1, b)
      BY <1>4, <1>5 DEF SearchedFor, Slice
    <2>3. Placed(l, s) = r
      BY <1>5 DEF Placed, new
    <2> HIDE DEF e
    <2>4. Len(SearchString(s)) = b - a
      BY <1>1, <2>1, <2>2, SubPart
    <2>5. ASSUME a = b  PROVE  p = a /\ new # <<>>
      <3>1. Len(SearchString(s)) = 0
        BY <2>1, <2>4, <2>5
      <3>2. SearchString(s) = <<>>
        BY <1>2, <3>1, EmptySeq DEF Text
      <3> QED  BY <1>1, <1>3, <2>1, <2>5, <3>2
    <2>6. a \in 0..Len(l.text) /\ b \in a..Len(l.text)
      BY <1>1, <2>1
    <2> HIDE DEF a, b
    <2>7. /\ r.group_level = None /\ r.text = Splice(l.text, a, b, new)
          /\ ComesBack(r, Now(l))
      BY <1>2, <2>5, <2>6, ReplaceComesBack
    <2>8. s.offset + Len(SearchString(s)) = b
      BY <2>1, <2>2, <2>4
    <2>9. ShownBy(s, Now(l)) = Splice(t, a, b, new)
      <3> DEFINE f == [start |-> a, end |-> b, new |-> new]
      <3>1. ShownBy(s, Now(l)) = Apply(t, f)
        BY <1>4, <1>5, <2>2, <2>8 DEF ShownBy, new
      <3>2. f.start = a /\ f.end = b /\ f.new = new
        OBVIOUS
      <3> HIDE DEF f
      <3>3. Apply(t, f) = Splice(t, a, b, new)
        BY <3>2 DEF Apply, Splice
      <3> QED  BY <3>1, <3>3
    <2> QED  BY <2>3, <2>7, <2>9
  <1>6. CASE s.mode # "token"
    <2> DEFINE n == Len(l.text)
               r == Replace(l, 0, n, new)
               m == Len(SearchString(s))
    <2>1. 0 \in 0..Len(l.text) /\ n \in 0..Len(l.text) /\ n \in Nat
      BY <1>1
    <2>2. SearchString(s) = t
      BY <1>4, <1>6 DEF SearchedFor
    <2>3. ASSUME 0 = n  PROVE  l.position = 0 /\ new # <<>>
      <3>1. t = <<>>
        BY <1>1, <2>3, EmptySeq DEF Text
      <3> QED  BY <1>1, <1>3, <2>2, <2>3, <3>1
    <2>4. Placed(l, s) = IF s.mode = "prefix" /\ SearchString(s) # <<>> THEN SetPosition(r, m) ELSE r
      BY <1>6 DEF Placed, new
    <2>5. Splice(l.text, 0, n, new) = new
      BY <1>1, <1>2, WholeSplice
    <2> HIDE DEF n
    <2>6. /\ LineOK(r) /\ r.group_level = None /\ r.text = Splice(l.text, 0, n, new)
          /\ ComesBack(r, Now(l))
      BY <1>2, <2>1, <2>3, ReplaceComesBack
    <2> HIDE DEF r
    <2>7. /\ SetPosition(r, m).text = r.text /\ SetPosition(r, m).group_level = r.group_level
          /\ SetPosition(r, m).edits = r.edits /\ SetPosition(r, m).applied = r.applied
      BY <2>6 DEF LineOK, EditableLines, SetPosition
    <2>8. ComesBack(SetPosition(r, m), Now(l))
      BY <2>6, <2>7 DEF ComesBack
    <2>9. ShownBy(s, Now(l)) = new
      BY <1>6 DEF ShownBy, new
    <2> QED  BY <2>4, <2>5, <2>6, <2>7, <2>8, <2>9
  <1> QED  BY <1>5, <1>6

(* What a search shows, wherever it moves. *)
LEMMA ShowMatchTakesBack ==
  ASSUME LineOK(line), line.group_level = None, NEW then, ViewOK(then),
         IF transient THEN ComesBack(line, then) ELSE Now(line) = then,
         NEW s, SearchOK(s), Active(s), SearchedFor(s, then), ShowMatch(s)
  PROVE  Watched(line', transient', s, then)
  <1> DEFINE l == IF transient THEN Undo(line) ELSE line
  <1>1. line' = (IF AtPresent(s) THEN l ELSE Placed(l, s)) /\ transient' = ~AtPresent(s)
    BY DEF ShowMatch
  <1>2. LineOK(l) /\ l.group_level = None /\ Now(l) = then
    <2>1. CASE transient
      BY <2>1, UndoComesBack DEF Now, Shown, ViewOK
    <2>2. CASE ~transient
      BY <2>2
    <2> QED  BY <2>1, <2>2
  <1> HIDE DEF l
  <1>3. CASE AtPresent(s)
    <2>1. l.text = then.text
      BY <1>2 DEF Now, Shown
    <2> QED  BY <1>1, <1>2, <1>3, <2>1 DEF Watched, ShownBy
  <1>4. CASE ~AtPresent(s)
    <2>1. LET r == Placed(l, s) IN
          r.group_level = None /\ r.text = ShownBy(s, then) /\ ComesBack(r, then)
      BY <1>2, <1>4, PlacedComesBack
    <2> QED  BY <1>1, <1>4, <2>1 DEF Watched
  <1> QED  BY <1>3, <1>4

LEMMA SameMatch ==
  ASSUME NEW s, NEW items, NEW r \in {MoveBackwards(s, items), MoveForwards(s)},
         s \in Searches, s.match_index \in Nat, r.match_index = s.match_index
  PROVE  r.matches = s.matches
  <1>1. CASE r = MoveForwards(s)
    BY <1>1 DEF MoveForwards, Searches
  <1>2. CASE r = MoveBackwards(s, items)
    <2>1. CASE s.match_index + 1 < Len(s.matches)
      <3> DEFINE m == s.match_index + 1
      <3>1. r = [s EXCEPT !.match_index = m] /\ m # s.match_index
        BY <1>2, <2>1 DEF MoveBackwards
      <3> HIDE DEF m
      <3>2. r.match_index = m
        BY <3>1 DEF Searches
      <3> QED  BY <3>1, <3>2
    <2>2. CASE ~(s.match_index + 1 < Len(s.matches)) /\ Fruitful(s, items) = {}
      <3> DEFINE c == Len(items) + 1
      <3>1. r = [s EXCEPT !.current_index = c]
        BY <1>2, <2>2 DEF MoveBackwards
      <3> HIDE DEF c
      <3> QED  BY <3>1 DEF Searches
    <2>3. CASE ~(s.match_index + 1 < Len(s.matches)) /\ Fruitful(s, items) # {}
      <3> DEFINE i == CHOOSE i \in Fruitful(s, items) : \A j \in Fruitful(s, items) : i <= j
                 more == AppendMatches(s, items[i])
                 m == s.match_index + 1
      <3>1. r = [more EXCEPT !.current_index = i, !.match_index = @ + 1]
        BY <1>2, <2>3 DEF MoveBackwards
      <3>2. more \in [mode : {s.mode}, matches : {more.matches}, skips : {more.skips},
                      match_index : {s.match_index}, offset : {s.offset},
                      current_index : {s.current_index}]
        BY DEF AppendMatches, Searches
      <3> HIDE DEF more, i
      <3>3. r.match_index = m /\ m # s.match_index
        BY <3>1, <3>2
      <3> QED  BY <3>3
    <2> QED  BY <2>1, <2>2, <2>3
  <1> QED  BY <1>1, <1>2

LEMMA AlikeSearches ==
  ASSUME NEW s, NEW r, Alike(r, s), NEW then, SearchedFor(s, then)
  PROVE  SearchedFor(r, then)
  <1>1. SearchString(r) = SearchString(s) /\ r.mode = s.mode /\ r.offset = s.offset
    BY DEF Alike, SearchString
  <1> QED  BY <1>1 DEF SearchedFor

LEMMA NowOK ==
  ASSUME NEW l, LineOK(l)
  PROVE  ViewOK(Now(l)) /\ Now(l).text = l.text /\ Now(l).position = l.position
  <1>1. l.text \in Text /\ l.position \in Nat /\ l.position <= Len(l.text)
    BY LineTypes DEF LineOK
  <1> QED  BY <1>1 DEF ViewOK, Now, Shown

(* A new search looks for what is on the line. *)
LEMMA StartedFor ==
  ASSUME EditorIInv, NEW mode \in SearchModes, Starts(mode)
  PROVE  LET s == Started(mode) IN AtPresent(s) /\ SearchedFor(s, Now(line))
  <1>1. /\ LineOK(line) /\ line.text \in Text /\ line.position \in Nat
        /\ line.position <= Len(line.text)
    BY LineTypes DEF EditorIInv, LineOK
  <1>2. Now(line).text = line.text /\ Now(line).position = line.position
    BY DEF Now, Shown
  <1>3. CASE mode = "token"
    <2> DEFINE r == TokenExtent(line.text, line.position)
               t == Slice(line.text, r)
               s == StartSearch(t, mode, r.start, {})
    <2>1. r.start \in Nat /\ t \in Text
      BY <1>1, TokenLemma
    <2>2. Started(mode) = s
      BY <1>3 DEF Started
    <2> HIDE DEF t
    <2>3. AtPresent(s) /\ s.mode = mode /\ s.matches[1] = t /\ s.offset = r.start
      <3> HIDE DEF r
      <3> QED  BY <2>1, StartSearchOK
    <2> HIDE DEF s
    <2>4. SearchedFor(s, Now(line))
      BY <1>2, <1>3, <2>3 DEF SearchedFor, SearchString, t
    <2> QED  BY <2>2, <2>3, <2>4
  <1>4. CASE mode # "token"
    <2> DEFINE s == StartSearch(line.text, mode, 0, {})
    <2>1. Started(mode) = s
      BY <1>4 DEF Started
    <2>2. AtPresent(s) /\ s.mode = mode /\ s.matches[1] = line.text
      BY DEF StartSearch, AtPresent
    <2> HIDE DEF s
    <2>3. SearchedFor(s, Now(line))
      BY <1>2, <1>4, <2>2 DEF SearchedFor, SearchString
    <2> QED  BY <2>1, <2>2, <2>3
  <1> QED  BY <1>3, <1>4

(* The search that is on shows another match, or the line itself. *)
LEMMA ShowsTakesBack ==
  ASSUME TakesBackInv, Active(search), ~strayed, NEW s, SearchOK(s), Active(s),
         Alike(s, search), ShowMatch(s)
  PROVE  Watched(line', transient', s, searched)
  <1>1. Watched(line, transient, search, searched) /\ LineOK(line)
    BY DEF TakesBackInv, EditorIInv
  <1>2. IF transient THEN ComesBack(line, searched) ELSE Now(line) = searched
    <2>1. transient \in BOOLEAN
      BY DEF TakesBackInv, EditorIInv
    <2> QED  BY <1>1, <2>1 DEF Watched, TakesBackInv
  <1>3. SearchedFor(s, searched)
    BY <1>1, AlikeSearches DEF Watched
  <1>4. line.group_level = None /\ ViewOK(searched)
    BY <1>1 DEF Watched
  <1> QED  BY <1>1, <1>2, <1>3, <1>4, ShowMatchTakesBack

LEMMA ShownPresent ==
  ASSUME NEW s, ShowMatch(s)
  PROVE  AtPresent(s) => ~transient'
  BY DEF ShowMatch

LEMMA MoveToTakesBack ==
  ASSUME TakesBackInv, NEW mode \in SearchModes, NEW s, SearchOK(s), Active(s),
         Alike(s, Started(mode)),
         s.match_index = Started(mode).match_index => s.matches = Started(mode).matches,
         MoveTo(mode, Started(mode), s)
  PROVE  /\ (AtPresent(search) => ~transient)'
         /\ (Active(search) /\ ~strayed => Watched(line, transient, search, searched))'
  <1> DEFINE start == Started(mode)
  <1>1. CASE s.match_index = start.match_index /\ ~Active(search)
    <2>1. UNCHANGED <<line, search, transient, searched, strayed>>
      BY <1>1 DEF MoveTo, ghosts
    <2> QED  BY <2>1 DEF TakesBackInv
  <1>2. CASE ~(s.match_index = start.match_index /\ ~Active(search))
    <2>1. /\ IF s.match_index = start.match_index THEN UNCHANGED <<line, transient>> ELSE ShowMatch(s)
          /\ search' = s
          /\ searched' = IF Starts(mode) THEN Now(line) ELSE searched
          /\ strayed' = IF Starts(mode) THEN line.group_level # None ELSE strayed
      BY <1>2 DEF MoveTo
    <2>2. LineOK(line) /\ EditorIInv
      BY DEF TakesBackInv, EditorIInv
    <2>3. CASE Starts(mode)
      <3>1. AtPresent(start) /\ SearchedFor(start, Now(line)) /\ ~transient
        BY <2>2, <2>3, StartedFor DEF TakesBackInv, Starts
      <3>2. SearchedFor(s, Now(line)) /\ ViewOK(Now(line))
        BY <2>2, <3>1, AlikeSearches, NowOK
      <3>3. searched' = Now(line) /\ strayed' = (line.group_level # None)
        BY <2>1, <2>3
      <3>4. CASE s.match_index = start.match_index
        <4>1. AtPresent(s) /\ line' = line /\ transient' = transient
          BY <2>1, <3>1, <3>4 DEF AtPresent
        <4>2. line.group_level = None => Watched(line, transient, s, Now(line))
          <5>1. ShownBy(s, Now(line)) = line.text
            BY <2>2, <4>1, NowOK DEF ShownBy
          <5> QED  BY <3>2, <4>1, <5>1 DEF Watched
        <4> QED  BY <2>1, <3>1, <3>3, <4>1, <4>2
      <3>5. CASE s.match_index # start.match_index
        <4>1. ShowMatch(s)
          BY <2>1, <3>5
        <4>2. AtPresent(s) => ~transient'
          BY <4>1, ShownPresent
        <4>3. line.group_level = None => Watched(line', transient', s, Now(line))
          BY <2>2, <3>1, <3>2, <4>1, ShowMatchTakesBack
        <4> QED  BY <2>1, <3>3, <4>2, <4>3
      <3> QED  BY <3>4, <3>5
    <2>4. CASE ~Starts(mode)
      <3>1. start = search /\ searched' = searched /\ strayed' = strayed
        BY <2>1, <2>4 DEF Started
      <3>2. Active(search)
        <4>1. mode # Inactive
          BY DEF SearchModes, Inactive
        <4> QED  BY <2>2, <2>4, <4>1 DEF EditorIInv, SearchOK, Starts, AtPresent, Active
      <3>3. CASE s.match_index = start.match_index
        <4>1. s.match_index = search.match_index /\ s.matches = search.matches
              /\ s.mode = search.mode /\ s.offset = search.offset
          BY <3>1, <3>3 DEF Alike
        <4>2. line' = line /\ transient' = transient
          BY <2>1, <3>3
        <4>3. AtPresent(s) <=> AtPresent(search)
          BY <4>1 DEF AtPresent
        <4>4. \A then : (SearchedFor(s, then) <=> SearchedFor(search, then))
                        /\ ShownBy(s, then) = ShownBy(search, then)
          BY <4>1 DEF SearchedFor, ShownBy, AtPresent, SearchString, CurrentResult
        <4>5. Watched(line, transient, search, searched) => Watched(line, transient, s, searched)
          BY <4>3, <4>4 DEF Watched
        <4> QED  BY <2>1, <3>1, <3>2, <4>2, <4>3, <4>5 DEF TakesBackInv
      <3>4. CASE s.match_index # start.match_index
        <4>1. ShowMatch(s)
          BY <2>1, <3>4
        <4>2. AtPresent(s) => ~transient'
          BY <4>1, ShownPresent
        <4>3. ~strayed => Watched(line', transient', s, searched)
          BY <3>1, <3>2, <4>1, ShowsTakesBack
        <4> QED  BY <2>1, <3>1, <4>2, <4>3
      <3> QED  BY <3>3, <3>4
    <2> QED  BY <2>3, <2>4
  <1> QED  BY <1>1, <1>2

LEMMA TakesBackInit == EditorInit => TakesBackInv
  <1> SUFFICES ASSUME EditorInit  PROVE  TakesBackInv
    OBVIOUS
  <1>1. ~Active(search) /\ ~transient
    BY NoSearchOK DEF EditorInit
  <1> QED  BY <1>1, EditorInitInvariant DEF TakesBackInv

LEMMA TakesBackStep == TakesBackInv /\ [EditorNext]_editorVars => TakesBackInv'
  <1> SUFFICES ASSUME TakesBackInv, [EditorNext]_editorVars
               PROVE  /\ (AtPresent(search) => ~transient)'
                      /\ (Active(search) /\ ~strayed => Watched(line, transient, search, searched))'
    BY EditorNextStep DEF TakesBackInv
  <1>1. EditorIInv /\ SearchOK(search) /\ history \in Seq(Text)
    BY DEF TakesBackInv, EditorIInv
  <1>2. CASE UNCHANGED editorVars
    <2>1. UNCHANGED <<line, search, transient, searched, strayed>>
      BY <1>2 DEF editorVars
    <2> QED  BY <2>1 DEF TakesBackInv
  <1>3. ASSUME NEW l, Editing(l)
        PROVE  /\ (AtPresent(search) => ~transient)'
               /\ (Active(search) /\ ~strayed => Watched(line, transient, search, searched))'
    <2>1. search' = NoSearch /\ transient' = FALSE
      BY <1>3 DEF Editing, SearchEnds
    <2>2. ~Active(search')
      BY <2>1, NoSearchOK
    <2> QED  BY <2>1, <2>2
  <1>4. CASE \/ CursorCommand \/ BackwardDeleteChar
             \/ UndoCommand \/ RedoCommand \/ BeginUndoGroup \/ EndUndoGroup \/ Cancel
             \/ \E c \in Keys : InsertChar(c)
             \/ \E text0 \in Scripted : ScriptSets(text0)
    BY <1>3, <1>4 DEF CursorCommand, BackwardDeleteChar, UndoCommand, RedoCommand, BeginUndoGroup,
                      EndUndoGroup, Cancel, InsertChar, ScriptSets
  <1>5. CASE ClickAt \/ \E new \in Pastes : InsertBurst(new)
    <2>1. /\ search' = search /\ (transient' = transient \/ transient' = FALSE)
          /\ strayed' = (strayed \/ Active(search))
      <3>1. CASE ClickAt
        BY <3>1, Zenon DEF ClickAt
      <3>2. ASSUME NEW new \in Pastes, InsertBurst(new)
            PROVE  search' = search /\ transient' = FALSE /\ strayed' = (strayed \/ Active(search))
        BY <3>2, Zenon DEF InsertBurst
      <3> QED  BY <1>5, <3>1, <3>2, Zenon
    <2>2. Active(search) => strayed'
      BY ONLY <2>1, Zenon
    <2>3. ~(Active(search') /\ ~strayed')
      BY <2>1, <2>2
    <2>4. AtPresent(search') => ~transient'
      BY <2>1 DEF TakesBackInv
    <2> QED  BY <2>3, <2>4
  <1>6. ASSUME NEW mode \in SearchModes, HistorySearchBackward(mode) \/ HistorySearchForward(mode)
        PROVE  /\ (AtPresent(search) => ~transient)'
               /\ (Active(search) /\ ~strayed => Watched(line, transient, search, searched))'
    <2> DEFINE start == Started(mode)
    <2>1. SearchOK(start) /\ Active(start)
      BY <1>1, StartedLemma
    <2>2. start \in Searches /\ start.match_index \in Nat
      BY <2>1, SearchTypes
    <2> HIDE DEF start
    <2>3. CASE HistorySearchBackward(mode)
      <3> DEFINE s == MoveBackwards(start, history)
      <3>1. MoveTo(mode, start, s)
        BY <2>3 DEF HistorySearchBackward, start
      <3>2. SearchOK(s) /\ Active(s) /\ Alike(s, start)
        BY <1>1, <2>1, MoveBackwardsLemma
      <3>3. s.match_index = start.match_index => s.matches = start.matches
        BY <2>2, SameMatch
      <3> HIDE DEF s
      <3> QED  BY <3>1, <3>2, <3>3, MoveToTakesBack DEF start
    <2>4. CASE HistorySearchForward(mode)
      <3> DEFINE s == MoveForwards(start)
      <3>1. MoveTo(mode, start, s)
        BY <2>4 DEF HistorySearchForward, start
      <3>2. SearchOK(s) /\ Active(s) /\ Alike(s, start)
        BY <2>1, MovesLemma
      <3>3. s.match_index = start.match_index => s.matches = start.matches
        BY <2>2, SameMatch
      <3> HIDE DEF s
      <3> QED  BY <3>1, <3>2, <3>3, MoveToTakesBack DEF start
    <2> QED  BY <1>6, <2>3, <2>4
  <1>7. CASE BeginningOfHistory \/ EndOfHistory
    <2>1. /\ Active(search) /\ search' \in {MoveForwards(search), GoToOldest(search), GoToPresent(search)}
          /\ ShowMatch(search') /\ searched' = searched /\ strayed' = strayed
      BY <1>7 DEF BeginningOfHistory, EndOfHistory, ghosts
    <2>2. SearchOK(search') /\ Active(search') /\ Alike(search', search)
      BY <1>1, <2>1, MovesLemma
    <2>3. ~strayed => Watched(line', transient', search', searched)
      BY <2>1, <2>2, ShowsTakesBack
    <2>4. AtPresent(search') => ~transient'
      BY <2>1, ShownPresent
    <2> QED  BY <2>1, <2>3, <2>4
  <1>8. CASE DeleteFromHistory
    <2>1. /\ ~AtPresent(search) /\ MayDelete(search)
          /\ RemoveAndSave(CurrentResult(search)) /\ search' = HandleDeletion(search, history')
          /\ ShowMatch(search') /\ searched' = searched /\ strayed' = strayed
      BY <1>8 DEF DeleteFromHistory
    <2>2. Active(search)
      BY <1>1, <2>1 DEF SearchOK, AtPresent
    <2>3. history \in Seq(Text) /\ history' \in Seq(Text)
      BY <1>1, <2>1, RemoveAndSaveLemma
    <2>4. SearchOK(search') /\ Active(search') /\ Alike(search', search)
      BY <1>1, <2>1, <2>2, <2>3, HandleDeletionLemma
    <2>5. ~strayed => Watched(line', transient', search', searched)
      BY <2>1, <2>2, <2>4, ShowsTakesBack
    <2>6. AtPresent(search') => ~transient'
      BY <2>1, ShownPresent
    <2> QED  BY <2>1, <2>5, <2>6
  <1>9. CASE DeletePanics
    <2>1. UNCHANGED <<line, search, transient, searched, strayed>>
      BY <1>9 DEF DeletePanics, ghosts
    <2> QED  BY <2>1 DEF TakesBackInv
  <1> QED  BY <1>2, <1>4, <1>5, <1>6, <1>7, <1>8, <1>9 DEF EditorNext

LEMMA TakesBackInvariant == EditorSpec => []TakesBackInv
  BY TakesBackInit, TakesBackStep, PTL DEF EditorSpec

LEMMA Watching ==
  ASSUME TakesBackInv, Active(search), ~strayed
  PROVE  /\ line.text = Expected
         /\ Now(ClearTransient(line)) = searched
  <1>1. Watched(line, transient, search, searched) /\ LineOK(line) /\ transient \in BOOLEAN
    BY DEF TakesBackInv, EditorIInv
  <1>2. line.text = Expected
    BY <1>1 DEF Watched, ShownBy, Expected
  <1>3. CASE transient
    <2>1. ~AtPresent(search)
      BY <1>3 DEF TakesBackInv
    <2>2. Undo(line).text = searched.text /\ Undo(line).position = searched.position
      BY <1>1, <2>1, UndoComesBack DEF Watched
    <2> QED  BY <1>1, <1>2, <1>3, <2>2 DEF ClearTransient, Now, Watched, ViewOK
  <1>4. CASE ~transient
    <2>1. Now(line) = searched
      BY <1>1, <1>4 DEF Watched
    <2> QED  BY <1>2, <1>4, <2>1 DEF ClearTransient
  <1> QED  BY <1>1, <1>3, <1>4

(* What a search shows, and what cancelling it brings back, is what it says. *)
THEOREM SearchAlwaysTakesBack == EditorSpec => SearchTakesBack
  <1> DEFINE Step == [ /\ (Active(search) /\ ~strayed)' => line'.text = Expected'
                       /\ Cancel /\ Active(search) /\ ~strayed => Now(line)' = searched ]_editorVars
  <1>1. TakesBackInv /\ TakesBackInv' /\ [EditorNext]_editorVars => Step
    <2> SUFFICES ASSUME TakesBackInv, TakesBackInv'
                 PROVE  /\ (Active(search) /\ ~strayed)' => line'.text = Expected'
                        /\ Cancel /\ Active(search) /\ ~strayed => Now(line)' = searched
      OBVIOUS
    <2>1. TakesBackInv /\ Active(search) /\ ~strayed =>
            line.text = Expected /\ Now(ClearTransient(line)) = searched
      BY Watching
    <2>2. (TakesBackInv /\ Active(search) /\ ~strayed => line.text = Expected)'
      BY Watching, PTL
    <2>3. Cancel => line' = ClearTransient(line)
      BY DEF Cancel, Editing
    <2> QED  BY <2>1, <2>2, <2>3 DEF Now
  <1> QED  BY <1>1, TakesBackInvariant, PTL DEF EditorSpec, SearchTakesBack

-----------------------------------------------------------------------------
(* More of lists that are thinned (Thinning): what is kept when one more    *)
(* element is, at the end or at the beginning.                              *)
Elements(f, keep, S) == \A i \in keep : f[i] \in S

InPlace(r, f, keep, S) ==
  /\ r \in Seq(S) /\ Len(r) = Cardinality(keep)
  /\ \A i \in keep : r[KeptOf(i, keep)] = f[i]

LEMMA PlaceInList ==
  ASSUME NEW len \in Nat, NEW keep \in SUBSET (1..len), NEW i \in keep
  PROVE  i \in Nat /\ KeptOf(i, keep) \in 1..Cardinality(keep)
  <1>1. i \in Nat
    OBVIOUS
  <1> QED  BY <1>1, KeptOnce

LEMMA KeptIs ==
  ASSUME NEW len \in Nat, NEW keep \in SUBSET (1..len), NEW S, NEW f, Elements(f, keep, S)
  PROVE  Cardinality(keep) \in Nat /\ InPlace(Kept(f, keep), f, keep, S)
  <1> DEFINE n == Cardinality(keep)
             At(k) == CHOOSE i \in keep : KeptOf(i, keep) = k
             left == Kept(f, keep)
  <1>1. n \in Nat
    BY KeptOfCounts
  <1>2. ASSUME NEW k \in 1..n  PROVE  At(k) \in keep /\ KeptOf(At(k), keep) = k
    <2>1. \E i \in keep : KeptOf(i, keep) = k
      BY KthKept
    <2> QED  BY <2>1
  <1>3. left = [k \in 1..n |-> f[At(k)]]
    BY DEF Kept
  <1>4. ASSUME NEW i \in keep  PROVE  KeptOf(i, keep) \in 1..n /\ At(KeptOf(i, keep)) = i
    <2> DEFINE k == KeptOf(i, keep)
               j == At(k)
    <2>1. i \in Nat /\ k \in 1..n
      BY PlaceInList
    <2>2. j \in keep /\ KeptOf(j, keep) = k
      BY <1>2, <2>1
    <2> HIDE DEF j
    <2>3. j \in Nat
      BY <2>2, PlaceInList
    <2>4. j = i
      BY <2>2, <2>3, KeptOnce
    <2> QED  BY <2>1, <2>4 DEF j
  <1> HIDE DEF At, n, left
  <1>5. \A k \in 1..n : f[At(k)] \in S
    BY <1>2 DEF Elements
  <1>6. left \in Seq(S) /\ Len(left) = n
    BY <1>1, <1>3, <1>5
  <1>7. ASSUME NEW i \in keep  PROVE  left[KeptOf(i, keep)] = f[i]
    BY <1>3, <1>4
  <1> QED  BY <1>1, <1>6, <1>7 DEF n, left, InPlace

(* What has these elements at these places is what is kept. *)
LEMMA KeptOnly ==
  ASSUME NEW len \in Nat, NEW keep \in SUBSET (1..len), NEW S, NEW f, Elements(f, keep, S),
         NEW r, InPlace(r, f, keep, S)
  PROVE  r = Kept(f, keep)
  <1> DEFINE n == Cardinality(keep)
             left == Kept(f, keep)
  <1>1. n \in Nat /\ InPlace(left, f, keep, S)
    BY KeptIs
  <1>2. ASSUME NEW k \in 1..n  PROVE  r[k] = left[k]
    <2>1. PICK i \in keep : KeptOf(i, keep) = k
      BY KthKept
    <2> HIDE DEF left
    <2> QED  BY <1>1, <2>1 DEF InPlace
  <1> HIDE DEF left
  <1>3. r \in Seq(S) /\ left \in Seq(S) /\ Len(r) = n /\ Len(left) = n
    BY <1>1 DEF InPlace
  <1> HIDE DEF n
  <1>4. r = left
    BY <1>2, <1>3, SeqEqual
  <1> QED  BY <1>4 DEF left

LEMMA KeptSame ==
  ASSUME NEW len \in Nat, NEW keep \in SUBSET (1..len), NEW S, NEW f, NEW g,
         Elements(f, keep, S), \A i \in keep : g[i] = f[i]
  PROVE  Kept(g, keep) = Kept(f, keep)
  <1> DEFINE left == Kept(g, keep)
  <1>1. Elements(g, keep, S)
    BY DEF Elements
  <1>2. InPlace(left, g, keep, S)
    BY <1>1, KeptIs
  <1> HIDE DEF left
  <1>3. InPlace(left, f, keep, S)
    BY <1>2 DEF InPlace
  <1>4. left = Kept(f, keep)
    BY <1>3, KeptOnly
  <1> QED  BY <1>4 DEF left

LEMMA KeptNone ==
  ASSUME NEW f  PROVE  Kept(f, {}) = <<>>
  <1>1. Cardinality({}) = 0
    BY FS_EmptySet
  <1>2. Elements(f, {}, {}) /\ 0 \in Nat /\ {} \in SUBSET (1..0)
    BY DEF Elements
  <1>3. InPlace(Kept(f, {}), f, {}, {})
    BY <1>2, KeptIs
  <1> QED  BY <1>1, <1>3, EmptySeq DEF InPlace

LEMMA KeptSome ==
  ASSUME NEW len \in Nat, NEW keep \in SUBSET (1..len), NEW S, NEW f, Elements(f, keep, S),
         keep # {}
  PROVE  Kept(f, keep) # <<>>
  <1>1. PICK i \in keep : TRUE
    OBVIOUS
  <1>2. KeptOf(i, keep) \in 1..Cardinality(keep)
    BY <1>1, PlaceInList
  <1>3. Cardinality(keep) \in Nat /\ InPlace(Kept(f, keep), f, keep, S)
    BY KeptIs
  <1>4. Len(Kept(f, keep)) # 0
    BY <1>2, <1>3 DEF InPlace
  <1> QED  BY <1>4, EmptySeq

LEMMA KeptLast ==
  ASSUME NEW len \in Nat, NEW keep \in SUBSET (1..len), NEW m \in Nat, m >= 1,
         \A i \in keep : i < m,
         NEW S, NEW f, Elements(f, keep \cup {m}, S)
  PROVE  Kept(f, keep \cup {m}) = Append(Kept(f, keep), f[m])
  <1> DEFINE n == Cardinality(keep)
             left == Kept(f, keep)
             more == keep \cup {m}
             r == Append(left, f[m])
  <1>1. Elements(f, keep, S) /\ f[m] \in S
    BY DEF Elements
  <1>2. n \in Nat /\ InPlace(left, f, keep, S)
    BY <1>1, KeptIs
  <1>3. more \in SUBSET (1..m)
    OBVIOUS
  <1>4. m \notin keep /\ Cardinality(more) = n + 1
    <2>1. m \notin keep
      OBVIOUS
    <2>2. IsFiniteSet(keep)
      BY KeptOfCounts
    <2> QED  BY <2>1, <2>2, FS_AddElement
  <1> HIDE DEF left, more
  <1>5. KeptOf(m, more) = n + 1
    BY <1>3, <1>4, KeptOfCounts
  <1>6. ASSUME NEW i \in keep  PROVE  KeptOf(i, more) = KeptOf(i, keep) /\ KeptOf(i, keep) \in 1..n
    <2>1. more \cap (1..i) = keep \cap (1..i)
      BY DEF more
    <2> QED  BY <2>1, PlaceInList DEF KeptOf
  <1>7. left \in Seq(S) /\ Len(left) = n /\ \A i \in keep : left[KeptOf(i, keep)] = f[i]
    BY <1>2 DEF InPlace
  <1> HIDE DEF n
  <1>8. /\ r \in Seq(S) /\ Len(r) = n + 1 /\ r[n + 1] = f[m]
        /\ \A k \in 1..n : r[k] = left[k]
    BY <1>1, <1>2, <1>7, AppendProperties
  <1> HIDE DEF r
  <1>9. ASSUME NEW i \in more  PROVE  r[KeptOf(i, more)] = f[i]
    <2>1. CASE i = m
      BY <1>5, <1>8, <2>1
    <2>2. CASE i \in keep
      BY <1>6, <1>7, <1>8, <2>2
    <2> QED  BY <2>1, <2>2 DEF more
  <1>10. InPlace(r, f, more, S)
    BY <1>4, <1>8, <1>9 DEF InPlace
  <1>11. Elements(f, more, S)
    BY DEF more
  <1>12. r = Kept(f, more)
    BY <1>3, <1>10, <1>11, KeptOnly
  <1> QED  BY <1>12 DEF r, left, more

LEMMA KeptFirst ==
  ASSUME NEW len \in Nat, NEW keep \in SUBSET (1..len), NEW m \in 1..len,
         \A i \in keep : i > m,
         NEW S, NEW f, Elements(f, {m} \cup keep, S)
  PROVE  Kept(f, {m} \cup keep) = <<f[m]>> \o Kept(f, keep)
  <1> DEFINE n == Cardinality(keep)
             left == Kept(f, keep)
             more == {m} \cup keep
             one == <<f[m]>>
             r == one \o left
  <1>1. Elements(f, keep, S) /\ f[m] \in S
    BY DEF Elements
  <1>2. n \in Nat /\ InPlace(left, f, keep, S)
    BY <1>1, KeptIs
  <1>3. more \in SUBSET (1..len)
    OBVIOUS
  <1>4. m \notin keep /\ Cardinality(more) = n + 1
    <2>1. m \notin keep /\ more = keep \cup {m}
      OBVIOUS
    <2>2. IsFiniteSet(keep)
      BY KeptOfCounts
    <2> HIDE DEF more
    <2> QED  BY <2>1, <2>2, FS_AddElement
  <1>5. KeptOf(m, more) = 1
    <2>1. more \cap (1..m) = {m}
      OBVIOUS
    <2> QED  BY <2>1, FS_Singleton DEF KeptOf
  <1> HIDE DEF left
  <1>6. ASSUME NEW i \in keep  PROVE  KeptOf(i, more) = KeptOf(i, keep) + 1 /\ KeptOf(i, keep) \in 1..n
    <2> DEFINE some == keep \cap (1..i)
    <2>1. more \cap (1..i) = some \cup {m} /\ m \notin some
      OBVIOUS
    <2>2. IsFiniteSet(some)
      <3>1. IsFiniteSet(keep) /\ some \in SUBSET keep
        BY KeptOfCounts
      <3> QED  BY <3>1, FS_Subset
    <2> HIDE DEF some
    <2>3. Cardinality(some \cup {m}) = Cardinality(some) + 1
      BY <2>1, <2>2, FS_AddElement
    <2> QED  BY <2>1, <2>3, PlaceInList DEF KeptOf, some
  <1>7. left \in Seq(S) /\ Len(left) = n /\ \A i \in keep : left[KeptOf(i, keep)] = f[i]
    BY <1>2 DEF InPlace
  <1>8. one \in Seq(S) /\ Len(one) = 1 /\ one[1] = f[m]
    BY <1>1
  <1> HIDE DEF n, more, one
  <1>9. /\ r \in Seq(S) /\ Len(r) = n + 1 /\ r[1] = f[m]
        /\ \A k \in 1..n : r[k + 1] = left[k]
    <2>1. /\ r \in Seq(S) /\ Len(r) = Len(one) + Len(left)
          /\ \A k \in 1..(Len(one) + Len(left)) :
               r[k] = IF k <= Len(one) THEN one[k] ELSE left[k - Len(one)]
      BY <1>7, <1>8, ConcatProperties
    <2> HIDE DEF r
    <2>2. Len(r) = n + 1
      BY <1>2, <1>7, <1>8, <2>1
    <2>3. r[1] = f[m]
      <3>1. 1 \in 1..(Len(one) + Len(left)) /\ 1 <= Len(one)
        BY <1>2, <1>7, <1>8
      <3> QED  BY <1>8, <2>1, <3>1
    <2>4. ASSUME NEW k \in 1..n  PROVE  r[k + 1] = left[k]
      <3>1. k + 1 \in 1..(Len(one) + Len(left)) /\ ~(k + 1 <= Len(one)) /\ (k + 1) - Len(one) = k
        BY <1>2, <1>7, <1>8
      <3> QED  BY <2>1, <3>1
    <2> QED  BY <2>1, <2>2, <2>3, <2>4
  <1> HIDE DEF r
  <1>10. ASSUME NEW i \in more  PROVE  r[KeptOf(i, more)] = f[i]
    <2>1. CASE i = m
      BY <1>5, <1>9, <2>1
    <2>2. CASE i \in keep
      BY <1>6, <1>7, <1>9, <2>2
    <2> QED  BY <2>1, <2>2 DEF more
  <1>11. InPlace(r, f, more, S)
    BY <1>4, <1>9, <1>10 DEF InPlace
  <1>12. Elements(f, more, S)
    BY DEF more
  <1>13. r = Kept(f, more)
    BY <1>3, <1>11, <1>12, KeptOnly
  <1> QED  BY <1>13 DEF r, left, more, one

-----------------------------------------------------------------------------
(* What undo and redo would show (Past, Future), of a line whose entries    *)
(* recount its texts.                                                       *)
Views == [text : Text, position : Int]

BeforeAll(l) == [i \in 1..l.applied |-> Before(l, i)]
AfterAll(l) == [i \in (l.applied + 1)..Len(l.edits) |-> After(l, i)]

LEMMA BeforeIs ==
  ASSUME NEW l, LineOK(l), NEW texts, Recounts(texts, l), NEW i \in 1..l.applied
  PROVE  /\ Before(l, i) = Shown(texts[i - 1], l.edits[i].before)
         /\ Before(l, i) \in Views
  <1> DEFINE n == l.applied
             es == l.edits
  <1>1. /\ n \in Nat /\ Len(l.edits) \in Nat /\ n <= Len(l.edits)
        /\ \A k \in 1..Len(l.edits) : l.edits[k] \in Entries
    BY LineTypes DEF LineOK
  <1>2. /\ texts \in [0..Len(l.edits) -> Text] /\ texts[n] = l.text
        /\ \A k \in 1..Len(l.edits) : Makes(l.edits[k], texts[k - 1], texts[k])
    BY DEF Recounts
  <1>3. ASSUME NEW k \in i..n  PROVE  texts[k - 1] = Apply(texts[k], InverseEdit(l.edits[k]))
    <2>1. k \in 1..Len(l.edits) /\ k - 1 \in 0..Len(l.edits)
      BY <1>1
    <2> QED  BY <1>1, <1>2, <2>1, MakesLemma
  <1>4. Revert(l.text, l.edits, i, n) = texts[i - 1]
    <2>1. i \in Nat /\ 1 <= i /\ i <= n + 1
      BY <1>1
    <2>2. n \in Nat /\ \A k \in i..n : texts[k - 1] = Apply(texts[k], InverseEdit(es[k]))
      BY <1>1, <1>3
    <2> HIDE DEF n, es
    <2>3. Revert(texts[n], es, i, n) = texts[i - 1]
      BY <2>1, <2>2, RevertLemma
    <2>4. Revert(texts[n], l.edits, i, n) = texts[i - 1]
      BY <2>3 DEF es
    <2> QED  BY <1>2, <2>4
  <1>5. Before(l, i) = Shown(texts[i - 1], l.edits[i].before)
    BY <1>4 DEF Before
  <1>6. texts[i - 1] \in Text /\ l.edits[i].before \in Int
    <2>1. i \in 1..Len(l.edits) /\ i - 1 \in 0..Len(l.edits)
      BY <1>1
    <2>2. l.edits[i].before \in Int
      BY <1>1, <2>1, EntryTypes
    <2> QED  BY <1>2, <2>1, <2>2
  <1> QED  BY <1>5, <1>6 DEF Shown, Views

LEMMA AfterIs ==
  ASSUME NEW l, LineOK(l), NEW texts, Recounts(texts, l), NEW i \in (l.applied + 1)..Len(l.edits)
  PROVE  /\ After(l, i) = Shown(texts[i], l.edits[i].undone)
         /\ After(l, i) \in Views
  <1> DEFINE n == l.applied
             m == l.applied + 1
             es == l.edits
  <1>1. /\ n \in Nat /\ Len(l.edits) \in Nat /\ n <= Len(l.edits)
        /\ \A k \in 1..Len(l.edits) : l.edits[k] \in Entries
    BY LineTypes DEF LineOK
  <1>2. /\ texts \in [0..Len(l.edits) -> Text] /\ texts[n] = l.text
        /\ \A k \in 1..Len(l.edits) : Makes(l.edits[k], texts[k - 1], texts[k])
    BY DEF Recounts
  <1>3. ASSUME NEW k \in m..i  PROVE  texts[k] = Apply(texts[k - 1], l.edits[k])
    <2>1. k \in 1..Len(l.edits) /\ k - 1 \in 0..Len(l.edits)
      BY <1>1
    <2> QED  BY <1>2, <2>1 DEF Makes
  <1>4. Replay(l.text, l.edits, m, i) = texts[i]
    <2>1. m \in Nat /\ i \in Nat /\ 1 <= m /\ m <= i + 1 /\ n = m - 1
      BY <1>1
    <2>2. Forward(texts, es, m, i)
      BY <1>3 DEF Forward
    <2> HIDE DEF n, m, es
    <2>3. Replay(texts[n], es, m, i) = texts[i]
      BY <2>1, <2>2, ReplayLemma
    <2> QED  BY <1>2, <2>3 DEF es
  <1>5. After(l, i) = Shown(texts[i], l.edits[i].undone)
    BY <1>4 DEF After
  <1>6. texts[i] \in Text /\ l.edits[i].undone \in Int
    <2>1. i \in 1..Len(l.edits) /\ i \in 0..Len(l.edits)
      BY <1>1
    <2> QED  BY <1>1, <1>2, <2>1, EntryTypes
  <1> QED  BY <1>5, <1>6 DEF Shown, Views

LEMMA PastIs ==
  ASSUME NEW l, LineOK(l)
  PROVE  /\ l.applied \in Nat /\ FirstOnes(l) \in SUBSET (1..l.applied)
         /\ Elements(BeforeAll(l), FirstOnes(l), Views)
         /\ Past(l) = Kept(BeforeAll(l), FirstOnes(l)) /\ Past(l) \in Seq(Views)
         /\ \A i \in 1..l.applied : BeforeAll(l)[i] = Before(l, i) /\ Before(l, i) \in Views
  <1>1. PICK texts : Recounts(texts, l)
    BY DEF LineOK
  <1>2. l.applied \in Nat
    BY LineTypes DEF LineOK
  <1>3. FirstOnes(l) \in SUBSET (1..l.applied)
    BY DEF FirstOnes
  <1>4. \A i \in 1..l.applied : BeforeAll(l)[i] = Before(l, i) /\ Before(l, i) \in Views
    BY <1>1, BeforeIs DEF BeforeAll
  <1>5. Elements(BeforeAll(l), FirstOnes(l), Views)
    BY <1>3, <1>4 DEF Elements
  <1>6. Past(l) = Kept(BeforeAll(l), FirstOnes(l))
    BY DEF Past, BeforeAll
  <1>7. InPlace(Past(l), BeforeAll(l), FirstOnes(l), Views)
    BY <1>2, <1>3, <1>5, <1>6, KeptIs
  <1> QED  BY <1>2, <1>3, <1>4, <1>5, <1>6, <1>7 DEF InPlace

LEMMA FutureIs ==
  ASSUME NEW l, LineOK(l)
  PROVE  /\ Len(l.edits) \in Nat /\ LastOnes(l) \in SUBSET (1..Len(l.edits))
         /\ LastOnes(l) \subseteq (l.applied + 1)..Len(l.edits)
         /\ Elements(AfterAll(l), LastOnes(l), Views)
         /\ Future(l) = Kept(AfterAll(l), LastOnes(l)) /\ Future(l) \in Seq(Views)
         /\ \A i \in (l.applied + 1)..Len(l.edits) :
              AfterAll(l)[i] = After(l, i) /\ After(l, i) \in Views
  <1>1. PICK texts : Recounts(texts, l)
    BY DEF LineOK
  <1>2. l.applied \in Nat /\ Len(l.edits) \in Nat
    BY LineTypes DEF LineOK
  <1>3. LastOnes(l) \subseteq (l.applied + 1)..Len(l.edits)
    BY DEF LastOnes
  <1>4. LastOnes(l) \in SUBSET (1..Len(l.edits))
    BY <1>2, <1>3
  <1>5. \A i \in (l.applied + 1)..Len(l.edits) : AfterAll(l)[i] = After(l, i) /\ After(l, i) \in Views
    BY <1>1, AfterIs DEF AfterAll
  <1>6. Elements(AfterAll(l), LastOnes(l), Views)
    BY <1>3, <1>5 DEF Elements
  <1>7. Future(l) = Kept(AfterAll(l), LastOnes(l))
    BY DEF Future, AfterAll
  <1>8. InPlace(Future(l), AfterAll(l), LastOnes(l), Views)
    BY <1>2, <1>4, <1>6, <1>7, KeptIs
  <1> QED  BY <1>2, <1>3, <1>4, <1>5, <1>6, <1>7, <1>8 DEF InPlace

(* Two lines that undo would take to the same views, and one that it would  *)
(* take to one view more.                                                   *)
LEMMA SamePast ==
  ASSUME NEW l, LineOK(l), NEW r, LineOK(r), FirstOnes(r) = FirstOnes(l),
         \A i \in FirstOnes(l) : Before(r, i) = Before(l, i)
  PROVE  Past(r) = Past(l)
  <1> DEFINE keep == FirstOnes(l)
             f == BeforeAll(l)
             g == BeforeAll(r)
             n == l.applied
  <1>1. /\ n \in Nat /\ keep \in SUBSET (1..n) /\ Elements(f, keep, Views)
        /\ Past(l) = Kept(f, keep) /\ Past(r) = Kept(g, keep)
        /\ \A i \in keep : g[i] = f[i]
    BY PastIs
  <1> HIDE DEF n, keep, f, g
  <1>2. Kept(g, keep) = Kept(f, keep)
    BY <1>1, KeptSame
  <1> QED  BY <1>1, <1>2

LEMMA LongerPast ==
  ASSUME NEW l, LineOK(l), NEW r, LineOK(r), NEW m \in 1..r.applied,
         FirstOnes(r) = FirstOnes(l) \cup {m},
         \A i \in FirstOnes(l) : i < m /\ Before(r, i) = Before(l, i)
  PROVE  Past(r) = Append(Past(l), Before(r, m))
  <1> DEFINE keep == FirstOnes(l)
             f == BeforeAll(l)
             g == BeforeAll(r)
             n == l.applied
  <1>1. /\ n \in Nat /\ keep \in SUBSET (1..n) /\ Elements(f, keep, Views)
        /\ Past(l) = Kept(f, keep)
    BY PastIs
  <1>2. /\ m \in Nat /\ m >= 1 /\ g[m] = Before(r, m)
        /\ Past(r) = Kept(g, keep \cup {m}) /\ Elements(g, keep \cup {m}, Views)
        /\ \A i \in keep : i < m /\ g[i] = f[i]
    <2>1. /\ r.applied \in Nat /\ Past(r) = Kept(g, FirstOnes(r)) /\ Elements(g, FirstOnes(r), Views)
          /\ FirstOnes(r) \in SUBSET (1..r.applied)
          /\ \A i \in 1..r.applied : g[i] = Before(r, i)
      BY PastIs
    <2>2. \A i \in keep : i \in 1..r.applied /\ f[i] = Before(l, i)
      BY <2>1, PastIs
    <2> QED  BY <2>1, <2>2
  <1> HIDE DEF n, keep, f, g
  <1>3. Kept(g, keep) = Kept(f, keep)
    BY <1>1, <1>2, KeptSame
  <1>4. Kept(g, keep \cup {m}) = Append(Kept(g, keep), g[m])
    <2>1. n \in Nat /\ keep \in SUBSET (1..n) /\ m \in Nat /\ m >= 1
      BY <1>1, <1>2
    <2>2. \A i \in keep : i < m
      BY <1>2
    <2>3. Elements(g, keep \cup {m}, Views)
      BY <1>2
    <2> QED  BY ONLY <2>1, <2>2, <2>3, KeptLast
  <1> QED  BY <1>1, <1>2, <1>3, <1>4

LEMMA SameFuture ==
  ASSUME NEW l, LineOK(l), NEW r, LineOK(r), LastOnes(r) = LastOnes(l),
         \A i \in LastOnes(l) : After(r, i) = After(l, i)
  PROVE  Future(r) = Future(l)
  <1> DEFINE keep == LastOnes(l)
             f == AfterAll(l)
             g == AfterAll(r)
             n == Len(l.edits)
  <1>1. /\ n \in Nat /\ keep \in SUBSET (1..n) /\ Elements(f, keep, Views)
        /\ Future(l) = Kept(f, keep) /\ Future(r) = Kept(g, keep)
        /\ \A i \in keep : g[i] = f[i]
    BY FutureIs
  <1> HIDE DEF n, keep, f, g
  <1>2. Kept(g, keep) = Kept(f, keep)
    BY <1>1, KeptSame
  <1> QED  BY <1>1, <1>2

LEMMA LongerFuture ==
  ASSUME NEW l, LineOK(l), NEW r, LineOK(r), NEW m \in (r.applied + 1)..Len(r.edits),
         LastOnes(r) = {m} \cup LastOnes(l),
         \A i \in LastOnes(l) : i > m /\ After(r, i) = After(l, i)
  PROVE  Future(r) = <<After(r, m)>> \o Future(l)
  <1> DEFINE keep == LastOnes(l)
             f == AfterAll(l)
             g == AfterAll(r)
             n == Len(r.edits)
  <1>1. Elements(f, keep, Views) /\ Future(l) = Kept(f, keep)
    BY FutureIs
  <1>2. /\ n \in Nat /\ m \in 1..n /\ g[m] = After(r, m) /\ keep \in SUBSET (1..n)
        /\ Future(r) = Kept(g, {m} \cup keep) /\ Elements(g, {m} \cup keep, Views)
        /\ \A i \in keep : i > m /\ g[i] = f[i]
    <2>1. /\ n \in Nat /\ Future(r) = Kept(g, LastOnes(r)) /\ Elements(g, LastOnes(r), Views)
          /\ LastOnes(r) \in SUBSET (1..n) /\ LastOnes(r) \subseteq (r.applied + 1)..n
          /\ \A i \in (r.applied + 1)..n : g[i] = After(r, i)
      BY FutureIs
    <2>2. \A i \in keep : f[i] = After(l, i)
      BY FutureIs
    <2> QED  BY <2>1, <2>2
  <1> HIDE DEF n, keep, f, g
  <1>3. Kept(g, keep) = Kept(f, keep)
    BY <1>1, <1>2, KeptSame
  <1>4. Kept(g, {m} \cup keep) = <<g[m]>> \o Kept(g, keep)
    BY <1>2, KeptFirst
  <1> QED  BY <1>1, <1>2, <1>3, <1>4

LEMMA NoFuture ==
  ASSUME NEW l, LineOK(l), l.applied = Len(l.edits)
  PROVE  Future(l) = <<>> /\ LastOnes(l) = {}
  <1>1. LastOnes(l) = {}
    <2>1. Len(l.edits) \in Nat
      BY LineTypes DEF LineOK
    <2> QED  BY <2>1 DEF LastOnes
  <1> QED  BY <1>1, KeptNone DEF Future

LEMMA SomePast ==
  ASSUME NEW l, LineOK(l), l.applied # 0
  PROVE  Past(l) # <<>>
  <1> DEFINE first == FirstOfGroup(l.edits, l.applied)
  <1>1. l.applied \in Nat /\ l.applied >= 1
    BY LineTypes DEF LineOK
  <1>2. first \in 1..l.applied /\ (first > 1 => ~SameGroup(l.edits[first - 1], l.edits[first]))
    BY <1>1, FirstLemma
  <1> HIDE DEF first
  <1>3. first \in FirstOnes(l)
    BY <1>2 DEF FirstOnes
  <1> QED  BY <1>3, PastIs, KeptSome

-----------------------------------------------------------------------------
(* What holds of groups: undo and redo stop where one ends, none has the    *)
(* number of one to come, and the group that is open has entries only where *)
(* the last entry is applied.                                               *)
Whole(l) ==
  /\ l.applied # 0 /\ l.applied # Len(l.edits) =>
       ~SameGroup(l.edits[l.applied], l.edits[l.applied + 1])
  /\ \A k \in 1..Len(l.edits) : l.edits[k].group <= l.group_id
  /\ l.group_level # None /\ l.applied # Len(l.edits) =>
       \A k \in 1..Len(l.edits) : l.edits[k].group < l.group_id

View(l) == [now |-> Now(l), past |-> Past(l), future |-> Future(l)]

(* A step that the promise allows, or none. *)
Kind(l, r) == Promise!Step(View(l), View(r)) \/ View(r) = View(l)

(* A change that can be undone, by itself or with the last one. *)
Edited(l, r) == Promise!Change(View(l), View(r)) \/ Promise!Extend(View(l), View(r))

LEMMA ViewFields ==
  ASSUME NEW l
  PROVE  View(l).now = Now(l) /\ View(l).past = Past(l) /\ View(l).future = Future(l)
  BY DEF View

(* Lines that show the same text with the same entries. *)
LEMMA SameView ==
  ASSUME NEW l, LineOK(l), NEW r, LineOK(r),
         r.text = l.text, r.edits = l.edits, r.applied = l.applied
  PROVE  Past(r) = Past(l) /\ Future(r) = Future(l)
  <1>1. FirstOnes(r) = FirstOnes(l) /\ LastOnes(r) = LastOnes(l)
    BY DEF FirstOnes, LastOnes
  <1>2. ASSUME NEW i  PROVE  Before(r, i) = Before(l, i) /\ After(r, i) = After(l, i)
    BY DEF Before, After
  <1> QED  BY <1>1, <1>2, SamePast, SameFuture

(* Entries that are the same tell the same texts, back from one that is.    *)
LEMMA SameTexts ==
  ASSUME NEW l, LineOK(l), NEW r, LineOK(r),
         NEW told, Recounts(told, l), NEW told2, Recounts(told2, r),
         NEW m \in Nat, m <= Len(l.edits), m <= Len(r.edits),
         \A k \in 1..m : r.edits[k] = l.edits[k], told2[m] = told[m]
  PROVE  \A k \in 0..m : told2[k] = told[k]
  <1> DEFINE good == {j \in Nat : j <= m => told2[m - j] = told[m - j]}
  <1>1. /\ Len(l.edits) \in Nat /\ Len(r.edits) \in Nat
        /\ \A k \in 1..Len(l.edits) : l.edits[k] \in Entries
        /\ told \in [0..Len(l.edits) -> Text] /\ told2 \in [0..Len(r.edits) -> Text]
        /\ \A k \in 1..Len(l.edits) : Makes(l.edits[k], told[k - 1], told[k])
        /\ \A k \in 1..Len(r.edits) : Makes(r.edits[k], told2[k - 1], told2[k])
    BY LineTypes DEF LineOK, Recounts
  <1>2. 0 \in good
    OBVIOUS
  <1>3. ASSUME NEW j \in Nat, j >= 0, j \in good  PROVE  j + 1 \in good
    <2> DEFINE k == m - j
    <2>1. CASE j + 1 <= m
      <3>1. k \in 1..m /\ k \in 1..Len(l.edits) /\ k \in 1..Len(r.edits)
            /\ k - 1 \in 0..Len(l.edits) /\ k - 1 \in 0..Len(r.edits) /\ m - (j + 1) = k - 1
        BY <1>1, <2>1
      <3>2. told2[k] = told[k]
        BY <1>3, <2>1
      <3> HIDE DEF k
      <3> DEFINE e == l.edits[k]
      <3>3. /\ e \in Entries /\ r.edits[k] = e
            /\ told[k - 1] \in Text /\ Makes(e, told[k - 1], told[k])
            /\ told2[k - 1] \in Text /\ Makes(e, told2[k - 1], told[k])
        BY <1>1, <3>1, <3>2
      <3> HIDE DEF e
      <3>4. Apply(told[k], InverseEdit(e)) = told[k - 1]
        BY <3>3, MakesLemma
      <3>5. Apply(told[k], InverseEdit(e)) = told2[k - 1]
        BY <3>3, MakesLemma
      <3>6. told2[m - (j + 1)] = told[m - (j + 1)]
        BY <3>1, <3>4, <3>5
      <3> QED  BY <3>6
    <2>2. CASE ~(j + 1 <= m)
      BY <2>2
    <2> QED  BY <2>1, <2>2
  <1>4. \A j \in Nat : j >= 0 => j \in good
    <2>1. good \subseteq Nat /\ 0 \in Nat
      OBVIOUS
    <2> HIDE DEF good
    <2> QED  BY <1>2, <1>3, <2>1, Upwards
  <1>5. ASSUME NEW k \in 0..m  PROVE  told2[k] = told[k]
    <2>1. m - k \in Nat /\ m - k >= 0 /\ m - k <= m /\ m - (m - k) = k
      OBVIOUS
    <2> QED  BY <1>4, <2>1
  <1> QED  BY <1>5

(* An entry pushed: what it changed is what undo would show next, unless it *)
(* joins the group of the entry before it.                                  *)
LEMMA PushedView ==
  ASSUME NEW l, LineOK(l), Whole(l), NEW a \in 0..Len(l.text), NEW b \in a..Len(l.text),
         NEW new \in Text, a = b => l.position = a
  PROVE  LET r == Pushed(l, Edit(a, b, new)) IN
         /\ LineOK(r) /\ Whole(r) /\ r.applied = Len(r.edits) /\ Future(r) = <<>>
         /\ r.group_level = l.group_level
         /\ l.group_level = None => Past(r) = Append(Past(l), Now(l))
         /\ Edited(l, r)
  <1> DEFINE edit == Edit(a, b, new)
             n == l.applied
             r == Pushed(l, edit)
             group == IF l.group_level = None THEN None ELSE l.group_id
  <1>1. /\ LineOK(r) /\ r.group_level = l.group_level /\ r.applied = n + 1 /\ Len(r.edits) = n + 1
        /\ r.edits[n + 1].before = l.position /\ r.edits[n + 1].group = group
        /\ Apply(r.text, InverseEdit(r.edits[n + 1])) = l.text
        /\ r.group_id = l.group_id
        /\ \A k \in 1..n : r.edits[k] = l.edits[k]
    <2>1. /\ LineOK(r) /\ r.group_level = l.group_level /\ r.applied = l.applied + 1
          /\ Len(r.edits) = l.applied + 1
          /\ r.edits[r.applied].before = l.position
          /\ Apply(r.text, InverseEdit(r.edits[r.applied])) = l.text
          /\ r.edits[r.applied].group = IF l.group_level = None THEN None ELSE l.group_id
          /\ r.group_id = l.group_id
          /\ \A k \in 1..l.applied : r.edits[k] = l.edits[k]
      BY PushedLemma
    <2> HIDE DEF r
    <2> QED  BY <2>1
  <1> HIDE DEF r, edit
  <1>2. /\ n \in Nat /\ Len(l.edits) \in Nat /\ n <= Len(l.edits) /\ l.group_id \in Nat
        /\ \A k \in 1..Len(l.edits) : l.edits[k] \in Entries
        /\ \A k \in 1..Len(r.edits) : r.edits[k] \in Entries
    BY <1>1, LineTypes DEF LineOK
  <1>3. PICK told : Recounts(told, l)
    BY DEF LineOK
  <1>4. PICK told2 : Recounts(told2, r)
    BY <1>1 DEF LineOK
  <1>5. \A k \in 0..n : told2[k] = told[k]
    <2>1. n <= Len(r.edits)
      BY <1>1, <1>2
    <2>2. told2[n] = l.text
      <3> DEFINE m == n + 1
                 e == r.edits[m]
      <3>1. m \in 1..Len(r.edits) /\ m - 1 = n /\ n \in 0..Len(r.edits) /\ r.applied = m
        BY <1>1, <1>2
      <3>2. /\ e \in Entries /\ told2[n] \in Text /\ Makes(e, told2[n], told2[m])
            /\ told2[m] = r.text
        BY <1>2, <1>4, <3>1 DEF Recounts
      <3>3. Apply(r.text, InverseEdit(e)) = l.text
        BY <1>1
      <3> HIDE DEF m, e
      <3>4. Apply(told2[m], InverseEdit(e)) = told2[n]
        BY <3>2, MakesLemma
      <3> QED  BY <3>2, <3>3, <3>4
    <2>3. told[n] = l.text
      BY <1>3 DEF Recounts
    <2> HIDE DEF n
    <2> QED  BY <1>1, <1>2, <1>3, <1>4, <2>1, <2>2, <2>3, SameTexts
  <1>6. \A i \in 1..n : Before(r, i) = Before(l, i)
    <2> SUFFICES ASSUME NEW i \in 1..n  PROVE  Before(r, i) = Before(l, i)
      OBVIOUS
    <2>1. i \in 1..r.applied /\ i - 1 \in 0..n /\ r.edits[i] = l.edits[i]
      BY <1>1, <1>2
    <2>2. Before(r, i) = Shown(told2[i - 1], r.edits[i].before)
      BY <1>1, <1>4, <2>1, BeforeIs
    <2>3. Before(l, i) = Shown(told[i - 1], l.edits[i].before)
      BY <1>3, BeforeIs
    <2> QED  BY <1>5, <2>1, <2>2, <2>3
  <1>7. Before(r, n + 1) = Now(l)
    <2>1. n + 1 \in 1..r.applied /\ (n + 1) - 1 = n /\ n \in 0..n
      BY <1>1, <1>2
    <2>2. Before(r, n + 1) = Shown(told2[(n + 1) - 1], r.edits[n + 1].before)
      BY <1>1, <1>4, <2>1, BeforeIs
    <2>3. told2[n] = l.text
      BY <1>3, <1>5, <2>1 DEF Recounts
    <2> QED  BY <1>1, <2>1, <2>2, <2>3 DEF Now
  <1>8. Future(r) = <<>>
    BY <1>1, NoFuture
  <1>9. Whole(r)
    <2>1. ASSUME NEW k \in 1..Len(r.edits)  PROVE  r.edits[k].group <= r.group_id
      <3>1. CASE k = n + 1
        BY <1>1, <1>2, <3>1 DEF None
      <3>2. CASE k # n + 1
        <4>1. k \in 1..n /\ k \in 1..Len(l.edits)
          BY <1>1, <1>2, <3>2
        <4> QED  BY <1>1, <4>1 DEF Whole
      <3> QED  BY <3>1, <3>2
    <2> QED  BY <1>1, <2>1 DEF Whole
  <1> DEFINE joins == n # 0 /\ SameGroup(l.edits[n], r.edits[n + 1])
  <1>10. CASE ~joins
    <2>1. FirstOnes(r) = FirstOnes(l) \cup {n + 1}
      <3>1. ASSUME NEW i \in 1..n
            PROVE  (i > 1 => ~SameGroup(r.edits[i - 1], r.edits[i])) <=>
                   (i > 1 => ~SameGroup(l.edits[i - 1], l.edits[i]))
        <4>1. i > 1 => i - 1 \in 1..n
          BY <1>2
        <4> QED  BY <1>1, <4>1
      <3>2. n + 1 > 1 => ~SameGroup(r.edits[(n + 1) - 1], r.edits[n + 1])
        <4>1. n + 1 > 1 => n \in 1..n /\ n # 0 /\ (n + 1) - 1 = n
          BY <1>2
        <4> QED  BY <1>1, <1>10, <4>1
      <3>3. 1..(n + 1) = (1..n) \cup {n + 1} /\ n + 1 \notin 1..n
        BY <1>2
      <3> HIDE DEF joins
      <3> QED  BY <1>1, <3>1, <3>2, <3>3 DEF FirstOnes
    <2>2. ASSUME NEW i \in FirstOnes(l)  PROVE  i < n + 1 /\ Before(r, i) = Before(l, i)
      <3>1. i \in 1..n
        BY DEF FirstOnes
      <3> QED  BY <1>2, <1>6, <3>1
    <2>3. n + 1 \in 1..r.applied
      BY <1>1, <1>2
    <2> DEFINE m == n + 1
    <2>4. Past(r) = Append(Past(l), Before(r, m))
      <3>1. /\ m \in 1..r.applied /\ FirstOnes(r) = FirstOnes(l) \cup {m}
            /\ \A i \in FirstOnes(l) : i < m /\ Before(r, i) = Before(l, i)
        BY <2>1, <2>2, <2>3
      <3> HIDE DEF m, n
      <3> QED  BY <1>1, <3>1, LongerPast
    <2>5. Past(r) = Append(Past(l), Now(l))
      BY <1>7, <2>4
    <2>6. Edited(l, r)
      BY <1>8, <2>5, ViewFields DEF Edited, Promise!Change
    <2> QED  BY <1>1, <1>8, <1>9, <2>5, <2>6 DEF r, edit
  <1>11. CASE joins
    <2>1. l.group_level # None /\ l.edits[n].group = l.group_id /\ n \in 1..Len(l.edits)
      BY <1>1, <1>2, <1>11 DEF SameGroup
    <2>2. l.applied = Len(l.edits)
      <3>1. l.edits[n].group < l.group_id => l.group_id # l.edits[n].group
        BY <1>2, <2>1
      <3> QED  BY <2>1, <3>1 DEF Whole
    <2>3. FirstOnes(r) = FirstOnes(l)
      <3>1. ASSUME NEW i \in 1..n
            PROVE  (i > 1 => ~SameGroup(r.edits[i - 1], r.edits[i])) <=>
                   (i > 1 => ~SameGroup(l.edits[i - 1], l.edits[i]))
        <4>1. i > 1 => i - 1 \in 1..n
          BY <1>2
        <4> QED  BY <1>1, <4>1
      <3>2. ~(n + 1 > 1 => ~SameGroup(r.edits[(n + 1) - 1], r.edits[n + 1]))
        <4>1. n + 1 > 1 /\ n \in 1..n /\ (n + 1) - 1 = n
          BY <1>2, <1>11
        <4> QED  BY <1>1, <1>11, <4>1
      <3>3. 1..(n + 1) = (1..n) \cup {n + 1} /\ n + 1 \notin 1..n
        BY <1>2
      <3> HIDE DEF joins
      <3> QED  BY <1>1, <3>1, <3>2, <3>3 DEF FirstOnes
    <2>4. Past(r) = Past(l)
      <3>1. ASSUME NEW i \in FirstOnes(l)  PROVE  Before(r, i) = Before(l, i)
        <4>1. i \in 1..n
          BY DEF FirstOnes
        <4> QED  BY <1>6, <4>1
      <3> QED  BY <1>1, <2>3, <3>1, SamePast
    <2>5. Past(l) # <<>> /\ Future(l) = <<>>
      BY <1>11, <2>2, SomePast, NoFuture
    <2>6. Edited(l, r)
      BY <1>8, <2>4, <2>5, ViewFields DEF Edited, Promise!Extend
    <2> QED  BY <1>1, <1>8, <1>9, <2>1, <2>6 DEF r, edit
  <1> QED  BY <1>10, <1>11

-----------------------------------------------------------------------------
LEMMA Appended ==
  ASSUME NEW S, NEW p \in Seq(S), NEW x \in S
  PROVE  LET r == Append(p, x) IN
         r # <<>> /\ Last(r) = x /\ Front(r) = p /\ Len(r) = Len(p) + 1
  <1> DEFINE r == Append(p, x)
             n == Len(p)
             f == Front(r)
  <1>1. /\ n \in Nat /\ r \in Seq(S) /\ r # <<>> /\ Len(r) = n + 1 /\ r[n + 1] = x
        /\ \A i \in 1..n : r[i] = p[i]
    BY AppendProperties, LenProperties
  <1> HIDE DEF r
  <1>2. Last(r) = x
    BY <1>1 DEF Last
  <1>3. f = SubSeq(r, 1, n)
    <2>1. Len(r) - 1 = n
      BY <1>1
    <2> QED  BY <2>1 DEF Front
  <1>4. f \in Seq(S) /\ Len(f) = n /\ \A i \in 1..n : f[i] = r[i]
    BY <1>1, <1>3
  <1> HIDE DEF f
  <1>5. \A i \in 1..n : f[i] = p[i]
    BY <1>1, <1>4
  <1>6. f = p
    <2> HIDE DEF n
    <2>1. Len(f) = Len(p) /\ \A i \in 1..Len(f) : f[i] = p[i]
      BY <1>4, <1>5 DEF n
    <2> QED  BY <1>4, <2>1, SeqEqual
  <1> QED  BY <1>1, <1>2, <1>6 DEF r, f

LEMMA Preceded ==
  ASSUME NEW S, NEW q \in Seq(S), NEW x \in S
  PROVE  LET r == <<x>> \o q IN r # <<>> /\ Head(r) = x /\ Tail(r) = q
  <1> DEFINE one == <<x>>
             n == Len(q)
             r == one \o q
             t == Tail(r)
  <1>1. n \in Nat /\ one \in Seq(S) /\ Len(one) = 1 /\ one[1] = x
    BY LenProperties
  <1> HIDE DEF one
  <1>2. /\ r \in Seq(S) /\ Len(r) = Len(one) + Len(q)
        /\ \A i \in 1..(Len(one) + Len(q)) :
             r[i] = IF i <= Len(one) THEN one[i] ELSE q[i - Len(one)]
    BY <1>1, ConcatProperties
  <1> HIDE DEF r
  <1>3. Len(r) = n + 1 /\ r[1] = x
    <2>1. Len(r) = n + 1 /\ 1 \in 1..(Len(one) + Len(q)) /\ 1 <= Len(one)
      BY <1>1, <1>2
    <2> QED  BY <1>1, <1>2, <2>1
  <1>4. r # <<>>
    BY <1>1, <1>3
  <1>5. Head(r) = x
    BY <1>2, <1>3, <1>4
  <1>6. t \in Seq(S) /\ Len(t) = n /\ \A i \in 1..n : t[i] = r[i + 1]
    BY <1>1, <1>2, <1>3, <1>4
  <1> HIDE DEF t
  <1>7. ASSUME NEW i \in 1..n  PROVE  t[i] = q[i]
    <2>1. i + 1 \in 1..(Len(one) + Len(q)) /\ ~(i + 1 <= Len(one)) /\ (i + 1) - Len(one) = i
      BY <1>1
    <2> QED  BY <1>2, <1>6, <2>1
  <1>8. t = q
    <2>1. Len(t) = Len(q) /\ \A i \in 1..Len(t) : t[i] = q[i]
      BY <1>6, <1>7
    <2> QED  BY <1>6, <2>1, SeqEqual
  <1> QED  BY <1>4, <1>5, <1>8 DEF r, t, one

LEMMA NowView ==
  ASSUME NEW l, LineOK(l)
  PROVE  Now(l) \in Views /\ Now(l).text = l.text /\ Now(l).position = l.position
  BY LineTypes DEF LineOK, Now, Shown, Views

LEMMA EndGroupView ==
  ASSUME NEW l, LineOK(l), Whole(l)
  PROVE  LET r == EndGroup(l) IN LineOK(r) /\ Whole(r) /\ View(r) = View(l)
  <1> DEFINE r == EndGroup(l)
  <1>1. /\ LineOK(r) /\ r.text = l.text /\ r.position = l.position /\ r.edits = l.edits
        /\ r.applied = l.applied /\ r.group_level = None /\ r.group_id = l.group_id
    BY EndGroupLemma
  <1> HIDE DEF r
  <1>2. Past(r) = Past(l) /\ Future(r) = Future(l)
    BY <1>1, SameView
  <1>3. Now(r) = Now(l)
    BY <1>1 DEF Now
  <1>4. Whole(r)
    BY <1>1 DEF Whole
  <1> QED  BY <1>1, <1>2, <1>3, <1>4 DEF View, r

LEMMA BeginGroupView ==
  ASSUME NEW l, LineOK(l), Whole(l)
  PROVE  LET r == BeginGroup(l) IN LineOK(r) /\ Whole(r) /\ View(r) = View(l)
  <1> DEFINE r == BeginGroup(l)
  <1>1. /\ LineOK(r) /\ r.text = l.text /\ r.position = l.position /\ r.edits = l.edits
        /\ r.applied = l.applied
        /\ r = l \/ r.group_id = l.group_id + 1
    BY BeginGroupLemma
  <1> HIDE DEF r
  <1>2. Past(r) = Past(l) /\ Future(r) = Future(l)
    BY <1>1, SameView
  <1>3. Now(r) = Now(l)
    BY <1>1 DEF Now
  <1>4. Whole(r)
    <2>1. l.group_id \in Nat /\ \A k \in 1..Len(l.edits) : l.edits[k] \in Entries
      BY LineTypes DEF LineOK
    <2>2. CASE r = l
      BY <2>2
    <2>3. CASE r.group_id = l.group_id + 1
      <3>1. ASSUME NEW k \in 1..Len(r.edits)
            PROVE  r.edits[k].group <= r.group_id /\ r.edits[k].group < r.group_id
        <4>1. r.edits[k].group \in Int /\ r.edits[k].group <= l.group_id
          BY <1>1, <2>1, EntryTypes DEF Whole
        <4> QED  BY <2>1, <2>3, <4>1
      <3> QED  BY <1>1, <3>1 DEF Whole
    <2> QED  BY <1>1, <2>2, <2>3
  <1> QED  BY <1>1, <1>2, <1>3, <1>4 DEF View, r

LEMMA SetPositionView ==
  ASSUME NEW l, LineOK(l), Whole(l), NEW p \in 0..Len(l.text)
  PROVE  LET r == SetPosition(l, p) IN
         /\ LineOK(r) /\ Whole(r) /\ r.applied = l.applied /\ r.edits = l.edits
         /\ Past(r) = Past(l) /\ Future(r) = Future(l)
         /\ Promise!Step(View(l), View(r))
  <1> DEFINE r == SetPosition(l, p)
  <1>1. /\ LineOK(r) /\ r.text = l.text /\ r.position = p /\ r.edits = l.edits
        /\ r.applied = l.applied /\ r.group_level = l.group_level /\ r.group_id = l.group_id
    BY SetPositionLemma
  <1> HIDE DEF r
  <1>2. Past(r) = Past(l) /\ Future(r) = Future(l)
    BY <1>1, SameView
  <1>3. Whole(r)
    BY <1>1 DEF Whole
  <1>4. Promise!Step(View(l), View(r))
    BY <1>1, <1>2, NowView, ViewFields DEF Promise!Step, Promise!MoveCursor
  <1> QED  BY <1>1, <1>2, <1>3, <1>4 DEF r

(* A character that joins the last entry. *)
LEMMA CoalescedView ==
  ASSUME NEW l, LineOK(l), Whole(l), NEW new \in Text, WantToCoalesce(l, new)
  PROVE  LET r == Coalesced(l, Edit(l.position, l.position, new)) IN
         LineOK(r) /\ Whole(r) /\ r.applied = Len(r.edits) /\ Promise!Step(View(l), View(r))
  <1> DEFINE n == l.applied
             r == Coalesced(l, Edit(l.position, l.position, new))
  <1>1. /\ LineOK(r) /\ r.group_level = l.group_level /\ r.group_id = l.group_id
        /\ n = Len(l.edits) /\ n >= 1 /\ r.applied = n /\ Len(r.edits) = n
        /\ \A k \in 1..n :
             /\ k # n => r.edits[k] = l.edits[k]
             /\ r.edits[k].before = l.edits[k].before
             /\ r.edits[k].group = l.edits[k].group
        /\ Apply(r.text, InverseEdit(r.edits[n])) = Apply(l.text, InverseEdit(l.edits[n]))
    <2>1. /\ LineOK(r) /\ r.group_level = l.group_level /\ r.group_id = l.group_id
          /\ l.applied = Len(l.edits) /\ l.applied >= 1
          /\ r.applied = l.applied /\ Len(r.edits) = Len(l.edits)
          /\ \A k \in 1..Len(l.edits) :
               /\ k # l.applied => r.edits[k] = l.edits[k]
               /\ r.edits[k].before = l.edits[k].before
               /\ r.edits[k].group = l.edits[k].group
          /\ Apply(r.text, InverseEdit(r.edits[r.applied])) =
               Apply(l.text, InverseEdit(l.edits[l.applied]))
      BY CoalescedLemma
    <2> HIDE DEF r
    <2> QED  BY <2>1
  <1> HIDE DEF r
  <1>2. /\ n \in Nat /\ \A k \in 1..n : l.edits[k] \in Entries /\ r.edits[k] \in Entries
    BY <1>1, LineTypes DEF LineOK
  <1>3. PICK told : Recounts(told, l)
    BY DEF LineOK
  <1>4. PICK told2 : Recounts(told2, r)
    BY <1>1 DEF LineOK
  <1>5. \A k \in 0..(n - 1) : told2[k] = told[k]
    <2> DEFINE m == n - 1
               e == l.edits[n]
               e2 == r.edits[n]
    <2>1. m \in Nat /\ m <= Len(l.edits) /\ m <= Len(r.edits) /\ n \in 1..n /\ m \in 0..n
      BY <1>1, <1>2
    <2>2. /\ e \in Entries /\ e2 \in Entries /\ told[m] \in Text /\ told2[m] \in Text
          /\ Makes(e, told[m], told[n]) /\ told[n] = l.text
          /\ Makes(e2, told2[m], told2[n]) /\ told2[n] = r.text
          /\ Apply(r.text, InverseEdit(e2)) = Apply(l.text, InverseEdit(e))
      BY <1>1, <1>2, <1>3, <1>4, <2>1 DEF Recounts
    <2> HIDE DEF e, e2, m
    <2>3. Apply(told[n], InverseEdit(e)) = told[m]
      BY <2>2, MakesLemma
    <2>4. Apply(told2[n], InverseEdit(e2)) = told2[m]
      BY <2>2, MakesLemma
    <2>5. told2[m] = told[m]
      BY <2>2, <2>3, <2>4
    <2>6. \A k \in 1..m : r.edits[k] = l.edits[k]
      BY <1>1, <1>2 DEF m
    <2>7. \A k \in 0..m : told2[k] = told[k]
      BY <1>1, <1>3, <1>4, <2>1, <2>5, <2>6, SameTexts
    <2> QED  BY <2>7 DEF m
  <1>6. ASSUME NEW i \in 1..n  PROVE  Before(r, i) = Before(l, i)
    <2>1. i - 1 \in 0..(n - 1) /\ i \in 1..r.applied
      BY <1>1, <1>2
    <2>2. Before(r, i) = Shown(told2[i - 1], r.edits[i].before)
      BY <1>1, <1>4, <2>1, BeforeIs
    <2>3. Before(l, i) = Shown(told[i - 1], l.edits[i].before)
      BY <1>3, BeforeIs
    <2> QED  BY <1>1, <1>5, <2>1, <2>2, <2>3
  <1>7. FirstOnes(r) = FirstOnes(l)
    <2>1. ASSUME NEW i \in 1..n
          PROVE  (i > 1 => ~SameGroup(r.edits[i - 1], r.edits[i])) <=>
                 (i > 1 => ~SameGroup(l.edits[i - 1], l.edits[i]))
      <3>1. i > 1 => i - 1 \in 1..n
        BY <1>2
      <3> QED  BY <1>1, <3>1 DEF SameGroup
    <2> QED  BY <1>1, <2>1 DEF FirstOnes
  <1>8. Past(r) = Past(l)
    <2>1. ASSUME NEW i \in FirstOnes(l)  PROVE  Before(r, i) = Before(l, i)
      <3>1. i \in 1..n
        BY DEF FirstOnes
      <3> QED  BY <1>6, <3>1
    <2> QED  BY <1>1, <1>7, <2>1, SamePast
  <1>9. Past(l) # <<>> /\ Future(l) = <<>> /\ Future(r) = <<>>
    BY <1>1, SomePast, NoFuture
  <1>10. Promise!Step(View(l), View(r))
    BY <1>8, <1>9, ViewFields DEF Promise!Step, Promise!Extend
  <1>11. Whole(r)
    <2>1. \A k \in 1..n : r.edits[k].group <= r.group_id
      BY <1>1 DEF Whole
    <2> QED  BY <1>1, <2>1 DEF Whole
  <1> QED  BY <1>1, <1>10, <1>11 DEF r

-----------------------------------------------------------------------------
(* Undo takes back one group of entries, from the last one applied to the   *)
(* first of its group: what these made of the text is what redo would show  *)
(* first, and what undo would have shown is shown.                          *)
LEMMA UndoView ==
  ASSUME NEW l, LineOK(l), Whole(l), l.applied # 0
  PROVE  LET r == Undo(l) IN
         /\ LineOK(r) /\ Whole(r) /\ r.group_level = None
         /\ Past(l) = Append(Past(r), Now(r)) /\ Future(r) = <<Now(l)>> \o Future(l)
         /\ Promise!Step(View(l), View(r))
  <1> DEFINE n == l.applied
             len == Len(l.edits)
             first == FirstOfGroup(l.edits, l.applied)
             r == Undo(l)
  <1>1. /\ n \in Nat /\ n >= 1 /\ n <= len /\ len \in Nat
        /\ \A k \in 1..len : l.edits[k] \in Entries
    BY LineTypes DEF LineOK
  <1>2. PICK texts : Recounts(texts, l)
    BY DEF LineOK
  <1>3. /\ LineOK(r) /\ r.group_level = None /\ r.group_id = l.group_id /\ Recounts(texts, r)
        /\ first \in 1..n
        /\ r.text = texts[first - 1] /\ r.position = l.edits[first].before
        /\ r.applied = first - 1 /\ Len(r.edits) = len
        /\ \A k \in 1..len : /\ k # n => r.edits[k] = l.edits[k]
                             /\ r.edits[k].before = l.edits[k].before
                             /\ r.edits[k].group = l.edits[k].group
                             /\ k = n => r.edits[k].undone = l.position
    <2> DEFINE back == TakenBack(l)
    <2>1. /\ first \in 1..l.applied
          /\ Recounts(texts, back)
          /\ back.text = texts[first - 1] /\ back.position = l.edits[first].before
          /\ back.applied = first - 1 /\ Len(back.edits) = Len(l.edits)
          /\ back.group_id = l.group_id
          /\ \A k \in 1..Len(l.edits) :
               /\ k # l.applied => back.edits[k] = l.edits[k]
               /\ back.edits[k].before = l.edits[k].before
               /\ back.edits[k].group = l.edits[k].group
               /\ k = l.applied => back.edits[k].undone = l.position
      BY <1>2, TakenBackLemma
    <2>2. /\ LineOK(r) /\ r.group_level = None
          /\ r.text = back.text /\ r.position = back.position
          /\ r.edits = back.edits /\ r.applied = back.applied /\ r.group_id = back.group_id
      BY UndoLemma
    <2> HIDE DEF back, r, first
    <2>3. Recounts(texts, r)
      BY <2>1, <2>2 DEF Recounts
    <2> QED  BY <2>1, <2>2, <2>3
  <1> HIDE DEF r
  <1>4. /\ \A j \in first..(n - 1) : SameGroup(l.edits[j], l.edits[j + 1])
        /\ first > 1 => ~SameGroup(l.edits[first - 1], l.edits[first])
    BY <1>1, FirstLemma
  <1> HIDE DEF first
  <1>5. first \in Nat /\ first >= 1 /\ first <= n /\ first <= len
    BY <1>1, <1>3
  <1>6. ASSUME NEW j \in 1..len, NEW k \in 1..len
        PROVE  SameGroup(r.edits[j], r.edits[k]) <=> SameGroup(l.edits[j], l.edits[k])
    BY <1>3 DEF SameGroup
  <1>7. FirstOnes(l) = FirstOnes(r) \cup {first}
    <2>1. ASSUME NEW i \in 1..(first - 1)
          PROVE  (i > 1 => ~SameGroup(r.edits[i - 1], r.edits[i])) <=>
                 (i > 1 => ~SameGroup(l.edits[i - 1], l.edits[i]))
      <3>1. i \in 1..len /\ (i > 1 => i - 1 \in 1..len)
        BY <1>1, <1>5
      <3> QED  BY <1>6, <3>1
    <2>2. ASSUME NEW i \in (first + 1)..n  PROVE  i > 1 /\ SameGroup(l.edits[i - 1], l.edits[i])
      <3>1. i - 1 \in first..(n - 1) /\ (i - 1) + 1 = i /\ i > 1
        BY <1>1, <1>5
      <3> QED  BY <1>4, <3>1
    <2>3. 1..n = (1..(first - 1)) \cup {first} \cup ((first + 1)..n)
      BY <1>1, <1>5
    <2> QED  BY <1>3, <1>4, <2>1, <2>2, <2>3 DEF FirstOnes
  <1>8. ASSUME NEW i \in FirstOnes(r)  PROVE  i < first /\ Before(l, i) = Before(r, i)
    <2>1. i \in 1..(first - 1) /\ i \in 1..r.applied
      BY <1>3 DEF FirstOnes
    <2>2. i < first /\ i \in 1..len /\ i \in 1..l.applied
      BY <1>1, <1>5, <2>1
    <2>3. Before(r, i) = Shown(texts[i - 1], r.edits[i].before)
      BY <1>3, <2>1, BeforeIs
    <2>4. Before(l, i) = Shown(texts[i - 1], l.edits[i].before)
      BY <1>2, <2>2, BeforeIs
    <2> QED  BY <1>3, <2>2, <2>3, <2>4
  <1>9. Past(l) = Append(Past(r), Now(r))
    <2>1. first \in 1..l.applied
      BY <1>3
    <2>2. Before(l, first) = Shown(texts[first - 1], l.edits[first].before)
      BY <1>2, <2>1, BeforeIs
    <2>3. Before(l, first) = Now(r)
      BY <1>3, <2>2 DEF Now
    <2>4. Past(l) = Append(Past(r), Before(l, first))
      BY <1>3, <1>7, <1>8, <2>1, LongerPast
    <2> QED  BY <2>3, <2>4
  <1>10. LastOnes(r) = {n} \cup LastOnes(l)
    <2>1. ASSUME NEW i \in first..(n - 1)  PROVE  i < len /\ SameGroup(r.edits[i], r.edits[i + 1])
      <3>1. i \in 1..len /\ i + 1 \in 1..len /\ i < len
        BY <1>1, <1>5
      <3> QED  BY <1>4, <1>6, <3>1
    <2>2. n < len => ~SameGroup(r.edits[n], r.edits[n + 1])
      <3>1. n < len => n \in 1..len /\ n + 1 \in 1..len /\ n # len
        BY <1>1
      <3>2. n # len => ~SameGroup(l.edits[n], l.edits[n + 1])
        BY DEF Whole
      <3> QED  BY <1>6, <3>1, <3>2
    <2>3. ASSUME NEW i \in (n + 1)..len
          PROVE  (i < len => ~SameGroup(r.edits[i], r.edits[i + 1])) <=>
                 (i < len => ~SameGroup(l.edits[i], l.edits[i + 1]))
      <3>1. i \in 1..len /\ (i < len => i + 1 \in 1..len)
        BY <1>1
      <3> QED  BY <1>6, <3>1
    <2>4. /\ (r.applied + 1)..len = (first..(n - 1)) \cup {n} \cup ((n + 1)..len)
      BY <1>1, <1>3, <1>5
    <2> QED  BY <1>3, <2>1, <2>2, <2>3, <2>4 DEF LastOnes
  <1>11. n \in (r.applied + 1)..Len(r.edits)
    BY <1>1, <1>3, <1>5
  <1>12. ASSUME NEW i \in LastOnes(l)  PROVE  i > n /\ After(r, i) = After(l, i)
    <2>1. i \in (l.applied + 1)..Len(l.edits)
      BY DEF LastOnes
    <2>2. i > n /\ i \in 1..len /\ i # n /\ i \in (r.applied + 1)..Len(r.edits)
      BY <1>1, <1>3, <1>5, <2>1
    <2>3. After(r, i) = Shown(texts[i], r.edits[i].undone)
      BY <1>3, <2>2, AfterIs
    <2>4. After(l, i) = Shown(texts[i], l.edits[i].undone)
      BY <1>2, <2>1, AfterIs
    <2> QED  BY <1>3, <2>2, <2>3, <2>4
  <1>13. After(r, n) = Now(l)
    <2>1. After(r, n) = Shown(texts[n], r.edits[n].undone)
      BY <1>3, <1>11, AfterIs
    <2>2. texts[n] = l.text /\ n \in 1..len
      BY <1>1, <1>2 DEF Recounts
    <2> QED  BY <1>3, <2>1, <2>2 DEF Now
  <1>14. Future(r) = <<Now(l)>> \o Future(l)
    <2> HIDE DEF n
    <2>1. Future(r) = <<After(r, n)>> \o Future(l)
      BY <1>3, <1>10, <1>11, <1>12, LongerFuture
    <2> QED  BY <1>13, <2>1
  <1>15. Promise!Step(View(l), View(r))
    <2> DEFINE p == Past(r)
               x == Now(r)
    <2>1. p \in Seq(Views) /\ x \in Views
      BY <1>3, PastIs, NowView
    <2> HIDE DEF p, x
    <2>2. Append(p, x) # <<>> /\ Last(Append(p, x)) = x /\ Front(Append(p, x)) = p
      BY <2>1, Appended
    <2>3. Past(l) # <<>> /\ Last(Past(l)) = Now(r) /\ Front(Past(l)) = Past(r)
      BY <1>9, <2>2 DEF p, x
    <2>4. View(r) = [now |-> Last(Past(l)), past |-> Front(Past(l)),
                     future |-> <<Now(l)>> \o Future(l)]
      BY <1>14, <2>3 DEF View
    <2>5. /\ View(l).past # <<>>
          /\ View(r) = [now |-> Last(View(l).past), past |-> Front(View(l).past),
                        future |-> <<View(l).now>> \o View(l).future]
      BY <2>3, <2>4, ViewFields
    <2>6. /\ Promise!Last(View(l).past) = Last(View(l).past)
          /\ Promise!Front(View(l).past) = Front(View(l).past)
      BY DEF Last, Front, Promise!Last, Promise!Front
    <2> QED  BY <2>5, <2>6, Zenon DEF Promise!Step, Promise!Undo
  <1>16. Whole(r)
    <2>1. r.applied # 0 => ~SameGroup(r.edits[r.applied], r.edits[r.applied + 1])
      <3>1. r.applied # 0 => first > 1 /\ r.applied + 1 = first
        BY <1>3, <1>5
      <3>2. first > 1 => first \in 1..len /\ first - 1 \in 1..len
        BY <1>1, <1>5
      <3> QED  BY <1>3, <1>4, <1>6, <3>1, <3>2
    <2>2. \A k \in 1..len : l.edits[k].group <= l.group_id
      BY DEF Whole
    <2>3. \A k \in 1..Len(r.edits) : r.edits[k].group <= r.group_id
      BY <1>3, <2>2
    <2> QED  BY <1>3, <2>1, <2>3 DEF Whole
  <1> QED  BY <1>3, <1>9, <1>14, <1>15, <1>16 DEF r

(* With nothing to undo, it only ends what was begun. *)
LEMMA NothingToUndo ==
  ASSUME NEW l, LineOK(l), Whole(l), l.applied = 0
  PROVE  LET r == Undo(l) IN
         LineOK(r) /\ Whole(r) /\ r.group_level = None /\ View(r) = View(l) /\ r.applied = 0
         /\ r.edits = l.edits
  <1> DEFINE r == Undo(l)
  <1>1. /\ LineOK(r) /\ r.group_level = None /\ r.text = l.text /\ r.position = l.position
        /\ r.edits = l.edits /\ r.applied = l.applied /\ r.group_id = l.group_id
    BY UndoLemma
  <1> HIDE DEF r
  <1>2. Past(r) = Past(l) /\ Future(r) = Future(l)
    BY <1>1, SameView
  <1>3. Now(r) = Now(l)
    BY <1>1 DEF Now
  <1>4. Whole(r)
    BY <1>1 DEF Whole
  <1> QED  BY <1>1, <1>2, <1>3, <1>4 DEF View, r

LEMMA UndoKind ==
  ASSUME NEW l, LineOK(l), Whole(l)
  PROVE  LineOK(Undo(l)) /\ Whole(Undo(l)) /\ Kind(l, Undo(l))
  BY UndoView, NothingToUndo DEF Kind

-----------------------------------------------------------------------------
(* Redo applies one group of entries again, which ends as it did before it  *)
(* was undone.                                                              *)
LEMMA AgainView ==
  ASSUME NEW l, LineOK(l), Whole(l), l.applied # Len(l.edits)
  PROVE  LET r == DoneAgain(l) IN
         LineOK(r) /\ Whole(r) /\ Promise!Step(View(l), View(r))
  <1> DEFINE n == l.applied
             len == Len(l.edits)
             last == LastOfGroup(l.edits, l.applied + 1)
             r == DoneAgain(l)
  <1>1. /\ n \in Nat /\ len \in Nat /\ n < len
        /\ \A k \in 1..len : l.edits[k] \in Entries
    BY LineTypes DEF LineOK
  <1>2. PICK texts : Recounts(texts, l)
    BY DEF LineOK
  <1>3. /\ LineOK(r) /\ Recounts(texts, r)
        /\ last \in (n + 1)..len /\ EndsGroup(l.edits, last)
        /\ \A j \in (n + 1)..(last - 1) : SameGroup(l.edits[j], l.edits[j + 1])
        /\ r.text = texts[last] /\ r.position = l.edits[last].undone
        /\ r.edits = l.edits /\ r.applied = last
        /\ r.group_level = l.group_level /\ r.group_id = l.group_id
    BY <1>2, DoneAgainLemma
  <1> HIDE DEF r, last
  <1>4. last \in Nat /\ n + 1 <= last /\ last <= len
    BY <1>1, <1>3
  <1>5. FirstOnes(r) = FirstOnes(l) \cup {n + 1}
    <2>1. n + 1 > 1 => ~SameGroup(r.edits[(n + 1) - 1], r.edits[n + 1])
      <3>1. n + 1 > 1 => n # 0 /\ n # len /\ (n + 1) - 1 = n
        BY <1>1
      <3>2. n # 0 /\ n # len => ~SameGroup(l.edits[n], l.edits[n + 1])
        BY DEF Whole
      <3> QED  BY <1>3, <3>1, <3>2
    <2>2. ASSUME NEW i \in (n + 2)..last  PROVE  i > 1 /\ SameGroup(r.edits[i - 1], r.edits[i])
      <3>1. i - 1 \in (n + 1)..(last - 1) /\ (i - 1) + 1 = i /\ i > 1
        BY <1>1, <1>4
      <3> QED  BY <1>3, <3>1
    <2>3. 1..last = (1..n) \cup {n + 1} \cup ((n + 2)..last)
      BY <1>1, <1>4
    <2> QED  BY <1>3, <2>1, <2>2, <2>3 DEF FirstOnes
  <1>6. ASSUME NEW i \in 1..n  PROVE  Before(r, i) = Before(l, i)
    <2>1. i \in 1..r.applied /\ i \in 1..l.applied
      BY <1>1, <1>3, <1>4
    <2>2. Before(r, i) = Shown(texts[i - 1], r.edits[i].before)
      BY <1>3, <2>1, BeforeIs
    <2>3. Before(l, i) = Shown(texts[i - 1], l.edits[i].before)
      BY <1>2, <2>1, BeforeIs
    <2> QED  BY <1>3, <2>2, <2>3
  <1> DEFINE m == n + 1
  <1>7. /\ m \in 1..r.applied /\ FirstOnes(r) = FirstOnes(l) \cup {m}
        /\ \A i \in FirstOnes(l) : i < m /\ Before(r, i) = Before(l, i)
        /\ m - 1 = n
    <2>1. m \in 1..r.applied
      BY <1>1, <1>3, <1>4
    <2>2. ASSUME NEW i \in FirstOnes(l)  PROVE  i < m /\ Before(r, i) = Before(l, i)
      <3>1. i \in 1..n
        BY DEF FirstOnes
      <3> QED  BY <1>1, <1>6, <3>1
    <2>3. m - 1 = n
      BY <1>1
    <2> QED  BY <1>5, <2>1, <2>2, <2>3
  <1>8. Past(r) = Append(Past(l), Before(r, m)) /\ Before(r, m).text = l.text
    <2> HIDE DEF m, n
    <2>1. Past(r) = Append(Past(l), Before(r, m))
      BY <1>3, <1>7, LongerPast
    <2>2. Before(r, m) = Shown(texts[m - 1], r.edits[m].before)
      BY <1>3, <1>7, BeforeIs
    <2>3. texts[m - 1] = l.text
      BY <1>2, <1>7 DEF Recounts, n
    <2> QED  BY <2>1, <2>2, <2>3 DEF Shown
  <1>9. LastOnes(l) = {last} \cup LastOnes(r)
    <2>1. ASSUME NEW i \in (n + 1)..(last - 1)  PROVE  i < len /\ SameGroup(l.edits[i], l.edits[i + 1])
      <3>1. i < len
        BY <1>1, <1>4
      <3> QED  BY <1>3, <3>1
    <2>2. last < len => ~SameGroup(l.edits[last], l.edits[last + 1])
      BY <1>3 DEF EndsGroup
    <2>3. (n + 1)..len = ((n + 1)..(last - 1)) \cup {last} \cup ((last + 1)..len)
      BY <1>1, <1>4
    <2> QED  BY <1>3, <2>1, <2>2, <2>3 DEF LastOnes
  <1>10. ASSUME NEW i \in LastOnes(r)  PROVE  i > last /\ After(l, i) = After(r, i)
    <2>1. i \in (r.applied + 1)..Len(r.edits)
      BY DEF LastOnes
    <2>2. i > last /\ i \in (l.applied + 1)..Len(l.edits)
      BY <1>1, <1>3, <1>4, <2>1
    <2>3. After(r, i) = Shown(texts[i], r.edits[i].undone)
      BY <1>3, <2>1, AfterIs
    <2>4. After(l, i) = Shown(texts[i], l.edits[i].undone)
      BY <1>2, <2>2, AfterIs
    <2> QED  BY <1>3, <2>2, <2>3, <2>4
  <1>11. Future(l) = <<Now(r)>> \o Future(r)
    <2>1. last \in (l.applied + 1)..Len(l.edits)
      BY <1>3
    <2>2. After(l, last) = Shown(texts[last], l.edits[last].undone)
      BY <1>2, <2>1, AfterIs
    <2>3. After(l, last) = Now(r)
      BY <1>3, <2>2 DEF Now
    <2>4. Future(l) = <<After(l, last)>> \o Future(r)
      BY <1>3, <1>9, <1>10, <2>1, LongerFuture
    <2> QED  BY <2>3, <2>4
  <1>12. Promise!Step(View(l), View(r))
    <2> DEFINE p == Past(l)
               x == Before(r, m)
               q == Future(r)
               y == Now(r)
    <2>1. p \in Seq(Views) /\ x \in Views /\ q \in Seq(Views) /\ y \in Views
      BY <1>3, <1>7, PastIs, FutureIs, NowView
    <2> HIDE DEF p, x, q, y
    <2>2. /\ Append(p, x) # <<>> /\ Last(Append(p, x)) = x /\ Front(Append(p, x)) = p
          /\ Len(Append(p, x)) = Len(p) + 1
      BY <2>1, Appended
    <2>3. <<y>> \o q # <<>> /\ Head(<<y>> \o q) = y /\ Tail(<<y>> \o q) = q
      BY <2>1, Preceded
    <2>4. /\ Past(r) = Append(p, x) /\ Future(l) = <<y>> \o q
      BY <1>8, <1>11 DEF p, x, q, y
    <2>5. /\ Future(l) # <<>> /\ Now(r) = Head(Future(l)) /\ Future(r) = Tail(Future(l))
          /\ Len(Past(r)) = Len(Past(l)) + 1 /\ Front(Past(r)) = Past(l)
          /\ Last(Past(r)).text = Now(l).text
      <3>1. x.text = Now(l).text
        BY <1>8, NowView DEF x
      <3>2. y = Now(r) /\ q = Future(r) /\ p = Past(l)
        BY DEF y, q, p
      <3> QED  BY <2>2, <2>3, <2>4, <3>1, <3>2
    <2>6. /\ Promise!Last(Past(r)) = Last(Past(r))
          /\ Promise!Front(Past(r)) = Front(Past(r))
      BY DEF Last, Front, Promise!Last, Promise!Front
    <2>7. Promise!Redo(View(l), View(r))
      BY <2>5, <2>6, ViewFields DEF Promise!Redo
    <2> QED  BY <2>7 DEF Promise!Step
  <1>13. Whole(r)
    <2>1. last # len => ~SameGroup(l.edits[last], l.edits[last + 1])
      BY <1>1, <1>3, <1>4 DEF EndsGroup
    <2>2. n # len
      BY <1>1
    <2> QED  BY <1>3, <2>1, <2>2 DEF Whole
  <1> QED  BY <1>3, <1>12, <1>13 DEF r

LEMMA RedoKind ==
  ASSUME NEW l, LineOK(l), Whole(l)
  PROVE  LineOK(Redo(l)) /\ Whole(Redo(l)) /\ Kind(l, Redo(l))
  <1> DEFINE again == IF l.applied = Len(l.edits) THEN l ELSE DoneAgain(l)
  <1>1. LineOK(again) /\ Whole(again) /\ Kind(l, again)
    BY AgainView DEF Kind
  <1> HIDE DEF again
  <1>2. LineOK(EndGroup(again)) /\ Whole(EndGroup(again)) /\ View(EndGroup(again)) = View(again)
    BY <1>1, EndGroupView
  <1>3. Redo(l) = EndGroup(again)
    BY DEF Redo, again
  <1> QED  BY <1>1, <1>2, <1>3 DEF Kind

(* What is typed at the cursor, and what takes the place of a part of the   *)
(* line.                                                                    *)
LEMMA InsertKind ==
  ASSUME NEW l, LineOK(l), Whole(l), NEW new \in Text, NEW allow \in BOOLEAN
  PROVE  LET r == PushEdit(l, Edit(l.position, l.position, new), allow) IN
         LineOK(r) /\ Whole(r) /\ Kind(l, r)
  <1> DEFINE p == l.position
             edit == Edit(p, p, new)
             r == PushEdit(l, edit, allow)
  <1>1. edit.start = p /\ edit.end = p /\ edit.new = new
    BY EditFields
  <1>2. p \in 0..Len(l.text) /\ p \in p..Len(l.text)
    BY LineTypes DEF LineOK
  <1>3. \/ r = Coalesced(l, edit) /\ WantToCoalesce(l, new)
        \/ r = l \/ r = Pushed(l, edit)
    BY <1>1 DEF PushEdit
  <1>4. LET q == Pushed(l, edit) IN LineOK(q) /\ Whole(q) /\ Edited(l, q)
    <2> HIDE DEF p
    <2>1. p = p => l.position = p
      BY DEF p
    <2> QED  BY <1>2, <2>1, PushedView
  <1>5. WantToCoalesce(l, new) =>
          LET q == Coalesced(l, edit) IN LineOK(q) /\ Whole(q) /\ Promise!Step(View(l), View(q))
    BY CoalescedView
  <1> HIDE DEF r, edit
  <1>6. LineOK(r) /\ Whole(r) /\ Kind(l, r)
    BY <1>3, <1>4, <1>5 DEF Kind, Edited, Promise!Step
  <1> QED  BY <1>6 DEF r, edit

LEMMA ReplaceKind ==
  ASSUME NEW l, LineOK(l), Whole(l), NEW a \in 0..Len(l.text), NEW b \in a..Len(l.text),
         NEW new \in Text, a = b => l.position = a
  PROVE  LET r == Replace(l, a, b, new) IN
         /\ LineOK(r) /\ Whole(r) /\ r.group_level = l.group_level /\ Kind(l, r)
         /\ ~(a = b /\ new = <<>>) =>
              /\ r.applied = Len(r.edits) /\ Future(r) = <<>>
              /\ l.group_level = None => Past(r) = Append(Past(l), Now(l))
              /\ Edited(l, r)
  <1> DEFINE r == Replace(l, a, b, new)
             q == Pushed(l, Edit(a, b, new))
  <1>1. /\ a = b /\ new = <<>> => r = l
        /\ ~(a = b /\ new = <<>>) => r = q
    BY ReplaceLemma
  <1>2. /\ LineOK(q) /\ Whole(q) /\ q.applied = Len(q.edits) /\ Future(q) = <<>>
        /\ q.group_level = l.group_level
        /\ l.group_level = None => Past(q) = Append(Past(l), Now(l))
        /\ Edited(l, q)
    BY PushedView
  <1> HIDE DEF r, q
  <1>3. CASE a = b /\ new = <<>>
    BY <1>1, <1>3 DEF Kind, r
  <1>4. CASE ~(a = b /\ new = <<>>)
    BY <1>1, <1>2, <1>4 DEF Kind, Edited, Promise!Step, r
  <1> QED  BY <1>3, <1>4

-----------------------------------------------------------------------------
(* A match that is shown is a change: none is empty.                        *)
LEMMA SomethingShown ==
  ASSUME NEW s, SearchOK(s), Active(s), ~AtPresent(s)
  PROVE  CurrentResult(s) \in Text /\ CurrentResult(s) # <<>>
  <1> DEFINE k == s.match_index + 1
  <1>1. /\ s.match_index \in Nat /\ s.match_index < Len(s.matches) /\ Len(s.matches) \in Nat
        /\ s.match_index # 0 /\ CurrentResult(s) \in Text
    BY SearchTypes DEF SearchOK, AtPresent
  <1>2. k \in 2..Len(s.matches)
    BY <1>1
  <1>3. s.matches[k] # <<>>
    BY <1>2 DEF SearchOK, Distinct
  <1> QED  BY <1>1, <1>3 DEF CurrentResult

(* Wherever the cursor is put after an edit, it is that edit. *)
LEMMA EditedThenMoved ==
  ASSUME NEW l, NEW q, LineOK(q), Whole(q), NEW p \in 0..Len(q.text), Edited(l, q)
  PROVE  LET r == SetPosition(q, p) IN
         /\ LineOK(r) /\ Whole(r) /\ r.applied = q.applied /\ r.edits = q.edits
         /\ Past(r) = Past(q) /\ Future(r) = Future(q) /\ Edited(l, r)
  <1> DEFINE r == SetPosition(q, p)
  <1>1. /\ LineOK(r) /\ Whole(r) /\ r.applied = q.applied /\ r.edits = q.edits
        /\ Past(r) = Past(q) /\ Future(r) = Future(q)
    BY SetPositionView
  <1> HIDE DEF r
  <1>2. Edited(l, r)
    BY <1>1, ViewFields DEF Edited, Promise!Change, Promise!Extend
  <1> QED  BY <1>1, <1>2 DEF r

LEMMA PlacedView ==
  ASSUME NEW l, LineOK(l), Whole(l), NEW s, SearchOK(s), Active(s), ~AtPresent(s)
  PROVE  LET r == Placed(l, s) IN
         /\ LineOK(r) /\ Whole(r) /\ r.applied = Len(r.edits) /\ Future(r) = <<>>
         /\ l.group_level = None => Past(r) = Append(Past(l), Now(l))
         /\ Edited(l, r)
  <1> DEFINE new == CurrentResult(s)
             Shows(r) == /\ LineOK(r) /\ Whole(r) /\ r.applied = Len(r.edits) /\ Future(r) = <<>>
                         /\ l.group_level = None => Past(r) = Append(Past(l), Now(l))
                         /\ Edited(l, r)
  <1>1. /\ l.text \in Text /\ l.position \in Nat /\ l.position <= Len(l.text) /\ Len(l.text) \in Nat
    BY LineTypes DEF LineOK
  <1>2. new \in Text /\ new # <<>> /\ SearchString(s) \in Text
    BY SomethingShown, SearchTypes
  <1>3. CASE s.mode = "token"
    <2> DEFINE at == TokenExtent(l.text, l.position)
               a == at.start
               b == at.end
    <2>1. a \in Nat /\ b \in Nat /\ a <= l.position /\ l.position <= b /\ b <= Len(l.text)
      BY <1>1, TokenLemma
    <2>2. Placed(l, s) = Replace(l, a, b, new)
      BY <1>3 DEF Placed
    <2> HIDE DEF a, b, new
    <2>3. a \in 0..Len(l.text) /\ b \in a..Len(l.text) /\ (a = b => l.position = a)
      BY <1>1, <2>1
    <2>4. Shows(Replace(l, a, b, new))
      BY <1>2, <2>3, ReplaceKind
    <2> QED  BY <2>2, <2>4
  <1>4. CASE s.mode # "token"
    <2> DEFINE whole_line == Replace(l, 0, Len(l.text), new)
               n == Len(SearchString(s))
               put == SetPosition(whole_line, n)
    <2>1. Len(whole_line.text) = Len(new)
      BY <1>2, WholeReplaced
    <2>2. Shows(whole_line)
      <3>1. 0 \in 0..Len(l.text) /\ Len(l.text) \in 0..Len(l.text) /\ (0 = Len(l.text) => l.position = 0)
        BY <1>1
      <3> HIDE DEF new
      <3> QED  BY <1>2, <3>1, ReplaceKind
    <2>3. Placed(l, s) = IF s.mode = "prefix" /\ SearchString(s) # <<>>
                         THEN put ELSE whole_line
      BY <1>4 DEF Placed
    <2> HIDE DEF whole_line
    <2>4. ASSUME s.mode = "prefix"  PROVE  n \in 0..Len(whole_line.text)
      <3>1. s.match_index + 1 \in 1..Len(s.matches)
        BY SearchTypes DEF SearchOK
      <3>2. Len(s.matches[1]) <= Len(s.matches[s.match_index + 1])
        BY <2>4, <3>1 DEF SearchOK
      <3>3. n \in Nat /\ Len(new) \in Nat
        BY <1>2, TextTypes
      <3> QED  BY <2>1, <3>2, <3>3 DEF SearchString, CurrentResult
    <2>5. s.mode = "prefix" => Shows(put)
      <3> HIDE DEF n
      <3> QED  BY <2>2, <2>4, EditedThenMoved
    <2> HIDE DEF put, Shows
    <2>6. Shows(Placed(l, s))
      BY <2>2, <2>3, <2>5
    <2> QED  BY <2>6 DEF Shows
  <1> QED  BY <1>3, <1>4

-----------------------------------------------------------------------------
(* The promise of UndoPromise.  A match that is shown is the last entry     *)
(* applied, and is undone before the next one is shown: for whoever undoes, *)
(* the second match is a part of the same change.                           *)
PromiseInv ==
  /\ EditorIInv
  /\ Whole(line)
  /\ transient => line.applied = Len(line.edits)

(* What a step leaves. *)
KeepsPromise ==
  /\ Whole(line')
  /\ transient' => line'.applied = Len(line'.edits)
  /\ Kind(line, line')

LEMMA ShowMatchView ==
  ASSUME PromiseInv, NEW s, SearchOK(s), Active(s), ShowMatch(s)
  PROVE  KeepsPromise
  <1> DEFINE l == IF transient THEN Undo(line) ELSE line
  <1>1. line' = (IF AtPresent(s) THEN l ELSE Placed(l, s)) /\ transient' = ~AtPresent(s)
    BY DEF ShowMatch
  <1>2. LineOK(line) /\ Whole(line) /\ (transient => line.applied = Len(line.edits))
    BY DEF PromiseInv, EditorIInv
  <1>3. LineOK(l) /\ Whole(l) /\ Kind(line, l)
    BY <1>2, UndoKind DEF Kind
  <1>4. CASE AtPresent(s)
    BY <1>1, <1>3, <1>4 DEF KeepsPromise
  <1>5. CASE ~AtPresent(s)
    <2> DEFINE r == Placed(l, s)
    <2>1. line' = r
      BY <1>1, <1>5
    <2> HIDE DEF l
    <2>2. /\ LineOK(r) /\ Whole(r) /\ r.applied = Len(r.edits) /\ Future(r) = <<>>
          /\ l.group_level = None => Past(r) = Append(Past(l), Now(l))
          /\ Edited(l, r)
      BY <1>3, <1>5, PlacedView
    <2> HIDE DEF r
    <2>3. Edited(line, r)
      <3>1. CASE ~transient
        BY <2>2, <3>1 DEF l
      <3>2. CASE transient /\ line.applied = 0
        <4>1. View(l) = View(line)
          BY <1>2, <3>2, NothingToUndo DEF l
        <4> QED  BY <2>2, <4>1 DEF Edited
      <3>3. CASE transient /\ line.applied # 0
        <4>1. l.group_level = None /\ Past(line) = Append(Past(l), Now(l))
          BY <1>2, <3>3, UndoView DEF l
        <4>2. Past(line) # <<>> /\ Future(line) = <<>>
          BY <1>2, <3>3, SomePast, NoFuture
        <4>3. Past(r) = Past(line)
          BY <2>2, <4>1
        <4> QED  BY <2>2, <4>2, <4>3, ViewFields DEF Edited, Promise!Extend
      <3> QED  BY <3>1, <3>2, <3>3
    <2> QED  BY <2>1, <2>2, <2>3 DEF KeepsPromise, Kind, Edited, Promise!Step
  <1> QED  BY <1>4, <1>5

LEMMA EditingView ==
  ASSUME NEW l, Whole(l), Kind(line, l), Editing(l)
  PROVE  KeepsPromise
  BY DEF Editing, SearchEnds, KeepsPromise

LEMMA CommandView ==
  ASSUME PromiseInv,
         \/ CursorCommand \/ BackwardDeleteChar
         \/ UndoCommand \/ RedoCommand \/ BeginUndoGroup \/ EndUndoGroup \/ Cancel
         \/ \E c \in Keys : InsertChar(c)
         \/ \E text0 \in Scripted : ScriptSets(text0)
  PROVE  KeepsPromise
  <1>1. /\ LineOK(line) /\ Whole(line) /\ line.text \in Text /\ line.position \in Nat
        /\ Len(line.text) \in Nat /\ line.position <= Len(line.text)
    BY LineTypes DEF PromiseInv, EditorIInv, LineOK
  <1>2. CASE CursorCommand
    <2>1. PICK p \in 0..Len(line.text) : Editing(SetPosition(line, p))
      BY <1>2 DEF CursorCommand
    <2>2. Whole(SetPosition(line, p)) /\ Kind(line, SetPosition(line, p))
      BY <1>1, SetPositionView DEF Kind
    <2> QED  BY <2>1, <2>2, EditingView
  <1>3. CASE BackwardDeleteChar
    <2> DEFINE a == line.position - 1
               b == line.position
               l == Replace(line, a, b, <<>>)
    <2>1. a \in 0..Len(line.text) /\ b \in a..Len(line.text) /\ a # b /\ <<>> \in Text
      BY <1>1, <1>3 DEF BackwardDeleteChar, Text
    <2>2. Editing(l)
      BY <1>3 DEF BackwardDeleteChar
    <2> HIDE DEF a, b
    <2>3. Whole(l) /\ Kind(line, l)
      BY <1>1, <2>1, ReplaceKind
    <2> HIDE DEF l
    <2> QED  BY <2>2, <2>3, EditingView
  <1>4. CASE UndoCommand
    <2>1. Whole(Undo(line)) /\ Kind(line, Undo(line))
      BY <1>1, UndoKind
    <2> QED  BY <1>4, <2>1, EditingView DEF UndoCommand
  <1>5. CASE RedoCommand
    <2>1. Whole(Redo(line)) /\ Kind(line, Redo(line))
      BY <1>1, RedoKind
    <2> QED  BY <1>5, <2>1, EditingView DEF RedoCommand
  <1>6. CASE BeginUndoGroup
    <2>1. Whole(BeginGroup(line)) /\ Kind(line, BeginGroup(line))
      BY <1>1, BeginGroupView DEF Kind
    <2> QED  BY <1>6, <2>1, EditingView DEF BeginUndoGroup
  <1>7. CASE EndUndoGroup
    <2>1. Whole(EndGroup(line)) /\ Kind(line, EndGroup(line))
      BY <1>1, EndGroupView DEF Kind
    <2> QED  BY <1>7, <2>1, EditingView DEF EndUndoGroup
  <1>8. CASE Cancel
    <2>1. Whole(ClearTransient(line)) /\ Kind(line, ClearTransient(line))
      BY <1>1, UndoKind DEF ClearTransient, Kind
    <2> QED  BY <1>8, <2>1, EditingView DEF Cancel
  <1>9. ASSUME NEW c \in Keys, InsertChar(c)  PROVE  KeepsPromise
    <2>1. <<c>> \in Text /\ (~Active(search)) \in BOOLEAN
      BY EditorAssumption DEF Text, Active
    <2>2. Whole(Insert(<<c>>)) /\ Kind(line, Insert(<<c>>))
      BY <1>1, <2>1, InsertKind DEF Insert
    <2> QED  BY <1>9, <2>2, EditingView DEF InsertChar
  <1>10. ASSUME NEW text0 \in Scripted, ScriptSets(text0)  PROVE  KeepsPromise
    <2> DEFINE whole_line == Replace(line, 0, Len(line.text), text0)
               n == Len(line.text)
    <2>1. text0 \in Text
      BY EditorAssumption
    <2>2. PICK p \in 0..Len(text0) : Editing(SetPosition(whole_line, p))
      BY <1>10 DEF ScriptSets
    <2>3. Len(whole_line.text) = Len(text0)
      BY <1>1, <2>1, WholeReplaced
    <2>4. /\ LineOK(whole_line) /\ Whole(whole_line)
          /\ whole_line = line \/ Edited(line, whole_line)
      <3>1. 0 \in 0..n /\ n \in 0..n /\ (0 = n => line.position = 0)
        BY <1>1
      <3>2. 0 = n /\ text0 = <<>> => whole_line = line
        BY <1>1, <2>1, <3>1, ReplaceLemma
      <3> QED  BY <1>1, <2>1, <3>1, <3>2, ReplaceKind
    <2> HIDE DEF whole_line
    <2>5. Whole(SetPosition(whole_line, p)) /\ Kind(line, SetPosition(whole_line, p))
      <3>1. CASE whole_line = line
        BY <2>3, <2>4, <3>1, SetPositionView DEF Kind
      <3>2. CASE Edited(line, whole_line)
        BY <2>3, <2>4, <3>2, EditedThenMoved DEF Kind, Edited, Promise!Step
      <3> QED  BY <2>4, <3>1, <3>2
    <2> QED  BY <2>2, <2>5, EditingView
  <1> QED  BY <1>2, <1>3, <1>4, <1>5, <1>6, <1>7, <1>8, <1>9, <1>10

LEMMA OtherInputView ==
  ASSUME PromiseInv, ClickAt \/ \E new \in Pastes : InsertBurst(new)
  PROVE  KeepsPromise
  <1>1. LineOK(line) /\ Whole(line) /\ (transient => line.applied = Len(line.edits))
    BY DEF PromiseInv, EditorIInv
  <1>2. CASE ClickAt
    <2>1. PICK p \in 0..Len(line.text) : line' = SetPosition(line, p)
      BY <1>2 DEF ClickAt
    <2>2. transient' = transient
      BY <1>2 DEF ClickAt
    <2>3. LET r == SetPosition(line, p) IN
          Whole(r) /\ r.applied = line.applied /\ r.edits = line.edits /\ Kind(line, r)
      BY <1>1, SetPositionView DEF Kind
    <2> QED  BY <1>1, <2>1, <2>2, <2>3 DEF KeepsPromise
  <1>3. ASSUME NEW new \in Pastes, InsertBurst(new)  PROVE  KeepsPromise
    <2>1. new \in Text /\ (~Active(search)) \in BOOLEAN
      BY EditorAssumption DEF Active
    <2>2. Whole(Insert(new)) /\ Kind(line, Insert(new))
      BY <1>1, <2>1, InsertKind DEF Insert
    <2> QED  BY <1>3, <2>2 DEF InsertBurst, KeepsPromise
  <1> QED  BY <1>2, <1>3

LEMMA SameLineView ==
  ASSUME PromiseInv, UNCHANGED <<line, transient>>
  PROVE  KeepsPromise
  BY DEF PromiseInv, KeepsPromise, Kind

LEMMA MoveToView ==
  ASSUME PromiseInv, NEW mode \in SearchModes, NEW s, SearchOK(s), Active(s),
         MoveTo(mode, Started(mode), s)
  PROVE  KeepsPromise
  <1>1. UNCHANGED <<line, transient>> \/ ShowMatch(s)
    BY DEF MoveTo
  <1> QED  BY <1>1, ShowMatchView, SameLineView

LEMMA SearchView ==
  ASSUME PromiseInv, NEW mode \in SearchModes,
         HistorySearchBackward(mode) \/ HistorySearchForward(mode)
  PROVE  KeepsPromise
  <1> DEFINE start == Started(mode)
  <1>1. EditorIInv /\ history \in Seq(Text)
    BY DEF PromiseInv, EditorIInv
  <1>2. SearchOK(start) /\ Active(start)
    BY <1>1, StartedLemma
  <1> HIDE DEF start
  <1>3. CASE HistorySearchBackward(mode)
    <2> DEFINE s == MoveBackwards(start, history)
    <2>1. MoveTo(mode, start, s)
      BY <1>3 DEF HistorySearchBackward, start
    <2>2. SearchOK(s) /\ Active(s)
      BY <1>1, <1>2, MoveBackwardsLemma
    <2> HIDE DEF s
    <2> QED  BY <2>1, <2>2, MoveToView DEF start
  <1>4. CASE HistorySearchForward(mode)
    <2> DEFINE s == MoveForwards(start)
    <2>1. MoveTo(mode, start, s)
      BY <1>4 DEF HistorySearchForward, start
    <2>2. SearchOK(s) /\ Active(s)
      BY <1>2, MovesLemma
    <2> HIDE DEF s
    <2> QED  BY <2>1, <2>2, MoveToView DEF start
  <1> QED  BY <1>3, <1>4

LEMMA EndsView ==
  ASSUME PromiseInv, BeginningOfHistory \/ EndOfHistory
  PROVE  KeepsPromise
  <1>1. /\ Active(search) /\ search' \in {MoveForwards(search), GoToOldest(search), GoToPresent(search)}
        /\ ShowMatch(search')
    BY DEF BeginningOfHistory, EndOfHistory
  <1>2. SearchOK(search)
    BY DEF PromiseInv, EditorIInv
  <1>3. SearchOK(search') /\ Active(search')
    BY <1>1, <1>2, MovesLemma
  <1> QED  BY <1>1, <1>3, ShowMatchView

LEMMA DeleteView ==
  ASSUME PromiseInv, DeleteFromHistory \/ DeletePanics
  PROVE  KeepsPromise
  <1>1. /\ EditorIInv /\ SearchOK(search) /\ history \in Seq(Text)
        /\ ~AtPresent(search) /\ Active(search)
    BY DEF PromiseInv, EditorIInv, SearchOK, AtPresent, DeleteFromHistory, DeletePanics
  <1>2. CASE DeleteFromHistory
    <2>1. RemoveAndSave(CurrentResult(search))
      BY <1>2 DEF DeleteFromHistory
    <2>2. history' \in Seq(Text)
      BY <1>1, <2>1, RemoveAndSaveLemma
    <2>3. MayDelete(search) /\ search' = HandleDeletion(search, history') /\ ShowMatch(search')
      BY <1>2 DEF DeleteFromHistory
    <2>4. SearchOK(search') /\ Active(search')
      BY <1>1, <2>2, <2>3, HandleDeletionLemma
    <2> QED  BY <2>3, <2>4, ShowMatchView
  <1>3. CASE DeletePanics
    BY <1>3, SameLineView DEF DeletePanics
  <1> QED  BY <1>2, <1>3

LEMMA PromiseStep == PromiseInv /\ [EditorNext]_editorVars => KeepsPromise
  <1> SUFFICES ASSUME PromiseInv, [EditorNext]_editorVars  PROVE  KeepsPromise
    OBVIOUS
  <1>1. CASE UNCHANGED editorVars
    BY <1>1, SameLineView DEF editorVars
  <1>2. CASE \/ CursorCommand \/ BackwardDeleteChar
             \/ UndoCommand \/ RedoCommand \/ BeginUndoGroup \/ EndUndoGroup \/ Cancel
             \/ \E c \in Keys : InsertChar(c)
             \/ \E text0 \in Scripted : ScriptSets(text0)
    BY <1>2, CommandView
  <1>3. CASE ClickAt \/ \E new \in Pastes : InsertBurst(new)
    BY <1>3, OtherInputView
  <1>4. ASSUME NEW mode \in SearchModes, HistorySearchBackward(mode) \/ HistorySearchForward(mode)
        PROVE  KeepsPromise
    BY <1>4, SearchView
  <1>5. CASE BeginningOfHistory \/ EndOfHistory
    BY <1>5, EndsView
  <1>6. CASE DeleteFromHistory \/ DeletePanics
    BY <1>6, DeleteView
  <1> QED  BY <1>1, <1>2, <1>3, <1>4, <1>5, <1>6 DEF EditorNext

LEMMA EmptyLineView ==
  /\ LineOK(EmptyLine) /\ Whole(EmptyLine)
  /\ View(EmptyLine) = [now |-> [text |-> <<>>, position |-> 0], past |-> <<>>, future |-> <<>>]
  <1> DEFINE l == EmptyLine
  <1>1. /\ LineOK(l) /\ l.text = <<>> /\ l.position = 0 /\ l.applied = 0 /\ l.edits = <<>>
        /\ Len(l.edits) = 0
    BY EmptyLineOK DEF EmptyLine
  <1> HIDE DEF l
  <1>2. Whole(l)
    BY <1>1 DEF Whole
  <1>3. Past(l) = <<>>
    <2>1. FirstOnes(l) = {}
      BY <1>1 DEF FirstOnes
    <2> QED  BY <2>1, KeptNone DEF Past
  <1>4. Future(l) = <<>>
    BY <1>1, NoFuture
  <1>5. Now(l) = [text |-> <<>>, position |-> 0]
    BY <1>1 DEF Now, Shown
  <1> QED  BY <1>1, <1>2, <1>3, <1>4, <1>5 DEF View, l

LEMMA PromiseInvariant == EditorSpec => []PromiseInv
  <1>1. EditorInit => PromiseInv
    BY EditorInitInvariant, EmptyLineView DEF EditorInit, PromiseInv
  <1>2. PromiseInv /\ [EditorNext]_editorVars => PromiseInv'
    <2> SUFFICES ASSUME PromiseInv, [EditorNext]_editorVars  PROVE  PromiseInv'
      OBVIOUS
    <2>1. EditorIInv'
      BY EditorNextStep DEF PromiseInv
    <2>2. KeepsPromise
      BY PromiseStep
    <2> QED  BY <2>1, <2>2 DEF PromiseInv, KeepsPromise
  <1> QED  BY <1>1, <1>2, PTL DEF EditorSpec

(* Undo brings back exactly what was shown before the last change, text and *)
(* cursor, redo exactly what undo took away, and a new change forgets it,   *)
(* whatever was coalesced, grouped or shown by a search in between.         *)
THEOREM UndoAlwaysPromised == EditorSpec => UndoPromised
  <1>1. EditorInit => Promise!Init
    BY EmptyLineView DEF EditorInit, Promise!Init, View
  <1>2. PromiseInv /\ [EditorNext]_editorVars =>
          [Promise!Next]_([now |-> Now(line), past |-> Past(line), future |-> Future(line)])
    <2> SUFFICES ASSUME PromiseInv, [EditorNext]_editorVars
                 PROVE  [Promise!Next]_([now |-> Now(line), past |-> Past(line), future |-> Future(line)])
      OBVIOUS
    <2>1. Kind(line, line')
      BY PromiseStep DEF KeepsPromise
    <2>2. Promise!Step(View(line), View(line)') \/ View(line)' = View(line)
      BY <2>1 DEF Kind, View
    <2> QED  BY <2>2 DEF Promise!Next, View
  <1> QED  BY <1>1, <1>2, PromiseInvariant, PTL DEF EditorSpec, UndoPromised, Promise!Spec

-----------------------------------------------------------------------------
(* ThreadPool. *)

(* Items by their progress: what is queued was performed, what a thread    *)
(* runs was started.                                                       *)
ItemsInv ==
  /\ IsFiniteSet(performed)
  /\ ToSet(queue) \subseteq performed
  /\ \A w \in Workers : worker[w] = "busy" => job[w] \in started

(* SomeoneComes while perform() has not acted yet.  Threads only go to     *)
(* sleep on an empty queue, so a queue that is not empty either has an     *)
(* active thread, or a sleeper that perform() is about to notify, or no    *)
(* sleeper at all when perform() is about to spawn a thread.               *)
AtWork == In("ready") \cup In("woken") \cup In("busy")
Coming ==
  queue # <<>> =>
    \/ AtWork # {}
    \/ action = "wake" /\ In("waiting") # {}
    \/ action = "spawn" /\ In("waiting") = {}

PoolIInv == PoolTypeOK /\ CountersExact /\ ItemsInv /\ ThreadPerItem /\ Coming

USE UrgentItems, Limits, FiniteThreads

(* Cardinalities of sets of threads, one thread in or out. *)
LEMMA CountLemma ==
  ASSUME NEW S \in SUBSET Workers, NEW w \in Workers
  PROVE  /\ Cardinality(S) \in Nat
         /\ Cardinality(S) = 0 <=> S = {}
         /\ w \in S => Cardinality(S) > 0 /\ Cardinality(S \ {w}) = Cardinality(S) - 1
         /\ w \notin S => Cardinality(S \cup {w}) = Cardinality(S) + 1
<1>1. IsFiniteSet(S)
  BY FS_Subset
<1>2. Cardinality(S) \in Nat /\ (Cardinality(S) = 0 <=> S = {})
  BY <1>1, FS_CardinalityType, FS_EmptySet
<1>3. Cardinality(S \ {w}) = IF w \in S THEN Cardinality(S) - 1 ELSE Cardinality(S)
  BY <1>1, FS_RemoveElement
<1>4. Cardinality(S \cup {w}) = IF w \in S THEN Cardinality(S) ELSE Cardinality(S) + 1
  BY <1>1, FS_AddElement
<1>. QED
  BY <1>2, <1>3, <1>4

LEMMA ElementMoved ==
  ASSUME NEW S \in SUBSET Workers, NEW T, NEW w \in Workers, NEW to \in BOOLEAN,
         T = IF to THEN S \cup {w} ELSE S \ {w}
  PROVE  Cardinality(T) = Cardinality(S) + (IF to THEN 1 ELSE 0)
                                         - (IF w \in S THEN 1 ELSE 0)
<1>1. /\ Cardinality(S) \in Nat
      /\ w \in S => Cardinality(S \ {w}) = Cardinality(S) - 1
      /\ w \notin S => Cardinality(S \cup {w}) = Cardinality(S) + 1
  BY CountLemma
<1>2. CASE to /\ w \in S
  <2>1. T = S
    <3>1. T = S \cup {w}
      BY <1>2
    <3>. QED
      BY <1>2, <3>1
  <2>2. Cardinality(T) = Cardinality(S)
    BY <2>1
  <2>. QED
    BY <1>1, <1>2, <2>2
<1>3. CASE to /\ w \notin S
  BY <1>1, <1>3
<1>4. CASE ~to /\ w \in S
  BY <1>1, <1>4
<1>5. CASE ~to /\ w \notin S
  <2>1. T = S
    <3>1. T = S \ {w}
      BY <1>5
    <3>. QED
      BY <1>5, <3>1
  <2>2. Cardinality(T) = Cardinality(S)
    BY <2>1
  <2>. QED
    BY <1>1, <1>5, <2>2
<1>. QED
  BY <1>2, <1>3, <1>4, <1>5

(* How the threads are counted when one of them moves. *)
Weight(kinds, state) == IF state \in kinds THEN 1 ELSE 0
Moved(from, to) ==
  /\ Cardinality(Live)' = Cardinality(Live) + Weight(WorkerStates \ {"none"}, to)
                                            - Weight(WorkerStates \ {"none"}, from)
  /\ Cardinality(Sleeping)' = Cardinality(Sleeping) + Weight({"waiting", "woken"}, to)
                                                    - Weight({"waiting", "woken"}, from)
  /\ Cardinality(Free)' = Cardinality(Free) + Weight({"ready", "waiting", "woken"}, to)
                                            - Weight({"ready", "waiting", "woken"}, from)

LEMMA MoveLemma ==
  ASSUME PoolTypeOK, NEW w \in Workers, NEW s \in WorkerStates,
         worker' = [worker EXCEPT ![w] = s]
  PROVE  Moved(worker[w], s)
<1>. DEFINE Among(kinds) == {v \in Workers : worker[v] \in kinds}
<1>1. ASSUME NEW kinds
      PROVE  Cardinality(Among(kinds)') =
               Cardinality(Among(kinds)) + (IF s \in kinds THEN 1 ELSE 0)
                                          - (IF worker[w] \in kinds THEN 1 ELSE 0)
  <2>1. Among(kinds)' = IF s \in kinds THEN Among(kinds) \cup {w} ELSE Among(kinds) \ {w}
    BY DEF PoolTypeOK
  <2>2. w \in Among(kinds) <=> worker[w] \in kinds
    OBVIOUS
  <2>3. Among(kinds) \in SUBSET Workers
    OBVIOUS
  <2>. DEFINE to == s \in kinds
  <2>4. to \in BOOLEAN
    OBVIOUS
  <2>5. Among(kinds)' = IF to THEN Among(kinds) \cup {w} ELSE Among(kinds) \ {w}
    BY <2>1
  <2>. HIDE DEF to
  <2>6. Cardinality(Among(kinds)') =
          Cardinality(Among(kinds)) + (IF to THEN 1 ELSE 0)
                                    - (IF w \in Among(kinds) THEN 1 ELSE 0)
    BY <2>3, <2>4, <2>5, ElementMoved
  <2>. QED
    BY <2>2, <2>6 DEF to
<1>2. /\ Live = Among(WorkerStates \ {"none"})
      /\ Live' = Among(WorkerStates \ {"none"})'
  BY DEF Live, In, PoolTypeOK, WorkerStates
<1>3. /\ Sleeping = Among({"waiting", "woken"})
      /\ Sleeping' = Among({"waiting", "woken"})'
  BY DEF Sleeping, In
<1>4. /\ Free = Among({"ready", "waiting", "woken"})
      /\ Free' = Among({"ready", "waiting", "woken"})'
  BY DEF Free, Sleeping, In
<1>. QED
  BY <1>1, <1>2, <1>3, <1>4 DEF Moved, Weight

(* The sets that are counted hold only threads. *)
LEMMA CountedLemma ==
  /\ Live \in SUBSET Workers /\ Sleeping \in SUBSET Workers /\ Free \in SUBSET Workers
  /\ Cardinality(Live) \in Nat /\ Cardinality(Sleeping) \in Nat
  /\ Cardinality(Free) \in Nat
  /\ Cardinality(Sleeping) <= Cardinality(Free)
<1>1. Live \in SUBSET Workers /\ Sleeping \in SUBSET Workers /\ Free \in SUBSET Workers
  BY DEF Live, Sleeping, Free, In
<1>2. Sleeping \in SUBSET Free /\ IsFiniteSet(Free) /\ IsFiniteSet(Live)
  BY <1>1, FS_Subset DEF Free
<1>. QED
  BY <1>1, <1>2, FS_Subset, FS_CardinalityType

(* The elements of a queue, one more or one less. *)
LEMMA QueueLemma ==
  ASSUME NEW q \in Seq(Items), NEW i \in Items
  PROVE  /\ Append(q, i) \in Seq(Items) /\ Len(Append(q, i)) = Len(q) + 1
         /\ ToSet(Append(q, i)) \subseteq ToSet(q) \cup {i}
         /\ q # <<>> => /\ Head(q) \in Items /\ Head(q) \in ToSet(q)
                        /\ Tail(q) \in Seq(Items) /\ Len(Tail(q)) = Len(q) - 1
                        /\ ToSet(Tail(q)) \subseteq ToSet(q)
         /\ ToSet(q) = {} => q = <<>>
<1>1. Append(q, i) \in Seq(Items) /\ Len(Append(q, i)) = Len(q) + 1
  OBVIOUS
<1>2. ToSet(Append(q, i)) \subseteq ToSet(q) \cup {i}
  BY <1>1 DEF ToSet
<1>3. ASSUME q # <<>>
      PROVE  /\ Head(q) \in Items /\ Head(q) \in ToSet(q)
             /\ Tail(q) \in Seq(Items) /\ Len(Tail(q)) = Len(q) - 1
             /\ ToSet(Tail(q)) \subseteq ToSet(q)
  <2>1. Len(q) > 0 /\ Head(q) = q[1]
    BY <1>3
  <2>2. Tail(q) \in Seq(Items) /\ Len(Tail(q)) = Len(q) - 1
    BY <1>3
  <2>3. \A k \in 1..Len(Tail(q)) : Tail(q)[k] = q[k + 1]
    BY <1>3
  <2>. QED
    BY <2>1, <2>2, <2>3 DEF ToSet
<1>4. ToSet(q) = {} => q = <<>>
  <2>1. ASSUME q # <<>> PROVE q[1] \in ToSet(q)
    BY <2>1 DEF ToSet
  <2>. QED
    BY <2>1
<1>. QED
  BY <1>1, <1>2, <1>3, <1>4

-----------------------------------------------------------------------------
(* The invariant holds initially. *)
LEMMA PoolInitInvariant == PoolInit => PoolIInv
<1>. SUFFICES ASSUME PoolInit PROVE PoolIInv
  OBVIOUS
<1>1. Live = {} /\ Sleeping = {} /\ Free = {}
  BY DEF PoolInit, Live, Sleeping, Free, In
<1>2. Cardinality({}) = 0 /\ IsFiniteSet({})
  BY FS_EmptySet
<1>3. PoolTypeOK
  BY DEF PoolInit, PoolTypeOK, WorkerStates
<1>4. CountersExact
  <2>1. performed \cap Urgent = {}
    BY DEF PoolInit
  <2>. QED
    BY <1>1, <1>2, <2>1 DEF PoolInit, CountersExact, Spawning
<1>5. ItemsInv
  BY <1>2 DEF PoolInit, ItemsInv, ToSet
<1>6. ThreadPerItem /\ Coming
  BY <1>1, <1>2 DEF PoolInit, ThreadPerItem, Coming, FreeSoon, Spawning
<1>. QED
  BY <1>3, <1>4, <1>5, <1>6 DEF PoolIInv

(* perform_inner() keeps the invariant. *)
LEMMA EnqueueStep ==
  ASSUME PoolIInv, NEW i \in Items, Enqueue(i)
  PROVE  PoolIInv'
<1>. USE DEF PoolIInv
<1>1. /\ Live' = Live /\ Sleeping' = Sleeping /\ Free' = Free /\ AtWork' = AtWork
      /\ In("waiting")' = In("waiting")
  BY DEF Enqueue, Live, Sleeping, Free, AtWork, In
<1>2. Decide(i) \in {"none", "wake", "spawn"}
  BY DEF Decide
<1>3. queue' \in Seq(Items) /\ Len(queue') = Len(queue) + 1
      /\ ToSet(queue') \subseteq ToSet(queue) \cup {i}
  BY QueueLemma DEF Enqueue, PoolTypeOK
<1>4. Len(queue) \in Nat /\ (queue # <<>> => Len(queue) > 0) /\ (Len(queue) > 0 => queue # <<>>)
  BY DEF PoolTypeOK
<1>5. PoolTypeOK'
  BY <1>2, <1>3 DEF Enqueue, PoolTypeOK
<1>6. ItemsInv'
  BY <1>3, FS_AddElement DEF Enqueue, ItemsInv
<1>7. CountersExact'
  <2>. DEFINE K == performed \cap Urgent
  <2>1. IsFiniteSet(K)
    BY FS_Subset DEF ItemsInv
  <2>2. Cardinality(K) \in Nat
    BY <2>1, FS_CardinalityType
  <2>3. Cardinality(K \cup {i}) = Cardinality(K) + 1
    BY <2>1, FS_AddElement DEF Enqueue
  <2>4. K' = IF i \in Urgent THEN K \cup {i} ELSE K
    BY DEF Enqueue
  <2>. HIDE DEF K
  <2>5. Cardinality(K)' = IF i \in Urgent THEN Cardinality(K) + 1 ELSE Cardinality(K)
    <3>1. CASE i \in Urgent
      BY <2>3, <2>4, <3>1
    <3>2. CASE i \notin Urgent
      BY <2>4, <3>2
    <3>. QED
      BY <3>1, <3>2
  <2>6. total <= MaxThreads + Cardinality(K)
    BY DEF CountersExact, K
  <2>7. total' <= MaxThreads + Cardinality(K)'
    BY <2>2, <2>5, <2>6 DEF Enqueue, Decide, PoolTypeOK
  <2>8. total' = Cardinality(Live)' + Spawning'
    BY <1>1, CountedLemma DEF Enqueue, CountersExact, Spawning
  <2>9. waiting' = Cardinality(Sleeping)'
    BY <1>1 DEF Enqueue, CountersExact
  <2>. QED
    BY <2>7, <2>8, <2>9 DEF CountersExact, K
<1>8. ThreadPerItem'
  <2>1. CASE Decide(i) = "none"
    <3>1. unserved' # {}
      BY <2>1 DEF Enqueue
    <3>. QED
      BY <3>1 DEF ThreadPerItem
  <2>2. CASE Decide(i) = "wake"
    <3>1. waiting >= Len(queue) + 1
      BY <2>2 DEF Decide
    <3>2. Len(queue') <= Cardinality(Free)
      BY <1>3, <1>4, <3>1, CountedLemma DEF CountersExact
    <3>. QED
      BY <1>1, <2>2, <3>2, CountedLemma DEF ThreadPerItem, FreeSoon, Spawning, Enqueue
  <2>3. CASE Decide(i) = "spawn"
    BY <1>1, <1>3, <1>4, <2>3, CountedLemma DEF ThreadPerItem, FreeSoon, Spawning, Enqueue
  <2>. QED
    BY <1>2, <2>1, <2>2, <2>3
<1>9. Coming'
  <2>1. SUFFICES ASSUME AtWork = {}
                 PROVE  \/ action' = "wake" /\ In("waiting") # {}
                        \/ action' = "spawn" /\ In("waiting") = {}
    BY <1>1 DEF Coming
  <2>2. queue = <<>> /\ Len(queue) = 0
    BY <1>4, <2>1 DEF Coming, Enqueue
  <2>3. Sleeping = In("waiting") /\ Live = In("waiting")
    BY <2>1 DEF AtWork, Sleeping, Live, In, PoolTypeOK, WorkerStates
  <2>4. waiting = 0 <=> In("waiting") = {}
    BY <2>3, CountLemma, FiniteThreads, FS_EmptySet, FS_Subset, CountedLemma DEF CountersExact
  <2>5. CASE waiting = 0
    <3>1. total = 0
      BY <2>3, <2>5, <1>1 DEF CountersExact, Enqueue, Spawning
    <3>. QED
      BY <2>2, <2>4, <2>5, <3>1 DEF Decide, Enqueue
  <2>6. CASE waiting # 0
    BY <2>2, <2>4, <2>6 DEF Decide, Enqueue, PoolTypeOK
  <2>. QED
    BY <2>5, <2>6
<1>. QED
  BY <1>5, <1>6, <1>7, <1>8, <1>9

(* What perform() does after it released the mutex keeps the invariant. *)
LEMMA ActStep ==
  ASSUME PoolIInv, Wake \/ SpawnFails \/ \E w \in Workers : Spawn(w)
  PROVE  PoolIInv'
<1>. USE DEF PoolIInv
<1>1. CASE Wake
  <2>1. CASE In("waiting") = {}
    <3>1. worker' = worker
      BY <1>1, <2>1 DEF Wake
    <3>2. /\ Live' = Live /\ Sleeping' = Sleeping /\ Free' = Free /\ AtWork' = AtWork
      BY <3>1 DEF Live, Sleeping, Free, AtWork, In
    <3>3. PoolTypeOK' /\ ItemsInv'
      BY <1>1, <3>1 DEF Wake, PoolTypeOK, ItemsInv
    <3>4. CountersExact' /\ ThreadPerItem'
      BY <1>1, <3>2 DEF Wake, CountersExact, ThreadPerItem, FreeSoon, Spawning
    <3>5. Coming'
      BY <1>1, <2>1, <3>2 DEF Wake, Coming
    <3>. QED
      BY <3>3, <3>4, <3>5
  <2>2. ASSUME NEW w \in In("waiting"), worker' = [worker EXCEPT ![w] = "woken"]
        PROVE  PoolIInv'
    <3>1. w \in Workers /\ worker[w] = "waiting" /\ "woken" \in WorkerStates
      BY <2>2 DEF In, WorkerStates
    <3>2. /\ Cardinality(Live)' = Cardinality(Live)
          /\ Cardinality(Sleeping)' = Cardinality(Sleeping)
          /\ Cardinality(Free)' = Cardinality(Free)
      <4>1. Moved("waiting", "woken")
        BY <2>2, <3>1, MoveLemma
      <4>. QED
        BY <4>1, CountedLemma DEF Moved, Weight, WorkerStates
    <3>3. PoolTypeOK' /\ ItemsInv'
      BY <1>1, <2>2, <3>1 DEF Wake, PoolTypeOK, ItemsInv
    <3>4. CountersExact' /\ ThreadPerItem'
      BY <1>1, <3>2 DEF Wake, CountersExact, ThreadPerItem, FreeSoon, Spawning
    <3>5. w \in AtWork'
      BY <2>2, <3>1 DEF AtWork, In, PoolTypeOK
    <3>. QED
      BY <3>3, <3>4, <3>5 DEF Coming
  <2>. QED
    BY <1>1, <2>1, <2>2 DEF Wake
<1>2. CASE SpawnFails
  <2>1. /\ Live' = Live /\ Sleeping' = Sleeping /\ Free' = Free /\ AtWork' = AtWork
    BY <1>2 DEF SpawnFails, Live, Sleeping, Free, AtWork, In
  <2>2. ToSet(queue) \subseteq performed /\ (ToSet(queue) = {} => queue = <<>>)
    BY QueueLemma DEF ItemsInv, PoolTypeOK, ToSet
  <2>3. total = Cardinality(Live) + 1 /\ Cardinality(Live) > 0
    BY <1>2, CountedLemma DEF SpawnFails, CountersExact, Spawning, PoolTypeOK
  <2>4. PoolTypeOK' /\ ItemsInv'
    BY <1>2, <2>2 DEF SpawnFails, PoolTypeOK, ItemsInv
  <2>5. CountersExact'
    <3>1. IsFiniteSet(performed \cap Urgent)
      BY FS_Subset DEF ItemsInv
    <3>2. Cardinality(performed \cap Urgent) \in Nat
      BY <3>1, FS_CardinalityType
    <3>. QED
      BY <1>2, <2>1, <2>3, <3>2, CountedLemma DEF SpawnFails, CountersExact, Spawning
  <2>6. ThreadPerItem'
    <3>1. CASE unserved' = {}
      <4>1. queue' = <<>>
        BY <1>2, <2>2, <3>1 DEF SpawnFails
      <4>. QED
        BY <1>2, <2>1, <4>1, CountedLemma DEF ThreadPerItem, FreeSoon, Spawning, SpawnFails
    <3>. QED
      BY <3>1 DEF ThreadPerItem
  <2>7. AtWork # {} \/ In("waiting") # {}
    <3>1. Live # {}
      BY <2>3, FS_EmptySet
    <3>. QED
      BY <3>1 DEF Live, AtWork, In, PoolTypeOK, WorkerStates
  <2>8. Coming'
    BY <1>2, <2>1, <2>7 DEF Coming, SpawnFails
  <2>. QED
    BY <2>4, <2>5, <2>6, <2>8
<1>3. ASSUME NEW w \in Workers, Spawn(w) PROVE PoolIInv'
  <2>1. worker' = [worker EXCEPT ![w] = "ready"] /\ worker[w] = "none" /\ "ready" \in WorkerStates
    BY <1>3 DEF Spawn, WorkerStates
  <2>2. /\ Cardinality(Live)' = Cardinality(Live) + 1
        /\ Cardinality(Sleeping)' = Cardinality(Sleeping)
        /\ Cardinality(Free)' = Cardinality(Free) + 1
    <3>1. Moved("none", "ready")
      BY <2>1, MoveLemma
    <3>. QED
      BY <3>1, CountedLemma DEF Moved, Weight, WorkerStates
  <2>3. PoolTypeOK' /\ ItemsInv'
    BY <1>3, <2>1 DEF Spawn, PoolTypeOK, ItemsInv
  <2>4. CountersExact' /\ ThreadPerItem'
    BY <1>3, <2>2, CountedLemma DEF Spawn, CountersExact, ThreadPerItem, FreeSoon, Spawning
  <2>5. w \in AtWork'
    BY <2>1 DEF AtWork, In, PoolTypeOK
  <2>. QED
    BY <2>3, <2>4, <2>5 DEF Coming
<1>. QED
  BY <1>1, <1>2, <1>3

(* The end of the critical section of a thread that looks for work. *)
LEMMA TakeOrExitStep ==
  ASSUME PoolIInv, NEW w \in Workers, TakeOrExit(w),
         \/ worker[w] = "ready" /\ waiting' = waiting
         \/ worker[w] = "woken" /\ waiting' = waiting - 1,
         UNCHANGED <<action, performed, finished, unserved>>
  PROVE  PoolIInv'
<1>. USE DEF PoolIInv
<1>1. /\ (Cardinality(Live) > 0) /\ (Cardinality(Free) > 0)
      /\ worker[w] = "woken" => Cardinality(Sleeping) > 0
  <2>1. w \in Live /\ w \in Free /\ (worker[w] = "woken" => w \in Sleeping)
    BY DEF Live, Free, Sleeping, In
  <2>. QED
    BY <2>1, CountLemma, CountedLemma
<1>l. IsFiniteSet(performed \cap Urgent) /\ Cardinality(performed \cap Urgent) \in Nat
  BY FS_Subset, FS_CardinalityType DEF ItemsInv
<1>2. CASE queue # <<>>
  <2>1. /\ Head(queue) \in Items /\ Head(queue) \in performed
        /\ Tail(queue) \in Seq(Items) /\ Len(Tail(queue)) = Len(queue) - 1
        /\ ToSet(Tail(queue)) \subseteq performed
    BY <1>2, QueueLemma DEF PoolTypeOK, ItemsInv
  <2>2. worker' = [worker EXCEPT ![w] = "busy"] /\ "busy" \in WorkerStates
    BY <1>2 DEF TakeOrExit, WorkerStates
  <2>3. /\ Cardinality(Live)' = Cardinality(Live)
        /\ Cardinality(Sleeping)' =
             Cardinality(Sleeping) - (IF worker[w] = "woken" THEN 1 ELSE 0)
        /\ Cardinality(Free)' = Cardinality(Free) - 1
    <3>1. Moved(worker[w], "busy")
      BY <2>2, MoveLemma
    <3>. QED
      BY <3>1, CountedLemma DEF Moved, Weight, WorkerStates
  <2>4. PoolTypeOK'
    <3>1. waiting' \in Nat
      BY <1>1 DEF PoolTypeOK, CountersExact
    <3>. QED
      BY <1>2, <2>1, <2>2, <3>1 DEF TakeOrExit, PoolTypeOK
  <2>5. ItemsInv'
    BY <1>2, <2>1, <2>2 DEF TakeOrExit, ItemsInv, PoolTypeOK
  <2>6. CountersExact'
    BY <1>2, <2>3, CountedLemma DEF TakeOrExit, CountersExact, Spawning
  <2>7. ThreadPerItem'
    BY <1>2, <2>1, <2>3, CountedLemma DEF TakeOrExit, ThreadPerItem, FreeSoon, Spawning, PoolTypeOK
  <2>8. w \in AtWork'
    BY <2>2 DEF AtWork, In, PoolTypeOK
  <2>. QED
    BY <2>4, <2>5, <2>6, <2>7, <2>8 DEF Coming
<1>3. CASE queue = <<>>
  <2>1. worker' = [worker EXCEPT ![w] = "none"] /\ "none" \in WorkerStates
    BY <1>3 DEF TakeOrExit, WorkerStates
  <2>2. /\ Cardinality(Live)' = Cardinality(Live) - 1
        /\ Cardinality(Sleeping)' =
             Cardinality(Sleeping) - (IF worker[w] = "woken" THEN 1 ELSE 0)
        /\ Cardinality(Free)' = Cardinality(Free) - 1
    <3>1. Moved(worker[w], "none")
      BY <2>1, MoveLemma
    <3>. QED
      BY <3>1, CountedLemma DEF Moved, Weight, WorkerStates
  <2>3. queue' = <<>> /\ total' = total - 1 /\ UNCHANGED <<job, started>>
    BY <1>3 DEF TakeOrExit
  <2>4. PoolTypeOK'
    <3>1. total' \in Nat
      <4>1. total > 0 /\ total \in Nat
        BY <1>1, CountedLemma DEF PoolTypeOK, CountersExact, Spawning
      <4>. QED
        BY <2>3, <4>1
    <3>2. waiting' \in Nat
      <4>1. worker[w] = "woken" => waiting > 0
        BY <1>1 DEF CountersExact
      <4>2. waiting \in Nat
        BY DEF PoolTypeOK
      <4>. QED
        BY <4>1, <4>2
    <3>3. worker' \in [Workers -> WorkerStates]
      BY <2>1 DEF PoolTypeOK
    <3>. QED
      BY <2>3, <3>1, <3>2, <3>3 DEF PoolTypeOK
  <2>5. ItemsInv'
    BY <1>3, <2>1, <2>3 DEF ItemsInv, PoolTypeOK
  <2>6. CountersExact'
    <3>1. /\ total = Cardinality(Live) + Spawning /\ waiting = Cardinality(Sleeping)
          /\ total <= MaxThreads + Cardinality(performed \cap Urgent)
          /\ total \in Nat /\ waiting \in Nat /\ Spawning \in Nat /\ Spawning' = Spawning
      BY DEF PoolTypeOK, CountersExact, Spawning
    <3>2. total' = Cardinality(Live)' + Spawning'
      BY <2>2, <2>3, <3>1, CountedLemma
    <3>3. waiting' = Cardinality(Sleeping)'
      BY <2>2, <3>1, CountedLemma
    <3>4. total' <= MaxThreads + Cardinality(performed' \cap Urgent)
      BY <1>l, <2>3, <3>1
    <3>. QED
      BY <3>2, <3>3, <3>4 DEF CountersExact
  <2>7. ThreadPerItem'
    BY <1>1, <2>2, <2>3, CountedLemma DEF ThreadPerItem, FreeSoon, Spawning
  <2>. QED
    BY <2>3, <2>4, <2>5, <2>6, <2>7 DEF Coming
<1>. QED
  BY <1>2, <1>3

(* A thread that looks for work, waits, wakes up or ends its item keeps    *)
(* the invariant.                                                          *)
LEMMA WorkerStep ==
  ASSUME PoolIInv, NEW w \in Workers,
         Dequeue(w) \/ EndWait(w) \/ Resume(w) \/ Finish(w)
  PROVE  PoolIInv'
<1>. USE DEF PoolIInv
<1>1. CASE Dequeue(w) /\ queue = <<>> /\ total = SoftMin
  <2>1. /\ worker' = [worker EXCEPT ![w] = "waiting"] /\ worker[w] = "ready"
        /\ waiting' = waiting + 1
        /\ UNCHANGED <<queue, total, action, job, performed, started, finished, unserved>>
    BY <1>1 DEF Dequeue
  <2>2. Moved("ready", "waiting")
    BY <2>1, MoveLemma DEF WorkerStates
  <2>3. /\ Cardinality(Live)' = Cardinality(Live)
        /\ Cardinality(Sleeping)' = Cardinality(Sleeping) + 1
        /\ Cardinality(Free)' = Cardinality(Free)
    BY <2>2, CountedLemma DEF Moved, Weight, WorkerStates
  <2>4. PoolTypeOK' /\ ItemsInv'
    BY <2>1 DEF PoolTypeOK, ItemsInv, WorkerStates
  <2>5. CountersExact' /\ ThreadPerItem'
    BY <2>1, <2>3 DEF CountersExact, ThreadPerItem, FreeSoon, Spawning
  <2>6. Coming'
    BY <1>1, <2>1 DEF Coming
  <2>. QED
    BY <2>4, <2>5, <2>6
<1>2. CASE Dequeue(w) /\ ~(queue = <<>> /\ total = SoftMin)
  BY <1>2, TakeOrExitStep DEF Dequeue
<1>3. CASE EndWait(w)
  <2>1. /\ worker' = [worker EXCEPT ![w] = "woken"] /\ worker[w] = "waiting"
        /\ UNCHANGED <<queue, total, waiting, action, job, performed, started, finished, unserved>>
    BY <1>3 DEF EndWait
  <2>2. Moved("waiting", "woken")
    BY <2>1, MoveLemma DEF WorkerStates
  <2>3. /\ Cardinality(Live)' = Cardinality(Live)
        /\ Cardinality(Sleeping)' = Cardinality(Sleeping)
        /\ Cardinality(Free)' = Cardinality(Free)
    BY <2>2, CountedLemma DEF Moved, Weight, WorkerStates
  <2>4. PoolTypeOK' /\ ItemsInv'
    BY <2>1 DEF PoolTypeOK, ItemsInv, WorkerStates
  <2>5. CountersExact' /\ ThreadPerItem'
    BY <2>1, <2>3 DEF CountersExact, ThreadPerItem, FreeSoon, Spawning
  <2>6. w \in AtWork'
    BY <2>1 DEF AtWork, In, PoolTypeOK
  <2>. QED
    BY <2>4, <2>5, <2>6 DEF Coming
<1>4. CASE Resume(w)
  BY <1>4, TakeOrExitStep DEF Resume
<1>5. CASE Finish(w)
  <2>1. /\ worker' = [worker EXCEPT ![w] = "ready"] /\ worker[w] = "busy"
        /\ UNCHANGED <<queue, total, waiting, action, performed, started, unserved>>
    BY <1>5 DEF Finish
  <2>2. Moved("busy", "ready")
    BY <2>1, MoveLemma DEF WorkerStates
  <2>3. /\ Cardinality(Live)' = Cardinality(Live)
        /\ Cardinality(Sleeping)' = Cardinality(Sleeping)
        /\ Cardinality(Free)' = Cardinality(Free) + 1
    BY <2>2, CountedLemma DEF Moved, Weight, WorkerStates
  <2>4. PoolTypeOK'
    <3>1. finished' \subseteq started
      BY <1>5, <2>1 DEF Finish, ItemsInv, PoolTypeOK
    <3>. QED
      BY <1>5, <2>1, <3>1 DEF Finish, PoolTypeOK, WorkerStates
  <2>5. ItemsInv'
    BY <1>5, <2>1 DEF Finish, ItemsInv, PoolTypeOK
  <2>6. CountersExact' /\ ThreadPerItem'
    BY <2>1, <2>3, CountedLemma
    DEF CountersExact, ThreadPerItem, FreeSoon, Spawning, PoolTypeOK
  <2>7. w \in AtWork'
    BY <2>1 DEF AtWork, In, PoolTypeOK
  <2>. QED
    BY <2>4, <2>5, <2>6, <2>7 DEF Coming
<1>. QED
  BY <1>1, <1>2, <1>3, <1>4, <1>5

(* Every step keeps the invariant. *)
LEMMA PoolNextStep == PoolIInv /\ [PoolNext]_poolVars => PoolIInv'
<1>. SUFFICES ASSUME PoolIInv, [PoolNext]_poolVars PROVE PoolIInv'
  OBVIOUS
<1>1. CASE UNCHANGED poolVars
  <2>1. /\ Live' = Live /\ Sleeping' = Sleeping /\ Free' = Free /\ AtWork' = AtWork
        /\ In("waiting")' = In("waiting") /\ Spawning' = Spawning
    BY <1>1 DEF poolVars, Live, Sleeping, Free, AtWork, In, Spawning
  <2>2. PoolTypeOK' /\ ItemsInv'
    BY <1>1 DEF PoolIInv, poolVars, PoolTypeOK, ItemsInv
  <2>3. CountersExact' /\ ThreadPerItem' /\ Coming'
    BY <1>1, <2>1 DEF PoolIInv, poolVars, CountersExact, ThreadPerItem, FreeSoon, Coming
  <2>. QED
    BY <2>2, <2>3 DEF PoolIInv
<1>2. CASE PoolNext
  BY <1>2, EnqueueStep, ActStep, WorkerStep DEF PoolNext
<1>. QED
  BY <1>1, <1>2

(* The invariant holds throughout. *)
LEMMA PoolInvariant == PoolSpec => []PoolIInv
BY PoolInitInvariant, PoolNextStep, PTL DEF PoolSpec

(* The types, for any threads, items and limits. *)
THEOREM PoolTypeCorrect == PoolSpec => []PoolTypeOK
<1>1. PoolIInv => PoolTypeOK
  BY DEF PoolIInv
<1>. QED
  BY <1>1, PoolInvariant, PTL

(* total_threads and waiting_threads count exactly the threads they stand  *)
(* for, through failed spawns and waits that end as they are notified, and *)
(* only urgent items exceed max_threads.                                   *)
THEOREM CountersAlwaysExact == PoolSpec => []CountersExact
<1>1. PoolIInv => CountersExact
  BY DEF PoolIInv
<1>. QED
  BY <1>1, PoolInvariant, PTL

(* perform_inner() never leaves an item on the queue with every thread     *)
(* asleep or gone.                                                         *)
THEOREM NoItemStranded == PoolSpec => []SomeoneComes
<1>1. PoolIInv => SomeoneComes
  BY DEF PoolIInv, Coming, AtWork, SomeoneComes
<1>. QED
  BY <1>1, PoolInvariant, PTL

(* While a thread was provided for each item, every queued item has a      *)
(* thread that is free for it: urgent items do not wait for busy threads.  *)
THEOREM UrgentServed == PoolSpec => []ThreadPerItem
<1>1. PoolIInv => ThreadPerItem
  BY DEF PoolIInv
<1>. QED
  BY <1>1, PoolInvariant, PTL

(* The invariants of the counters and the queue in one, as the run checks it. *)
THEOREM PoolAlwaysConsistent == PoolSpec => []PoolConsistent
  BY PoolTypeCorrect, CountersAlwaysExact, NoItemStranded, PTL DEF PoolConsistent

-----------------------------------------------------------------------------
(* Debounce. *)
USE MaxRequestsIsNat, HasTimeoutIsBool

(* The tokens that were given out are those below next_token. *)
TokensInv ==
  /\ \A t \in Tokens : thread[t] = "none" <=> t >= next_token
  /\ active_token < next_token

(* Everything that was taken so far is older than request n. *)
Older(n) ==
  /\ newest < n
  /\ \A t \in Tokens : request[t] < n
  /\ \A i \in 1..Len(main_queue) : main_queue[i] < n
  /\ \A i \in 1..Len(batch) : batch[i] < n

(* The request that waits is the newest of all, and nothing taken is newer *)
(* than the last request made.                                             *)
AgeInv ==
  /\ Older(requested + 1)
  /\ next_req <= requested
  /\ next_req # NoRequest => Older(next_req)

(* A thread that is at work has a request. *)
JobInv == \A t \in Tokens : thread[t] \in {"handler", "push"} => request[t] # NoRequest

(* The main thread has no callbacks left when it comes to take some. *)
BatchInv == mainpc # "callbacks" => batch = <<>>

DebounceIInv ==
  /\ DebounceTypeOK /\ TokensInv /\ AgeInv /\ JobInv /\ BatchInv
  /\ PendingHasThread /\ NoResultStranded


(* The invariant holds initially. *)
LEMMA DebounceInitInvariant == DebounceInit => DebounceIInv
<1>. SUFFICES ASSUME DebounceInit PROVE DebounceIInv
  OBVIOUS
<1>1. DebounceTypeOK
  <2>1. next_req \in RequestIds \cup {NoRequest} /\ active_token \in Tokens \cup {NoToken}
    BY DEF DebounceInit
  <2>2. next_token \in 1..requested + 1
    BY DEF DebounceInit
  <2>s. <<>> \in Seq(RequestIds)
    OBVIOUS
  <2>3. thread \in [Tokens -> {"none", "pooled", "handler", "push", "post", "loop", "gone"}]
    BY DEF DebounceInit
  <2>4. request \in [Tokens -> RequestIds \cup {NoRequest}]
    BY DEF DebounceInit
  <2>5. main_queue \in Seq(RequestIds) /\ batch \in Seq(RequestIds)
    BY <2>s DEF DebounceInit
  <2>6. late \in BOOLEAN /\ signalled \in BOOLEAN
    BY DEF DebounceInit
  <2>7. /\ mainpc \in {"idle", "consumed", "callbacks"} /\ abandoned \subseteq Tokens
        /\ requested \in 0..MaxRequests /\ newest \in 0..MaxRequests
    BY DEF DebounceInit
  <2>. QED
    BY <2>1, <2>2, <2>3, <2>4, <2>5, <2>7, <2>6 DEF DebounceTypeOK
<1>2. TokensInv /\ JobInv /\ BatchInv /\ PendingHasThread /\ NoResultStranded
  BY DEF DebounceInit, TokensInv, JobInv, BatchInv, PendingHasThread, NoResultStranded, Tokens,
         NoToken, NoRequest
<1>3. AgeInv
  BY DEF DebounceInit, AgeInv, Older, NoRequest, Tokens
<1>. QED
  BY <1>1, <1>2, <1>3 DEF DebounceIInv

(* What is older than a request is older than the next. *)
LEMMA OlderMono ==
  ASSUME DebounceTypeOK, NEW n \in Nat, Older(n)
  PROVE  Older(n + 1)
<1>1. newest \in Nat /\ \A t \in Tokens : request[t] \in Nat
  BY DEF DebounceTypeOK, RequestIds, NoRequest
<1>2. /\ \A i \in 1..Len(main_queue) : main_queue[i] \in Nat
      /\ \A i \in 1..Len(batch) : batch[i] \in Nat
  BY DEF DebounceTypeOK, RequestIds
<1>. QED
  BY <1>1, <1>2 DEF Older

(* A new request: it is the newest, and has a thread. *)
LEMMA PerformStep ==
  ASSUME DebounceIInv, NEW r \in RequestIds, DebouncePerform(r)
  PROVE  DebounceIInv'
<1>. USE DEF DebounceIInv
<1>1. /\ r \in 1..MaxRequests /\ r = requested + 1 /\ requested' = r /\ next_req' = r
      /\ next_token \in Tokens /\ next_token \in Nat /\ requested \in Nat
      /\ UNCHANGED <<request, mainq, main>>
  BY DEF DebouncePerform, DebounceTypeOK, RequestIds, Tokens
<1>a. AgeInv'
  <2>1. Older(r) /\ Older(r + 1)
    BY <1>1, OlderMono DEF AgeInv
  <2>2. \A n : Older(n) => Older(n)'
    BY <1>1 DEF Older, mainq, main
  <2>. QED
    BY <1>1, <2>1, <2>2 DEF AgeInv
<1>b. BatchInv'
  BY <1>1 DEF BatchInv, main
<1>2. CASE active_token = NoToken \/ (active_token # NoToken /\ late)
  <2>1. /\ active_token' = next_token /\ next_token' = next_token + 1 /\ late' = FALSE
        /\ thread' = [thread EXCEPT ![next_token] = "pooled"]
        /\ abandoned' \subseteq abandoned \cup {active_token}
        /\ active_token = NoToken => abandoned' = abandoned
    BY <1>2 DEF DebouncePerform
  <2>2. thread[next_token] = "none"
    BY <1>1 DEF TokensInv
  <2>3. DebounceTypeOK'
    <3>1. abandoned' \subseteq Tokens
      BY <2>1 DEF DebounceTypeOK
    <3>2. /\ next_req' \in RequestIds /\ active_token' \in Tokens
          /\ next_token' \in 1..requested' + 1 /\ requested' \in 0..MaxRequests
      BY <1>1, <2>1 DEF DebounceTypeOK, RequestIds
    <3>3. thread' \in [Tokens -> {"none", "pooled", "handler", "push", "post", "loop", "gone"}]
      BY <2>1 DEF DebounceTypeOK
    <3>. QED
      BY <1>1, <2>1, <3>1, <3>2, <3>3 DEF DebounceTypeOK, mainq, main
  <2>4. TokensInv'
    BY <1>1, <2>1 DEF TokensInv, DebounceTypeOK, Tokens
  <2>5. PendingHasThread'
    BY <1>1, <2>1 DEF PendingHasThread, DebounceTypeOK, Tokens, NoToken
  <2>6. NoResultStranded'
    BY <1>1, <2>1, <2>2 DEF NoResultStranded, DebounceTypeOK, mainq, main
  <2>7. JobInv'
    BY <1>1, <2>1 DEF JobInv, DebounceTypeOK
  <2>. QED
    BY <1>a, <1>b, <2>3, <2>4, <2>5, <2>6, <2>7
<1>3. CASE active_token # NoToken /\ ~late
  <2>1. UNCHANGED <<active_token, next_token, late, thread, abandoned>>
    BY <1>3 DEF DebouncePerform
  <2>2. DebounceTypeOK'
    BY <1>1, <2>1 DEF DebounceTypeOK, RequestIds, Tokens, mainq, main
  <2>3. TokensInv' /\ JobInv' /\ PendingHasThread' /\ NoResultStranded'
    BY <1>1, <1>3, <2>1 DEF TokensInv, JobInv, PendingHasThread, NoResultStranded, mainq,
         main
  <2>. QED
    BY <1>a, <1>b, <2>2, <2>3
<1>. QED
  BY <1>2, <1>3

(* The steps of a background thread. *)
LEMMA ThreadKeeps ==
  ASSUME DebounceIInv, NEW t \in Tokens, ThreadStep(t) \/ HandlerReturns(t)
  PROVE  DebounceIInv'
<1>. USE DEF DebounceIInv
<1>1. CASE RunNext(t) /\ next_req # NoRequest
  <2>1. /\ request' = [request EXCEPT ![t] = next_req] /\ next_req' = NoRequest /\ late' = FALSE
        /\ thread' = [thread EXCEPT ![t] = "handler"] /\ thread[t] \in {"pooled", "loop"}
        /\ UNCHANGED <<active_token, next_token, mainq, main, requested, abandoned>>
    BY <1>1 DEF RunNext, Idle
  <2>2. DebounceTypeOK'
    BY <1>1, <2>1 DEF DebounceTypeOK, mainq, main, RequestIds
  <2>3. TokensInv' /\ JobInv' /\ PendingHasThread' /\ NoResultStranded' /\ BatchInv'
    BY <1>1, <2>1 DEF TokensInv, JobInv, PendingHasThread, NoResultStranded, BatchInv,
                      DebounceTypeOK, mainq, main, NoRequest
  <2>4. AgeInv'
    BY <1>1, <2>1 DEF AgeInv, Older, DebounceTypeOK, RequestIds, mainq, main, NoRequest
  <2>. QED
    BY <2>2, <2>3, <2>4
<1>2. CASE RunNext(t) /\ next_req = NoRequest
  <2>1. /\ active_token' = (IF t = active_token THEN NoToken ELSE active_token)
        /\ thread' = [thread EXCEPT ![t] = "gone"] /\ thread[t] \in {"pooled", "loop"}
        /\ UNCHANGED <<request, next_req, late, next_token, mainq, main, requested, abandoned>>
    BY <1>2 DEF RunNext, Idle
  <2>2. DebounceTypeOK'
    BY <2>1 DEF DebounceTypeOK, mainq, main
  <2>3. TokensInv'
    BY <2>1 DEF TokensInv, DebounceTypeOK, Tokens, NoToken
  <2>4. PendingHasThread' /\ NoResultStranded' /\ JobInv' /\ BatchInv' /\ AgeInv'
    BY <1>2, <2>1 DEF JobInv, PendingHasThread, NoResultStranded, BatchInv, AgeInv, Older,
         DebounceTypeOK, mainq, main
  <2>. QED
    BY <2>2, <2>3, <2>4
<1>3. CASE HandlerReturns(t)
  <2>1. DebounceTypeOK'
    BY <1>3 DEF HandlerReturns, DebounceTypeOK, data, mainq, main
  <2>2. TokensInv' /\ JobInv' /\ PendingHasThread' /\ NoResultStranded' /\ BatchInv' /\ AgeInv'
    BY <1>3 DEF HandlerReturns, TokensInv, JobInv, PendingHasThread, NoResultStranded,
         BatchInv,
                AgeInv, Older, DebounceTypeOK, data, mainq, main
  <2>. QED
    BY <2>1, <2>2
<1>4. CASE Push(t)
  <2>1. /\ main_queue' = Append(main_queue, request[t]) /\ thread' = [thread EXCEPT ![t] = "post"]
        /\ thread[t] = "push" /\ request[t] \in RequestIds
        /\ UNCHANGED <<data, request, signalled, main, requested, abandoned>>
    BY <1>4 DEF Push, DebounceTypeOK, JobInv
  <2>2. main_queue' \in Seq(RequestIds) /\ Len(main_queue') = Len(main_queue) + 1
        /\ \A i \in 1..Len(main_queue') :
             main_queue'[i] = IF i <= Len(main_queue) THEN main_queue[i] ELSE request[t]
    BY <2>1 DEF DebounceTypeOK
  <2>3. DebounceTypeOK'
    BY <2>1, <2>2 DEF DebounceTypeOK, data, main
  <2>4. TokensInv' /\ JobInv' /\ PendingHasThread' /\ NoResultStranded' /\ BatchInv'
    BY <2>1 DEF TokensInv, JobInv, PendingHasThread, NoResultStranded, BatchInv, DebounceTypeOK,
         data, main
  <2>5. \A n : Older(n) => Older(n)'
    BY <2>1, <2>2 DEF Older, main, data, DebounceTypeOK
  <2>6. AgeInv'
    BY <2>1, <2>5 DEF AgeInv, data, Older, main
  <2>. QED
    BY <2>3, <2>4, <2>6
<1>5. CASE Post(t)
  <2>1. DebounceTypeOK'
    BY <1>5 DEF Post, DebounceTypeOK, data, main
  <2>2. TokensInv' /\ JobInv' /\ PendingHasThread' /\ NoResultStranded' /\ BatchInv'
    BY <1>5 DEF Post, TokensInv, JobInv, PendingHasThread, NoResultStranded, BatchInv,
         DebounceTypeOK, data, main
  <2>3. AgeInv'
    BY <1>5 DEF Post, AgeInv, Older, DebounceTypeOK, data, main, NoRequest, RequestIds
  <2>. QED
    BY <2>1, <2>2, <2>3
<1>. QED
  BY <1>1, <1>2, <1>3, <1>4, <1>5 DEF ThreadStep

(* The main thread's steps, and the clock. *)
LEMMA MainStep ==
  ASSUME DebounceIInv, Expire \/ Consume \/ Take \/ Callback
  PROVE  DebounceIInv'
<1>. USE DEF DebounceIInv
<1>1. CASE Expire
  <2>1. DebounceTypeOK'
    BY <1>1 DEF Expire, DebounceTypeOK, mainq, main
  <2>2. TokensInv' /\ JobInv' /\ PendingHasThread' /\ NoResultStranded' /\ BatchInv' /\ AgeInv'
    BY <1>1 DEF Expire, TokensInv, JobInv, PendingHasThread, NoResultStranded, BatchInv,
                AgeInv, Older, mainq, main
  <2>. QED
    BY <2>1, <2>2
<1>2. CASE Consume
  <2>1. DebounceTypeOK'
    BY <1>2 DEF Consume, DebounceTypeOK, data
  <2>2. TokensInv' /\ JobInv' /\ PendingHasThread' /\ NoResultStranded' /\ BatchInv' /\ AgeInv'
    BY <1>2 DEF Consume, TokensInv, JobInv, PendingHasThread, NoResultStranded, BatchInv,
                AgeInv, Older, data
  <2>. QED
    BY <2>1, <2>2
<1>3. CASE Take
  <2>1. /\ batch' = main_queue /\ main_queue' = <<>> /\ mainpc' = "callbacks" /\ <<>> \in Seq(RequestIds)
        /\ UNCHANGED <<data, thread, request, signalled, newest, requested, abandoned>>
    BY <1>3 DEF Take
  <2>2. DebounceTypeOK'
    BY <2>1 DEF DebounceTypeOK, data
  <2>3. TokensInv' /\ JobInv' /\ PendingHasThread' /\ NoResultStranded' /\ BatchInv'
    BY <2>1 DEF TokensInv, JobInv, PendingHasThread, NoResultStranded, BatchInv, data
  <2>4. \A n : Older(n) => Older(n)'
    BY <2>1 DEF Older
  <2>. QED
    BY <2>1, <2>2, <2>3, <2>4 DEF AgeInv, data
<1>4. CASE Callback /\ batch = <<>>
  <2>1. DebounceTypeOK'
    BY <1>4 DEF Callback, DebounceTypeOK, data, mainq
  <2>2. TokensInv' /\ JobInv' /\ PendingHasThread' /\ NoResultStranded' /\ BatchInv' /\ AgeInv'
    BY <1>4 DEF Callback, TokensInv, JobInv, PendingHasThread, NoResultStranded, BatchInv,
                AgeInv, Older, data, mainq
  <2>. QED
    BY <2>1, <2>2
<1>5. CASE Callback /\ batch # <<>>
  <2>1. /\ batch' = Tail(batch) /\ newest' = (IF batch[1] > newest THEN batch[1] ELSE newest)
        /\ mainpc = "callbacks"
        /\ UNCHANGED <<mainpc, data, thread, request, mainq, requested, abandoned>>
    BY <1>5 DEF Callback, DebounceTypeOK
  <2>2. /\ batch[1] \in RequestIds /\ 1 \in 1..Len(batch)
        /\ batch' \in Seq(RequestIds) /\ Len(batch') = Len(batch) - 1
        /\ \A i \in 1..Len(batch') : batch'[i] = batch[i + 1] /\ i + 1 \in 1..Len(batch)
    BY <1>5, <2>1 DEF DebounceTypeOK
  <2>3. DebounceTypeOK'
    BY <2>1, <2>2 DEF DebounceTypeOK, data, mainq, RequestIds
  <2>4. TokensInv' /\ JobInv' /\ PendingHasThread' /\ NoResultStranded' /\ BatchInv'
    BY <2>1 DEF TokensInv, JobInv, PendingHasThread, NoResultStranded, BatchInv, data, mainq
  <2>5. \A n : Older(n) => Older(n)'
    BY <2>1, <2>2 DEF Older, mainq
  <2>. QED
    BY <2>1, <2>3, <2>4, <2>5 DEF AgeInv, data
<1>. QED
  BY <1>1, <1>2, <1>3, <1>4, <1>5

(* Every step keeps the invariant. *)
LEMMA DebounceNextStep == DebounceIInv /\ [DebounceNext]_debounceVars => DebounceIInv'
<1>. SUFFICES ASSUME DebounceIInv, [DebounceNext]_debounceVars PROVE DebounceIInv'
  OBVIOUS
<1>1. CASE UNCHANGED debounceVars
  <2>1. DebounceTypeOK'
    BY <1>1 DEF DebounceIInv, DebounceTypeOK, debounceVars, data, mainq, main
  <2>2. TokensInv' /\ JobInv' /\ PendingHasThread' /\ NoResultStranded' /\ BatchInv' /\ AgeInv'
    BY <1>1 DEF DebounceIInv, TokensInv, JobInv, PendingHasThread, NoResultStranded, BatchInv,
                AgeInv, Older, debounceVars, data, mainq, main
  <2>. QED
    BY <2>1, <2>2 DEF DebounceIInv
<1>2. CASE DebounceNext
  BY <1>2, PerformStep, ThreadKeeps, MainStep DEF DebounceNext
<1>. QED
  BY <1>1, <1>2

(* The invariant holds throughout. *)
LEMMA DebounceInvariant == DebounceSpec => []DebounceIInv
BY DebounceInitInvariant, DebounceNextStep, PTL DEF DebounceSpec

(* The types: at most one thread is made per request, so that tokens are   *)
(* never used twice.                                                       *)
THEOREM DebounceTypeCorrect == DebounceSpec => []DebounceTypeOK
<1>1. DebounceIInv => DebounceTypeOK
  BY DEF DebounceIInv
<1>. QED
  BY <1>1, DebounceInvariant, PTL

(* A request that waits has a thread that will come for it, whichever      *)
(* threads are abandoned, come back and go.                                *)
THEOREM RequestsHaveThreads == DebounceSpec => []PendingHasThread
<1>1. DebounceIInv => PendingHasThread
  BY DEF DebounceIInv
<1>. QED
  BY <1>1, DebounceInvariant, PTL

(* No result waits on the queue for a signal that will not come.           *)
THEOREM ResultsAnnounced == DebounceSpec => []NoResultStranded
<1>1. DebounceIInv => NoResultStranded
  BY DEF DebounceIInv
<1>. QED
  BY <1>1, DebounceInvariant, PTL

(* No request is taken twice or after a newer one, not even by threads     *)
(* that were abandoned.                                                    *)
THEOREM RequestsTakenInOrder == DebounceSpec => TakenInOrder
<1>. DEFINE TakenNewer ==
       \A t \in Tokens : request'[t] \notin {request[t], NoRequest} =>
         newest < request'[t] /\ \A u \in Tokens : request[u] < request'[t]
<1>1. DebounceIInv /\ [DebounceNext]_debounceVars => [TakenNewer]_debounceVars
  <2>. SUFFICES ASSUME DebounceIInv, DebounceNext, NEW t \in Tokens,
                       request'[t] \notin {request[t], NoRequest}
                PROVE  newest < request'[t] /\ \A u \in Tokens : request[u] < request'[t]
    OBVIOUS
  <2>1. PICK v \in Tokens : RunNext(v) \/ Post(v)
    BY DEF DebounceNext, ThreadStep, Expire, DebouncePerform, HandlerReturns, Push,
           Consume, Take, Callback, mainq
  <2>2. RunNext(v) /\ next_req # NoRequest /\ request'[t] = next_req
    BY <2>1 DEF RunNext, Post, DebounceIInv, DebounceTypeOK
  <2>. QED
    BY <2>2 DEF DebounceIInv, AgeInv, Older
<1>. QED
  BY <1>1, DebounceInvariant, PTL DEF DebounceSpec, TakenInOrder

-----------------------------------------------------------------------------
(* The order of results.  While no thread was abandoned only the active    *)
(* one is at work, and what it works on is newer than all that is on its   *)
(* way to the main thread.                                                 *)
Line == batch \o main_queue
InOrder ==
  \A i \in 1..Len(Line) : newest < Line[i] /\ \A k \in 1..i - 1 : Line[k] < Line[i]
AloneInv == \A t \in Tokens : thread[t] \notin {"none", "gone"} => t = active_token
WorkInv ==
  \A t \in Tokens : thread[t] \in {"handler", "push"} =>
    newest < request[t] /\ \A i \in 1..Len(Line) : Line[i] < request[t]
OrderInv == abandoned = {} => AloneInv /\ InOrder /\ WorkInv

(* Calls of perform() keep the order. *)
LEMMA PerformOrder ==
  ASSUME DebounceIInv, OrderInv, NEW r \in RequestIds, DebouncePerform(r)
  PROVE  OrderInv'
<1>. SUFFICES ASSUME abandoned' = {} PROVE AloneInv' /\ InOrder' /\ WorkInv'
  BY DEF OrderInv
<1>. USE DEF DebounceIInv
<1>1. /\ abandoned = {} /\ ~(active_token # NoToken /\ late)
      /\ UNCHANGED <<request, batch, main_queue, newest>>
  BY DEF DebouncePerform, mainq, main
<1>2. AloneInv /\ InOrder /\ WorkInv /\ Line' = Line
  BY <1>1 DEF OrderInv, Line
<1>3. InOrder'
  BY <1>1, <1>2 DEF InOrder
<1>4. CASE active_token = NoToken
  <2>1. /\ active_token' = next_token /\ thread' = [thread EXCEPT ![next_token] = "pooled"]
    BY <1>4 DEF DebouncePerform
  <2>2. AloneInv' /\ WorkInv'
    BY <1>1, <1>2, <1>4, <2>1 DEF AloneInv, WorkInv, DebounceTypeOK, Tokens, NoToken
  <2>. QED
    BY <1>3, <2>2
<1>5. CASE active_token # NoToken
  <2>1. UNCHANGED <<active_token, thread>>
    BY <1>1, <1>5 DEF DebouncePerform
  <2>. QED
    BY <1>1, <1>2, <1>3, <2>1 DEF AloneInv, WorkInv
<1>. QED
  BY <1>4, <1>5

(* The background thread keeps the order. *)
LEMMA ThreadOrder ==
  ASSUME DebounceIInv, OrderInv, NEW t \in Tokens, ThreadStep(t) \/ HandlerReturns(t)
  PROVE  OrderInv'
<1>. SUFFICES ASSUME abandoned' = {} PROVE AloneInv' /\ InOrder' /\ WorkInv'
  BY DEF OrderInv
<1>. USE DEF DebounceIInv
<1>1. abandoned = {} /\ UNCHANGED <<batch, newest>>
  BY DEF ThreadStep, RunNext, Push, Post, HandlerReturns, main
<1>2. AloneInv /\ InOrder /\ WorkInv
  BY <1>1 DEF OrderInv
<1>l. /\ Line \in Seq(RequestIds)
      /\ \A i \in 1..Len(Line) : \/ \E k \in 1..Len(batch) : Line[i] = batch[k]
                                 \/ \E k \in 1..Len(main_queue) : Line[i] = main_queue[k]
  <2>1. /\ Line \in Seq(RequestIds) /\ Len(Line) = Len(batch) + Len(main_queue)
        /\ Len(batch) \in Nat /\ Len(main_queue) \in Nat
        /\ \A i \in 1..Len(Line) :
             Line[i] = IF i <= Len(batch) THEN batch[i] ELSE main_queue[i - Len(batch)]
    BY DEF DebounceTypeOK, Line
  <2>2. ASSUME NEW i \in 1..Len(Line)
        PROVE  \/ i \in 1..Len(batch)
               \/ i - Len(batch) \in 1..Len(main_queue) /\ ~(i <= Len(batch))
    BY <2>1
  <2>3. ASSUME NEW i \in 1..Len(Line)
        PROVE  \/ \E k \in 1..Len(batch) : Line[i] = batch[k]
               \/ \E k \in 1..Len(main_queue) : Line[i] = main_queue[k]
    <3>1. CASE i \in 1..Len(batch)
      <4>1. i <= Len(batch)
        BY <2>1, <3>1
      <4>2. Line[i] = batch[i]
        BY <2>1, <4>1
      <4>. QED
        BY <3>1, <4>2
    <3>2. CASE i - Len(batch) \in 1..Len(main_queue) /\ ~(i <= Len(batch))
      <4>1. Line[i] = main_queue[i - Len(batch)]
        BY <2>1, <3>2
      <4>. QED
        BY <3>2, <4>1
    <3>. QED
      BY <2>2, <3>1, <3>2
  <2>. QED
    BY <2>1, <2>3
<1>3. CASE RunNext(t) /\ next_req # NoRequest
  <2>1. /\ request' = [request EXCEPT ![t] = next_req] /\ thread' = [thread EXCEPT ![t] = "handler"]
        /\ thread[t] \in {"pooled", "loop"} /\ UNCHANGED <<active_token, main_queue>>
    BY <1>3 DEF RunNext, Idle, mainq
  <2>2. newest < next_req /\ \A i \in 1..Len(Line) : Line[i] < next_req
    BY <1>3, <1>l DEF AgeInv, Older
  <2>3. Line' = Line
    BY <1>1, <2>1 DEF Line
  <2>4. AloneInv'
    BY <1>2, <2>1 DEF AloneInv, DebounceTypeOK
  <2>5. WorkInv'
    BY <1>1, <1>2, <2>1, <2>2, <2>3 DEF WorkInv, DebounceTypeOK
  <2>6. InOrder'
    BY <1>1, <1>2, <2>3 DEF InOrder
  <2>. QED
    BY <2>4, <2>5, <2>6
<1>4. CASE RunNext(t) /\ next_req = NoRequest
  <2>1. /\ active_token' = (IF t = active_token THEN NoToken ELSE active_token)
        /\ thread' = [thread EXCEPT ![t] = "gone"] /\ UNCHANGED <<request, main_queue>>
    BY <1>4 DEF RunNext, mainq
  <2>2. Line' = Line
    BY <1>1, <2>1 DEF Line
  <2>3. AloneInv' /\ WorkInv'
    BY <1>1, <1>2, <2>1, <2>2 DEF AloneInv, WorkInv, DebounceTypeOK
  <2>4. InOrder'
    BY <1>1, <1>2, <2>2 DEF InOrder
  <2>. QED
    BY <2>3, <2>4
<1>5. CASE HandlerReturns(t)
  <2>1. /\ thread[t] = "handler" /\ thread' = [thread EXCEPT ![t] = "push"]
        /\ UNCHANGED <<active_token, request, main_queue>>
    BY <1>5 DEF HandlerReturns, data, mainq
  <2>2. Line' = Line
    BY <1>1, <2>1 DEF Line
  <2>3. AloneInv' /\ WorkInv'
    BY <1>1, <1>2, <2>1, <2>2 DEF AloneInv, WorkInv, DebounceTypeOK
  <2>4. InOrder'
    BY <1>1, <1>2, <2>2 DEF InOrder
  <2>. QED
    BY <2>3, <2>4
<1>6. CASE Push(t)
  <2>1. /\ thread[t] = "push" /\ thread' = [thread EXCEPT ![t] = "post"]
        /\ main_queue' = Append(main_queue, request[t]) /\ request[t] \in RequestIds
        /\ UNCHANGED <<active_token, request>>
    BY <1>6 DEF Push, data, JobInv, DebounceTypeOK
  <2>2. Line' = Append(Line, request[t])
    BY <1>1, <2>1 DEF Line, DebounceTypeOK
  <2>3. /\ Len(Line') = Len(Line) + 1 /\ Len(Line) \in Nat
        /\ \A i \in 1..Len(Line') : Line'[i] = IF i <= Len(Line) THEN Line[i] ELSE request[t]
    BY <1>l, <2>1, <2>2
  <2>4. \A u \in Tokens : thread[u] \in {"handler", "push"} => u = t
    BY <1>2, <2>1 DEF AloneInv
  <2>5. AloneInv' /\ WorkInv'
    BY <1>2, <2>1, <2>4 DEF AloneInv, WorkInv, DebounceTypeOK
  <2>6. newest < request[t] /\ \A i \in 1..Len(Line) : Line[i] < request[t]
    BY <1>2, <2>1 DEF WorkInv
  <2>7. InOrder'
    BY <1>1, <1>2, <2>3, <2>6 DEF InOrder
  <2>. QED
    BY <2>5, <2>7
<1>7. CASE Post(t)
  <2>1. /\ thread[t] = "post" /\ thread' = [thread EXCEPT ![t] = "loop"]
        /\ request' = [request EXCEPT ![t] = NoRequest] /\ UNCHANGED <<active_token, main_queue>>
    BY <1>7 DEF Post, data
  <2>2. Line' = Line
    BY <1>1, <2>1 DEF Line
  <2>3. AloneInv' /\ WorkInv'
    BY <1>1, <1>2, <2>1, <2>2 DEF AloneInv, WorkInv, DebounceTypeOK
  <2>4. InOrder'
    BY <1>1, <1>2, <2>2 DEF InOrder
  <2>. QED
    BY <2>3, <2>4
<1>. QED
  BY <1>3, <1>4, <1>5, <1>6, <1>7 DEF ThreadStep

(* The main thread keeps the order. *)
LEMMA MainOrder ==
  ASSUME DebounceIInv, OrderInv, Expire \/ Consume \/ Take \/ Callback
  PROVE  OrderInv'
<1>. SUFFICES ASSUME abandoned' = {} PROVE AloneInv' /\ InOrder' /\ WorkInv'
  BY DEF OrderInv
<1>. USE DEF DebounceIInv
<1>1. abandoned = {} /\ UNCHANGED <<thread, request, active_token>>
  BY DEF Expire, Consume, Take, Callback, data
<1>2. AloneInv /\ InOrder /\ WorkInv
  BY <1>1 DEF OrderInv
<1>3. AloneInv'
  BY <1>1, <1>2 DEF AloneInv
<1>4. CASE Expire \/ Consume \/ Take \/ (Callback /\ batch = <<>>)
  <2>1. Line' = Line /\ newest' = newest
    <3>1. CASE Take
      <4>1. batch = <<>> /\ batch' = main_queue /\ main_queue' = <<>> /\ newest' = newest
        BY <3>1 DEF Take, BatchInv
      <4>. QED
        BY <4>1 DEF Line, DebounceTypeOK
    <3>. QED
      BY <1>4, <3>1 DEF Expire, Consume, Callback, Line, mainq, main
  <2>. QED
    BY <1>1, <1>2, <1>3, <2>1 DEF InOrder, WorkInv
<1>5. CASE Callback /\ batch # <<>>
  <2>1. /\ batch' = Tail(batch) /\ main_queue' = main_queue
        /\ newest' = (IF batch[1] > newest THEN batch[1] ELSE newest)
    BY <1>5 DEF Callback, mainq, DebounceTypeOK
  <2>2. /\ Line \in Seq(RequestIds) /\ Len(Line) > 0 /\ Line[1] = batch[1]
        /\ Line' = Tail(Line)
    BY <1>5, <2>1 DEF Line, DebounceTypeOK
  <2>3. /\ Len(Line') = Len(Line) - 1 /\ Len(Line) \in Nat
        /\ \A i \in 1..Len(Line') : Line'[i] = Line[i + 1] /\ i + 1 \in 1..Len(Line)
    BY <2>2
  <2>4. newest' = Line[1]
    BY <1>2, <2>1, <2>2 DEF InOrder
  <2>5. InOrder'
    <3>. SUFFICES ASSUME NEW i \in 1..Len(Line')
                  PROVE  newest' < Line'[i] /\ \A k \in 1..i - 1 : Line'[k] < Line'[i]
      BY DEF InOrder
    <3>1. \A k \in 1..(i + 1) - 1 : Line[k] < Line[i + 1]
      BY <1>2, <2>3 DEF InOrder
    <3>. QED
      BY <2>3, <2>4, <3>1
  <2>6. WorkInv'
    BY <1>1, <1>2, <2>2, <2>3, <2>4 DEF WorkInv
  <2>. QED
    BY <1>3, <2>5, <2>6
<1>. QED
  BY <1>4, <1>5

(* While no thread was abandoned, results reach the main thread in the     *)
(* order of the requests.                                                  *)
THEOREM ResultsInOrder == DebounceSpec => []InOrderUnlessAbandoned
<1>1. DebounceInit => OrderInv
  <2>. SUFFICES ASSUME DebounceInit PROVE OrderInv
    OBVIOUS
  <2>1. Line = <<>>
    BY DEF DebounceInit, Line
  <2>. QED
    BY <2>1 DEF DebounceInit, OrderInv, AloneInv, InOrder, WorkInv
<1>2. DebounceIInv /\ OrderInv /\ [DebounceNext]_debounceVars => OrderInv'
  <2>. SUFFICES ASSUME DebounceIInv, OrderInv, [DebounceNext]_debounceVars PROVE OrderInv'
    OBVIOUS
  <2>1. CASE UNCHANGED debounceVars
    BY <2>1 DEF OrderInv, AloneInv, InOrder, WorkInv, Line, debounceVars, data, mainq, main
  <2>2. CASE DebounceNext
    BY <2>2, PerformOrder, ThreadOrder, MainOrder DEF DebounceNext
  <2>. QED
    BY <2>1, <2>2
<1>3. OrderInv => InOrderUnlessAbandoned
  BY DEF OrderInv, AloneInv, InOrder, Line, InOrderUnlessAbandoned
<1>. QED
  BY <1>1, <1>2, <1>3, DebounceInvariant, PTL DEF DebounceSpec

(* The invariants of requests and threads in one, as the run checks it.    *)
THEOREM DebounceAlwaysConsistent == DebounceSpec => []RequestsConsistent
  BY DebounceTypeCorrect, RequestsHaveThreads, ResultsInOrder, PTL DEF RequestsConsistent

=============================================================================
