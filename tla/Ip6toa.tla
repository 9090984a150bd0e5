------------------------------- MODULE Ip6toa -------------------------------
(***************************************************************************)
(* ip6toa of inet6.c.  An address is eight words, and w is the address     *)
(* with the word behind it in memory: the code loads that one too when it  *)
(* steps over the last.  A text is a sequence of numbers and colons.       *)
(***************************************************************************)
EXTENDS Integers, Sequences

CONSTANTS
  Words,  \* words an address may have
  Behind  \* values of the word behind it

MaxWord == 65535

ASSUME WordsAssumption == Words \subseteq 0 .. MaxWord /\ Behind \subseteq 0 .. MaxWord

Addresses == [1 .. 8 -> Words]

IP6TOAMAX == 40

Colon == -1   \* every other element of a text is the number of a %x

End == 9      \* the index behind the address

(* Mutant: the end of the address is not tested.                           *)
SkipZeros_endless(w, x) ==
  IF \E k \in x .. End : w[k] # 0
  THEN CHOOSE k \in x .. End : w[k] # 0 /\ \A j \in x .. k - 1 : w[j] = 0
  ELSE End + 1

(* Where the loops over zeros stop.                                        *)
SkipZeros(w, x) ==
  CHOOSE k \in x .. End : (k = End \/ w[k] # 0) /\ \A j \in x .. k - 1 : w[j] = 0

(* The words from x to the end, each behind a colon.                       *)
Rest(w, x) ==
  [k \in 1 .. 2 * (End - x) |-> IF k % 2 = 1 THEN Colon ELSE w[x + k \div 2 - 1]]

(* The first n words, each in front of a colon.                            *)
First(w, n) == [k \in 1 .. 2 * n |-> IF k % 2 = 1 THEN w[(k + 1) \div 2] ELSE Colon]

WithoutZeros(w) == First(w, End - 2) \o <<w[End - 1]>>

(* The label middle_zeros, reached with the first zero at z.               *)
MiddleZeros(w, z) ==
  LET x == SkipZeros(w, z) IN IF x = End THEN <<Colon>> ELSE Rest(w, x)

ip6toa(w) ==
  LET x     == SkipZeros(w, 1)
      zeros == {k \in 2 .. End - 1 : w[k] = 0}
      z     == CHOOSE k \in zeros : \A j \in zeros : k <= j
  IN  CASE x = End -> <<Colon, Colon>>
        [] x \in 2 .. End - 1 -> <<Colon>> \o Rest(w, x)
        [] x = 1 /\ zeros = {} -> WithoutZeros(w)
        [] OTHER -> First(w, z - 1) \o MiddleZeros(w, z)

-----------------------------------------------------------------------------
(* Numbers and colons take turns, beginning and ending with a number.      *)
Plain(text) ==
  \/ text = <<>>
  \/ /\ Len(text) % 2 = 1
     /\ \A k \in 1 .. Len(text) : text[k] = Colon <=> k % 2 = 0

(* The numbers of a plain text.                                            *)
Numbers(text) == [k \in 1 .. (Len(text) + 1) \div 2 |-> text[2 * k - 1]]

(* The reference: eight words, or fewer with one "::" for the zeros that   *)
(* are missing.                                                            *)
Denotes(text, a) ==
  \/ Plain(text) /\ Numbers(text) = a
  \/ \E k \in 1 .. Len(text) - 1 :
       LET left  == SubSeq(text, 1, k - 1)
           right == SubSeq(text, k + 2, Len(text))
           gap   == 8 - Len(Numbers(left)) - Len(Numbers(right))
       IN  /\ text[k] = Colon /\ text[k + 1] = Colon
           /\ Plain(left) /\ Plain(right)
           /\ gap >= 1
           /\ a = Numbers(left) \o [i \in 1 .. gap |-> 0] \o Numbers(right)

(* The characters that sprintf writes for t, and for the first k elements. *)
Chars(t) == IF t < 16 THEN 1 ELSE IF t < 256 THEN 2 ELSE IF t < 4096 THEN 3 ELSE 4

Written(text) ==
  LET count[k \in 0 .. Len(text)] ==
        IF k = 0 THEN 0 ELSE count[k - 1] + Chars(text[k])
  IN  count

Length(text) == Written(text)[Len(text)]
=============================================================================
